--------------------------- MODULE PricingProofs ---------------------------
(***************************************************************************)
(* What deals with pools, for every market, every set of pools, fees,      *)
(* taxes, amounts and paths that the assumptions of its modules allow.     *)
(*                                                                         *)
(* The paths that may be tried (CandidatePaths) start with the native      *)
(* token, each pool of theirs trades the two tokens of its hop, none has a *)
(* pool twice or is tried twice, and the other pool of a pair is its       *)
(* deepest.                                                                *)
(*                                                                         *)
(* The contract (AttackContract) leaves nothing in a pool, spends only     *)
(* what the path's own swaps brought, and a back run sells what the front  *)
(* run bought, for any number of attacks and of trades by others in        *)
(* between.  Of its paths no more is assumed than what is shown of those   *)
(* found: that a pool trades the tokens of its hop (PathsAreRoutes).       *)
(*                                                                         *)
(* The pairs (Exchanges, for those with a constant product) never lose,    *)
(* give nothing away on a way there and back, and give what formula.py     *)
(* says, or one less.                                                      *)
(*                                                                         *)
(* The walk of a concentrated liquidity pool (TickWalk) stays at the tick  *)
(* of its price, and reckons with the liquidity of the positions there,    *)
(* however old what it keeps of the pool is.  A quote and the quote back   *)
(* of what it gave never give more than was paid.  Of the prices and the   *)
(* logarithm no more is assumed than that prices rise from tick to tick    *)
(* and that the logarithm leaves two ticks (PricesIncrease, LogIsClose).   *)
(*                                                                         *)
(* The iterations of the stable pools (StableSwap) end no lower than the   *)
(* roots of their equations, but for the one that divisions round away,    *)
(* after any number of turns.                                              *)
(***************************************************************************)
EXTENDS PricingInvariants, FiniteSetTheorems, WellFoundedInduction, TLAPS

-----------------------------------------------------------------------------
(* What is chosen is of what it is chosen from.                            *)

LEMMA BestIsOneOfThem ==
  ASSUME NEW S
  PROVE  Best(S) \subseteq S /\ BestBefore(S) \subseteq S
BY DEF Best, BestBefore

LEMMA BetweenTradesThePair ==
  ASSUME FoundFits, NEW t, NEW u, NEW r \in Between(t, u)
  PROVE  TokensOf[r.pool] = {t, u}
BY DEF FoundFits, Between, Asked

(* The answers to a pair are of pools that trade it.                       *)
LEMMA AnswersFit ==
  ASSUME NEW r \in Answers
  PROVE  TokensOf[r.pool] = {r.token0, r.token1}
<1>1. PICK n \in DOMAIN victim : r \in UNION {AnswersTo(n, k) : k \in DOMAIN PairsOf(victim[n])}
  BY DEF Answers
<1>2. PICK k \in DOMAIN PairsOf(victim[n]) : r \in AnswersTo(n, k)
  BY <1>1
<1> DEFINE pair == PairsOf(victim[n])[k]
<1>3. PICK f \in DOMAIN Factories :
        r \in {[at |-> Order(n, k, f), pool |-> p, token0 |-> pair[1], token1 |-> pair[2]] :
                 p \in {q \in Factories[f] : TokensOf[q] = {pair[1], pair[2]}}}
  BY <1>2 DEF AnswersTo
<1> QED
  BY <1>3

-----------------------------------------------------------------------------
(* Paths of one, two, three and four pools.                                *)

PoolTrades(p, t, u) == TokensOf[p] = {t, u}

LEMMA NativeRoundTripsFit ==
  ASSUME FoundFits, search = "arbitrage",
         NEW e, IsNative(e), PoolTrades(e.pool, e.in, e.out),
         NEW path \in NativeRoundTrips(e)
  PROVE  Fits(path, e)
<1>1. PICK r \in Best(Others(e, Asked(e.in, e.out))) :
        path = IF e.in = Native THEN PathOf(<<r.pool, e.pool>>, <<e.in, e.out, e.in>>)
               ELSE PathOf(<<e.pool, r.pool>>, <<e.out, e.in, e.out>>)
  BY DEF NativeRoundTrips
<1>2. r \in Asked(e.in, e.out)
  BY <1>1, BestIsOneOfThem DEF Others
<1>3. PoolTrades(r.pool, e.in, e.out)
  BY <1>2 DEF FoundFits, Asked, PoolTrades
<1>4. CASE e.in = Native
  <2>1. path = PathOf(<<r.pool, e.pool>>, <<e.in, e.out, e.in>>)
    BY <1>1, <1>4
  <2> QED
    BY <2>1, <1>3, <1>4 DEF Fits, FitsArbitrage, HopIs, Hops, PathOf, PoolTrades
<1>5. CASE e.in # Native
  <2>1. path = PathOf(<<e.pool, r.pool>>, <<e.out, e.in, e.out>>) /\ e.out = Native
    BY <1>1, <1>5 DEF IsNative
  <2> QED
    BY <2>1, <1>3 DEF Fits, FitsArbitrage, HopIs, Hops, PathOf, PoolTrades
<1> QED
  BY <1>4, <1>5

LEMMA ThreeHopsFit ==
  ASSUME FoundFits, search = "arbitrage",
         NEW e, PoolTrades(e.pool, e.in, e.out),
         NEW path \in ThreeHops(e)
  PROVE  Fits(path, e)
<1>1. PICK c \in Best(Between(Native, e.out)) \X Best(Between(e.in, Native)) :
        path = PathOf(<<c[1].pool, e.pool, c[2].pool>>, <<Native, e.out, e.in, Native>>)
  BY DEF ThreeHops
<1>2. PoolTrades(c[1].pool, Native, e.out) /\ PoolTrades(c[2].pool, e.in, Native)
  BY <1>1, BestIsOneOfThem, BetweenTradesThePair DEF PoolTrades
<1> QED
  BY <1>1, <1>2 DEF Fits, FitsArbitrage, HopIs, Hops, PathOf, PoolTrades

LEMMA FourHopsFit ==
  ASSUME FoundFits, search = "arbitrage",
         NEW e, PoolTrades(e.pool, e.in, e.out),
         NEW path \in FourHops(e)
  PROVE  Fits(path, e)
<1>1. PICK c \in Best(Between(Native, e.in)) \X Best(Between(e.in, e.out))
                   \X BestBefore(Between(Native, e.in)) :
        path = PathOf(<<c[1].pool, c[2].pool, e.pool, c[3].pool>>,
                      <<Native, e.in, e.out, e.in, Native>>)
  BY DEF FourHops
<1>2. /\ PoolTrades(c[1].pool, Native, e.in)
      /\ PoolTrades(c[2].pool, e.in, e.out)
      /\ PoolTrades(c[3].pool, Native, e.in)
  BY <1>1, BestIsOneOfThem, BetweenTradesThePair DEF PoolTrades
<1> QED
  BY <1>1, <1>2 DEF Fits, FitsArbitrage, HopIs, Hops, PathOf, PoolTrades

LEMMA SandwichPathsFit ==
  ASSUME FoundFits, search = "sandwich",
         NEW e, PoolTrades(e.pool, e.in, e.out),
         NEW path \in SandwichPaths(e)
  PROVE  Fits(path, e)
<1>1. CASE e.in = Native
  <2>1. path = PathOf(<<e.pool>>, <<e.in, e.out>>)
    BY <1>1 DEF SandwichPaths
  <2> QED
    BY <1>1, <2>1 DEF Fits, FitsSandwich, HopIs, Hops, PathOf, PoolTrades
<1>2. CASE e.in # Native
  <2>1. PICK r \in Best(Others(e, Between(Native, e.in))) :
          path = PathOf(<<r.pool, e.pool>>, <<Native, e.in, e.out>>)
    BY <1>2 DEF SandwichPaths
  <2>2. r \in Between(Native, e.in)
    BY <2>1, BestIsOneOfThem DEF Others
  <2>3. PoolTrades(r.pool, Native, e.in)
    BY <2>2, BetweenTradesThePair DEF PoolTrades
  <2> QED
    BY <2>1, <2>3 DEF Fits, FitsSandwich, HopIs, Hops, PathOf, PoolTrades
<1> QED
  BY <1>1, <1>2

LEMMA EveryPathFits ==
  ASSUME FoundFits, search \in {"arbitrage", "sandwich"},
         NEW e, PoolTrades(e.pool, e.in, e.out),
         NEW path \in PathsOf(e)
  PROVE  Fits(path, e)
<1>1. CASE search = "sandwich"
  BY <1>1, SandwichPathsFit DEF PathsOf
<1>2. CASE search = "arbitrage" /\ IsNative(e)
  BY <1>2, NativeRoundTripsFit DEF PathsOf, ArbitragePaths
<1>3. CASE search = "arbitrage" /\ ~IsNative(e)
  BY <1>3, ThreeHopsFit, FourHopsFit DEF PathsOf, ArbitragePaths
<1> QED
  BY <1>1, <1>2, <1>3

-----------------------------------------------------------------------------
LEMMA PathsFitIsKept ==
  ASSUME PathsFit, UNCHANGED <<search, victim, candidates>>
  PROVE  PathsFit'
<1> SUFFICES ASSUME NEW n \in DOMAIN candidates, NEW path \in candidates[n]
             PROVE  Fits(path, victim[n])'
  BY DEF PathsFit
<1>1. Fits(path, victim[n])
  BY DEF PathsFit
<1> DEFINE e == victim[n]
<1>2. e' = e
  OBVIOUS
<1> HIDE DEF e
<1>3. Fits(path, e)
  BY <1>1 DEF e
<1> QED
  BY <1>2, <1>3 DEF e, Fits, FitsArbitrage, FitsSandwich, HopIs, Hops

LEMMA PathsInvAtFirst == PathsInit => PathsInv
BY DEF PathsInit, PathsInv, FoundFits, PathsFit

LEMMA PathsInvIsKept == PathsInv /\ [PathsNext]_pathVars => PathsInv'
<1> SUFFICES ASSUME PathsInv, [PathsNext]_pathVars
             PROVE  PathsInv'
  OBVIOUS
<1> USE DEF PathsInv
<1>1. CASE QueryPools
  <2>1. found' \subseteq Answers \/ found' = found
    BY <1>1 DEF QueryPools
  <2>2. FoundFits'
    BY <2>1, AnswersFit DEF FoundFits
  <2>3. UNCHANGED <<search, victim, candidates>>
    BY <1>1 DEF QueryPools
  <2>4. PathsFit'
    BY <2>3, PathsFitIsKept
  <2> QED
    BY <2>2, <2>3, <2>4
<1>2. CASE QueryBalances
  <2>1. UNCHANGED <<search, victim, found, candidates>>
    BY <1>2 DEF QueryBalances
  <2> QED
    BY <2>1, PathsFitIsKept DEF FoundFits
<1>3. CASE BuildPaths
  <2>1. UNCHANGED <<search, victim, found>>
    BY <1>3 DEF BuildPaths
  <2>2. FoundFits'
    BY <2>1 DEF FoundFits
  <2>3. CASE UNCHANGED candidates
    BY <2>1, <2>2, <2>3, PathsFitIsKept
  <2>4. CASE candidates' = [n \in DOMAIN victim |-> PathsOf(victim[n])]
    <3> SUFFICES ASSUME NEW n \in DOMAIN victim, NEW path \in PathsOf(victim[n])
                 PROVE  Fits(path, victim[n])'
      BY <2>1, <2>2, <2>4 DEF PathsFit
    <3>1. PoolTrades(victim[n].pool, victim[n].in, victim[n].out)
      BY MarketAssumption DEF PoolTrades
    <3>2. Fits(path, victim[n])
      BY <3>1, EveryPathFits
    <3> QED
      BY <3>2, <2>1 DEF Fits, FitsArbitrage, FitsSandwich, HopIs, Hops
  <2> QED
    BY <1>3, <2>3, <2>4 DEF BuildPaths
<1>4. CASE UNCHANGED pathVars
  BY <1>4, PathsFitIsKept DEF pathVars, FoundFits
<1> QED
  BY <1>1, <1>2, <1>3, <1>4 DEF PathsNext

(***************************************************************************)
(* Every path search_arbitrage_candidate_path and                          *)
(* search_sandwich_candidate_path give is one the attack contract can      *)
(* follow, and is of the kind the attack is.                               *)
(***************************************************************************)
THEOREM CandidatesFit == PathsSpec => []PathsFit
<1>1. PathsInv => PathsFit
  BY DEF PathsInv
<1> QED
  BY PathsInvAtFirst, PathsInvIsKept, <1>1, PTL DEF PathsSpec

-----------------------------------------------------------------------------
LessThan == {pair \in Nat \X Nat : pair[1] < pair[2]}

(* Induction over the numbers, for sets of them: the library's theorem,    *)
(* which takes an operator, is out of the provers' reach.                  *)
LEMMA Induction ==
  ASSUME NEW S \in SUBSET Nat, 0 \in S, \A n \in S : n + 1 \in S
  PROVE  S = Nat
<1>1. IsWellFoundedOn(LessThan, Nat)
  BY NatLessThanWellFounded DEF OpToRel, LessThan
<1> SUFFICES ASSUME Nat \ S # {}
             PROVE  FALSE
  OBVIOUS
<1>2. PICK m \in Nat \ S : \A k \in Nat \ S : <<k, m>> \notin LessThan
  BY <1>1, WFMin, Zenon
<1>3. m # 0 /\ m - 1 \in Nat
  BY <1>2
<1>4. m - 1 \in S
  <2>1. <<m - 1, m>> \in LessThan
    BY <1>2, <1>3 DEF LessThan
  <2> QED
    BY <1>2, <1>3, <2>1
<1> QED
  BY <1>2, <1>3, <1>4

-----------------------------------------------------------------------------
(* What a victim with one event has found.                                 *)

(* What the factories answer depends on the victim alone.                  *)
LEMMA SameVictimSameAnswers ==
  ASSUME UNCHANGED <<search, victim>>
  PROVE  Answers' = Answers
<1>1. \A e : PairsOf(e)' = PairsOf(e)
  BY DEF PairsOf
<1>2. \A n, k : AnswersTo(n, k)' = AnswersTo(n, k)
  BY <1>1 DEF AnswersTo
<1> QED
  BY <1>1, <1>2 DEF Answers

LEMMA SameFoundSamePaths ==
  ASSUME UNCHANGED <<search, victim, held, found>>
  PROVE  /\ Answers' = Answers
         /\ \A e : PathsOf(e)' = PathsOf(e)
<1>1. \A S : Best(S)' = Best(S) /\ BestBefore(S)' = BestBefore(S)
  BY DEF Best, BestBefore, Depth
<1>2. \A a, b : Asked(a, b)' = Asked(a, b) /\ Between(a, b)' = Between(a, b)
  BY DEF Asked, Between
<1>3. \A e : NativeRoundTrips(e)' = NativeRoundTrips(e)
  BY <1>1, <1>2 DEF NativeRoundTrips
<1>4. \A e : ThreeHops(e)' = ThreeHops(e) /\ FourHops(e)' = FourHops(e)
  BY <1>1, <1>2 DEF ThreeHops, FourHops
<1>5. \A e : SandwichPaths(e)' = SandwichPaths(e)
  BY <1>1, <1>2 DEF SandwichPaths
<1>6. Answers' = Answers
  BY SameVictimSameAnswers
<1> QED
  BY <1>3, <1>4, <1>5, <1>6 DEF PathsOf, ArbitragePaths

LEMMA SearchInvAtFirst == PathsInit => SearchInv
BY DEF PathsInit, SearchInv

LEMMA SearchInvIsKept == SearchInv /\ [PathsNext]_pathVars => SearchInv'
<1> SUFFICES ASSUME SearchInv, [PathsNext]_pathVars
             PROVE  SearchInv'
  OBVIOUS
<1> USE DEF SearchInv
<1>1. CASE QueryPools
  <2>1. /\ UNCHANGED <<search, victim, held, answered, candidates>>
        /\ found' \subseteq Answers \/ found' = found
        /\ stage' # "done" /\ stage = "pools"
    BY <1>1 DEF QueryPools
  <2>2. Answers' = Answers
    BY <2>1, SameVictimSameAnswers
  <2>3. found' \subseteq Answers'
    BY <2>1, <2>2
  <2>4. candidates' = <<>>
    BY <2>1
  <2> QED
    BY <2>1, <2>3, <2>4
<1>2. CASE QueryBalances
  <2>1. /\ UNCHANGED <<search, victim, held, found, candidates>>
        /\ stage = "balances" /\ stage' = "paths"
    BY <1>2 DEF QueryBalances
  <2>2. Answers' = Answers /\ \A e : PathsOf(e)' = PathsOf(e)
    BY <2>1, SameFoundSamePaths
  <2> QED
    BY <2>1, <2>2
<1>3. CASE BuildPaths
  <2>1. UNCHANGED <<search, victim, held, found>>
    BY <1>3 DEF BuildPaths
  <2>2. Answers' = Answers /\ \A e : PathsOf(e)' = PathsOf(e)
    BY <2>1, SameFoundSamePaths
  <2>3. \/ candidates' = [n \in DOMAIN victim |-> PathsOf(victim[n])] /\ stage' = "done"
        \/ candidates' = candidates /\ stage = "paths" /\ stage' = "raised"
    BY <1>3 DEF BuildPaths
  <2> QED
    BY <2>1, <2>2, <2>3
<1>4. CASE UNCHANGED pathVars
  <2>1. UNCHANGED <<search, victim, held, found, candidates, stage>>
    BY <1>4 DEF pathVars
  <2>2. Answers' = Answers /\ \A e : PathsOf(e)' = PathsOf(e)
    BY <2>1, SameFoundSamePaths
  <2> QED
    BY <2>1, <2>2
<1> QED
  BY <1>1, <1>2, <1>3, <1>4 DEF PathsNext

LEMMA SearchInvHolds == PathsSpec => []SearchInv
BY SearchInvAtFirst, SearchInvIsKept, PTL DEF PathsSpec

(* An answer to a victim with one event is of one factory and one pair, by *)
(* which it is known.                                                      *)
LEMMA AnswerIs ==
  ASSUME SearchInv, Len(victim) = 1, NEW r \in found
  PROVE  /\ 1 \in DOMAIN victim
         /\ \E k \in DOMAIN PairsOf(victim[1]), f \in DOMAIN Factories :
              /\ r.pool \in Factories[f]
              /\ r.at = Order(1, k, f)
              /\ r.token0 = PairsOf(victim[1])[k][1]
              /\ r.token1 = PairsOf(victim[1])[k][2]
              /\ TokensOf[r.pool] = {r.token0, r.token1}
<1>0. DOMAIN victim = {1}
  <2>1. victim \in Seq({victim[n] : n \in DOMAIN victim})
    BY MarketAssumption DEF SearchInv
  <2> QED
    BY <2>1
<1>1. r \in Answers
  BY DEF SearchInv
<1>2. r \in UNION {AnswersTo(1, k) : k \in DOMAIN PairsOf(victim[1])}
  BY <1>0, <1>1 DEF Answers
<1>3. PICK k \in DOMAIN PairsOf(victim[1]) : r \in AnswersTo(1, k)
  BY <1>2
<1> DEFINE pair == PairsOf(victim[1])[k]
<1>4. PICK f \in DOMAIN Factories :
        r \in {[at |-> Order(1, k, f), pool |-> p, token0 |-> pair[1], token1 |-> pair[2]] :
                 p \in {q \in Factories[f] : TokensOf[q] = {pair[1], pair[2]}}}
  BY <1>3 DEF AnswersTo
<1> QED
  BY <1>0, <1>4

-----------------------------------------------------------------------------
(* No pool twice.                                                          *)

Twice(path) ==
  \E g, h \in Hops(path) : /\ g # h /\ path.pools[g] = path.pools[h]
                           /\ ~(Len(path.pools) = 4 /\ {g, h} = {2, 3})

(* Two answers of one pool between the native token and the first token of *)
(* an event without it came at the same place: only one pair asks for it,  *)
(* and a pool is of one factory.                                           *)
LEMMA OnePlace ==
  ASSUME SearchInv, Len(victim) = 1, search = "arbitrage",
         ~IsNative(victim[1]), victim[1].in # victim[1].out,
         NEW r \in Between(Native, victim[1].in), NEW s \in Between(Native, victim[1].in),
         r.pool = s.pool
  PROVE  r.at = s.at
<1> DEFINE e == victim[1]
<1>1. PairsOf(e) = << <<Native, e.out>>, <<e.in, Native>>, <<e.in, e.out>>, <<Native, e.out>> >>
  BY DEF PairsOf
<1>2. Native # e.in /\ Native # e.out /\ e.in # e.out
  BY DEF IsNative
<1>3. DOMAIN PairsOf(e) = 1 .. 4
  BY <1>1
<1>4. ASSUME NEW k \in 1 .. 4, {PairsOf(e)[k][1], PairsOf(e)[k][2]} = {Native, e.in}
      PROVE  k = 2
  <2>1. k = 1 \/ k = 2 \/ k = 3 \/ k = 4
    OBVIOUS
  <2> QED
    BY <1>1, <1>2, <1>4, <2>1
<1>5. \A q \in Between(Native, e.in) : q \in found /\ {q.token0, q.token1} = {Native, e.in}
  BY DEF Between, Asked
<1>6. \A q \in Between(Native, e.in) : \E f \in DOMAIN Factories :
        q.pool \in Factories[f] /\ q.at = Order(1, 2, f)
  <2> SUFFICES ASSUME NEW q \in Between(Native, e.in)
               PROVE  \E f \in DOMAIN Factories : q.pool \in Factories[f] /\ q.at = Order(1, 2, f)
    OBVIOUS
  <2>1. q \in found /\ {q.token0, q.token1} = {Native, e.in}
    BY <1>5
  <2>2. PICK k \in DOMAIN PairsOf(e), f \in DOMAIN Factories :
          /\ q.pool \in Factories[f] /\ q.at = Order(1, k, f)
          /\ q.token0 = PairsOf(e)[k][1] /\ q.token1 = PairsOf(e)[k][2]
    BY <2>1, AnswerIs
  <2>3. k = 2
    BY <1>3, <1>4, <2>1, <2>2
  <2> QED
    BY <2>2, <2>3
<1>7. PICK f \in DOMAIN Factories : r.pool \in Factories[f] /\ r.at = Order(1, 2, f)
  BY <1>6
<1>8. PICK g \in DOMAIN Factories : s.pool \in Factories[g] /\ s.at = Order(1, 2, g)
  BY <1>6
<1>9. f = g
  BY <1>7, <1>8, MarketAssumption
<1> QED
  BY <1>7, <1>8, <1>9

LEMMA FoundInOrder ==
  ASSUME SearchInv, Len(victim) = 1, NEW r \in found
  PROVE  r.at \in Int
<1>1. PICK k \in DOMAIN PairsOf(victim[1]), f \in DOMAIN Factories : r.at = Order(1, k, f)
  BY AnswerIs
<1>2. k \in Int
  BY DEF PairsOf
<1>3. Len(Factories) \in Nat /\ f \in Nat
  BY MarketAssumption
<1>4. (1 * 5 + k) * (Len(Factories) + 1) \in Int
  BY <1>2, <1>3
<1> QED
  BY <1>1, <1>3, <1>4 DEF Order

LEMMA FoundTrades ==
  ASSUME SearchInv, Len(victim) = 1
  PROVE  /\ FoundFits /\ 1 \in DOMAIN victim
         /\ PoolTrades(victim[1].pool, victim[1].in, victim[1].out)
         /\ victim[1].in # victim[1].out
<1>1. 1 \in DOMAIN victim
  <2>1. victim \in Seq({victim[n] : n \in DOMAIN victim})
    BY MarketAssumption DEF SearchInv
  <2> QED
    BY <2>1
<1>2. FoundFits
  BY AnswerIs DEF FoundFits
<1> QED
  BY <1>1, <1>2, MarketAssumption DEF SearchInv, PoolTrades

LEMMA FourHopsNotTwice ==
  ASSUME SearchInv, Len(victim) = 1, search = "arbitrage", ~IsNative(victim[1]),
         NEW path \in FourHops(victim[1])
  PROVE  ~Twice(path)
<1> DEFINE e == victim[1]
           B == Between(Native, e.in)
<1>0. Native # e.in /\ Native # e.out /\ e.in # e.out /\ FoundFits /\ PoolTrades(e.pool, e.in, e.out)
  BY FoundTrades DEF IsNative
<1>1. PICK c \in Best(B) \X Best(Between(e.in, e.out)) \X BestBefore(B) :
        path = PathOf(<<c[1].pool, c[2].pool, e.pool, c[3].pool>>,
                      <<Native, e.in, e.out, e.in, Native>>)
  BY DEF FourHops
<1>2. /\ PoolTrades(c[1].pool, Native, e.in)
      /\ PoolTrades(c[2].pool, e.in, e.out)
      /\ PoolTrades(c[3].pool, Native, e.in)
  BY <1>0, <1>1, BestIsOneOfThem, BetweenTradesThePair DEF PoolTrades
<1>3. c[1].pool # c[3].pool
  <2>1. PICK r \in Best(B) : c[3] \in Best({s \in B : s.at < r.at})
    BY <1>1 DEF BestBefore
  <2>2. c[3] \in B /\ c[3].at < r.at
    BY <2>1 DEF Best
  <2>3. c[1] \in B /\ r \in B
    BY <1>1, <2>1, BestIsOneOfThem
  <2>4. c[1].at \in Int /\ r.at \in Int /\ c[3].at \in Int
    BY <2>2, <2>3, FoundInOrder DEF Between, Asked
  <2>5. Depth(r) \in Nat /\ Depth(c[1]) \in Nat
    <3>1. \A q \in B : q.pool \in Market /\ q.token0 \in TokensOf[q.pool]
      <4> SUFFICES ASSUME NEW q \in B
                   PROVE  q.pool \in Market /\ q.token0 \in TokensOf[q.pool]
        OBVIOUS
      <4>1. q \in found
        BY DEF Between, Asked
      <4>2. PICK f \in DOMAIN Factories :
              q.pool \in Factories[f] /\ TokensOf[q.pool] = {q.token0, q.token1}
        BY <4>1, AnswerIs
      <4>3. Factories[f] \subseteq Market
        BY MarketAssumption
      <4> QED
        BY <4>2, <4>3
    <3> QED
      BY <2>3, <3>1, MarketAssumption DEF SearchInv, Depth
  <2>6. r.at <= c[1].at
    BY <1>1, <2>1, <2>3, <2>5 DEF Best
  <2>7. c[3].at # c[1].at
    BY <2>2, <2>4, <2>6
  <2> QED
    BY <1>0, <2>2, <2>3, <2>7, OnePlace
<1>4. /\ c[1].pool # c[2].pool /\ c[1].pool # e.pool
      /\ c[3].pool # c[2].pool /\ c[3].pool # e.pool
  BY <1>0, <1>2 DEF PoolTrades
<1> QED
  BY <1>1, <1>3, <1>4 DEF Twice, Hops, PathOf

LEMMA NoPathTwice ==
  ASSUME SearchInv, Len(victim) = 1, NEW path \in PathsOf(victim[1])
  PROVE  ~Twice(path)
<1> DEFINE e == victim[1]
<1>0. e.in # e.out /\ FoundFits /\ PoolTrades(e.pool, e.in, e.out)
  BY FoundTrades
<1>1. CASE search = "sandwich" /\ e.in = Native
  BY <1>1 DEF PathsOf, SandwichPaths, PathOf, Twice, Hops
<1>2. CASE search = "sandwich" /\ e.in # Native
  <2>1. PICK r \in Best(Others(e, Between(Native, e.in))) :
          path = PathOf(<<r.pool, e.pool>>, <<Native, e.in, e.out>>)
    BY <1>2 DEF PathsOf, SandwichPaths
  <2>2. r.pool # e.pool
    BY <2>1, BestIsOneOfThem DEF Others
  <2> QED
    BY <2>1, <2>2 DEF PathOf, Twice, Hops
<1>3. CASE search = "arbitrage" /\ IsNative(e)
  <2>1. PICK r \in Best(Others(e, Asked(e.in, e.out))) :
          path = IF e.in = Native THEN PathOf(<<r.pool, e.pool>>, <<e.in, e.out, e.in>>)
                 ELSE PathOf(<<e.pool, r.pool>>, <<e.out, e.in, e.out>>)
    BY <1>3 DEF PathsOf, ArbitragePaths, NativeRoundTrips
  <2>2. r.pool # e.pool
    BY <2>1, BestIsOneOfThem DEF Others
  <2> QED
    BY <2>1, <2>2 DEF PathOf, Twice, Hops
<1>4. CASE search = "arbitrage" /\ ~IsNative(e) /\ path \in ThreeHops(e)
  <2>1. PICK c \in Best(Between(Native, e.out)) \X Best(Between(e.in, Native)) :
          path = PathOf(<<c[1].pool, e.pool, c[2].pool>>, <<Native, e.out, e.in, Native>>)
    BY <1>4 DEF ThreeHops
  <2>2. PoolTrades(c[1].pool, Native, e.out) /\ PoolTrades(c[2].pool, e.in, Native)
    BY <1>0, <2>1, BestIsOneOfThem, BetweenTradesThePair DEF PoolTrades
  <2>3. c[1].pool # e.pool /\ c[2].pool # e.pool /\ c[1].pool # c[2].pool
    BY <1>0, <1>4, <2>2 DEF PoolTrades, IsNative
  <2> QED
    BY <2>1, <2>3 DEF PathOf, Twice, Hops
<1>5. CASE search = "arbitrage" /\ ~IsNative(e) /\ path \in FourHops(e)
  BY <1>5, FourHopsNotTwice
<1> QED
  BY <1>1, <1>2, <1>3, <1>4, <1>5 DEF PathsOf, ArbitragePaths, SearchInv

(***************************************************************************)
(* No path goes through a pool twice, in any market, but for the one the   *)
(* code leaves open: the middle pools of four.                             *)
(***************************************************************************)
THEOREM PoolsAreTakenOnce == PathsSpec => []NoPoolTwice
<1>1. SearchInv => NoPoolTwice
  <2> SUFFICES ASSUME SearchInv, Len(victim) = 1,
                      NEW n \in DOMAIN candidates, NEW path \in candidates[n]
               PROVE  ~Twice(path)
    BY DEF NoPoolTwice, Twice
  <2>1. victim \in Seq({victim[m] : m \in DOMAIN victim})
    BY MarketAssumption DEF SearchInv
  <2>2. DOMAIN victim = {1}
    BY <2>1
  <2>3. n = 1 /\ path \in PathsOf(victim[1])
    BY <2>2 DEF SearchInv
  <2> QED
    BY <2>3, NoPathTwice
<1> QED
  BY <1>1, SearchInvHolds, PTL

-----------------------------------------------------------------------------
(* The deepest pool.                                                       *)

(* Of pools that hold something the first of the deepest can be named,     *)
(* when every place is one of finitely many and has at most one pool.      *)
LEMMA SomeBest ==
  ASSUME NEW S, \A r \in S : Depth(r) \in Nat,
         NEW N \in Nat, NEW base \in Int,
         \A r \in S : \E f \in 1 .. N : r.at = base + f,
         \A r, s \in S : r.at = s.at => r = s,
         \E r \in S : Depth(r) > 0
  PROVE  Best(S) # {}
<1> DEFINE Upto(n) == {r \in S : r.at <= base + n}
           M == {n \in Nat : (\E r \in Upto(n) : Depth(r) > 0) => Best(Upto(n)) # {}}
<1>0. \A r \in S : r.at \in Int
  OBVIOUS
<1>1. 0 \in M
  OBVIOUS
<1>2. ASSUME NEW n \in M
      PROVE  n + 1 \in M
  <2> SUFFICES ASSUME \E r \in Upto(n + 1) : Depth(r) > 0
               PROVE  Best(Upto(n + 1)) # {}
    OBVIOUS
  <2>1. Upto(n) \subseteq Upto(n + 1)
    BY <1>0
  <2>2. \A r \in Upto(n + 1) : r \in Upto(n) \/ r.at = base + (n + 1)
    BY <1>0
  <2>3. \A r \in Upto(n) : r.at < base + (n + 1)
    BY <1>0
  <2>4. CASE \E r \in Upto(n) : Depth(r) > 0
    <3>1. PICK b \in Best(Upto(n)) : TRUE
      BY <2>4
    <3>2. b \in Upto(n) /\ Depth(b) > 0 /\ Depth(b) \in Nat
      BY <3>1 DEF Best
    <3>3. \A s \in Upto(n) : Depth(s) < Depth(b) \/ (Depth(s) = Depth(b) /\ b.at <= s.at)
      BY <3>1 DEF Best
    <3>4. CASE \E c \in Upto(n + 1) : c.at = base + (n + 1) /\ Depth(c) > Depth(b)
      <4>1. PICK c \in Upto(n + 1) : c.at = base + (n + 1) /\ Depth(c) > Depth(b)
        BY <3>4
      <4>2. Depth(c) \in Nat /\ Depth(c) > 0
        BY <3>2, <4>1
      <4>3. \A s \in Upto(n + 1) : s \in Upto(n) \/ s = c
        BY <2>2, <4>1
      <4>4. \A s \in Upto(n) : Depth(s) < Depth(c)
        BY <3>2, <3>3, <4>1, <4>2
      <4>5. c \in Best(Upto(n + 1))
        BY <1>0, <4>1, <4>2, <4>3, <4>4 DEF Best
      <4> QED
        BY <4>5
    <3>5. CASE ~\E c \in Upto(n + 1) : c.at = base + (n + 1) /\ Depth(c) > Depth(b)
      <4>1. \A s \in Upto(n + 1) : Depth(s) < Depth(b) \/ (Depth(s) = Depth(b) /\ b.at <= s.at)
        <5> SUFFICES ASSUME NEW s \in Upto(n + 1)
                     PROVE  Depth(s) < Depth(b) \/ (Depth(s) = Depth(b) /\ b.at <= s.at)
          OBVIOUS
        <5>1. CASE s \in Upto(n)
          BY <3>3, <5>1
        <5>2. CASE s.at = base + (n + 1)
          <6>1. b.at <= s.at /\ Depth(s) \in Nat /\ ~(Depth(s) > Depth(b))
            BY <1>0, <2>3, <3>2, <3>5, <5>2
          <6> QED
            BY <3>2, <6>1
        <5> QED
          BY <2>2, <5>1, <5>2
      <4>2. b \in Best(Upto(n + 1))
        BY <2>1, <3>2, <4>1 DEF Best
      <4> QED
        BY <4>2
    <3> QED
      BY <3>4, <3>5
  <2>5. CASE ~\E r \in Upto(n) : Depth(r) > 0
    <3>1. PICK c \in Upto(n + 1) : Depth(c) > 0 /\ c.at = base + (n + 1)
      BY <2>2, <2>5
    <3>2. \A s \in Upto(n + 1) : s \in Upto(n) \/ s = c
      BY <2>2, <3>1
    <3>3. \A s \in Upto(n) : Depth(s) < Depth(c)
      <4> SUFFICES ASSUME NEW s \in Upto(n)
                   PROVE  Depth(s) < Depth(c)
        OBVIOUS
      <4>1. Depth(s) \in Nat /\ ~(Depth(s) > 0)
        BY <2>5
      <4>2. Depth(c) \in Nat
        OBVIOUS
      <4> QED
        BY <3>1, <4>1, <4>2
    <3>4. c \in Best(Upto(n + 1))
      BY <1>0, <3>1, <3>2, <3>3 DEF Best
    <3> QED
      BY <3>4
  <2> QED
    BY <2>4, <2>5
<1>3. M = Nat
  <2>1. M \subseteq Nat
    OBVIOUS
  <2> HIDE DEF M
  <2> QED
    BY <1>1, <1>2, <2>1, Induction
<1>4. Upto(N) = S
  BY <1>0
<1>5. N \in M
  BY <1>3
<1> HIDE DEF Upto
<1> QED
  BY <1>4, <1>5

LEMMA Cancels ==
  ASSUME NEW m \in Int, NEW n \in Int, NEW base \in Int, base + m = base + n
  PROVE  m = n
OBVIOUS

(* What is found for a native pair, other than the victim's pool.          *)
LEMMA NativeFound ==
  ASSUME SearchInv, Len(victim) = 1, search = "arbitrage", IsNative(victim[1])
  PROVE  /\ Asked(victim[1].in, victim[1].out) = found
         /\ \A r \in found : r.token0 = victim[1].in
         /\ \A r \in found : Depth(r) \in Nat
         /\ \A r \in found : \E f \in 1 .. Len(Factories) : r.at = 6 * (Len(Factories) + 1) + f
         /\ \A r, s \in found : r.at = s.at => r = s
<1> DEFINE e == victim[1]
<1>1. PairsOf(e) = << <<e.in, e.out>> >>
  BY DEF PairsOf
<1>2. DOMAIN victim = {1}
  <2>1. victim \in Seq({victim[n] : n \in DOMAIN victim})
    BY MarketAssumption DEF SearchInv
  <2> QED
    BY <2>1
<1>3. Answers = AnswersTo(1, 1)
  BY <1>1, <1>2 DEF Answers
<1>4. \A r \in found : \E f \in DOMAIN Factories, p \in Market :
         /\ p \in Factories[f] /\ TokensOf[p] = {e.in, e.out}
         /\ r = [at |-> Order(1, 1, f), pool |-> p, token0 |-> e.in, token1 |-> e.out]
  <2> SUFFICES ASSUME NEW r \in found
               PROVE  \E f \in DOMAIN Factories, p \in Market :
                        /\ p \in Factories[f] /\ TokensOf[p] = {e.in, e.out}
                        /\ r = [at |-> Order(1, 1, f), pool |-> p, token0 |-> e.in, token1 |-> e.out]
    OBVIOUS
  <2>1. r \in AnswersTo(1, 1)
    BY <1>3 DEF SearchInv
  <2>2. PICK f \in DOMAIN Factories :
          r \in {[at |-> Order(1, 1, f), pool |-> p, token0 |-> e.in, token1 |-> e.out] :
                   p \in {q \in Factories[f] : TokensOf[q] = {e.in, e.out}}}
    BY <1>1, <2>1 DEF AnswersTo
  <2>3. Factories[f] \subseteq Market
    BY MarketAssumption
  <2> QED
    BY <2>2, <2>3
<1> HIDE DEF e
<1>5. DOMAIN Factories = 1 .. Len(Factories) /\ Len(Factories) \in Nat
  BY MarketAssumption
<1>6. \A f \in DOMAIN Factories : Order(1, 1, f) = 6 * (Len(Factories) + 1) + f
  BY <1>5 DEF Order
<1>7. \A r \in found : r.token0 = e.in /\ r.token1 = e.out
  BY <1>4
<1>8. \A r \in found : \E f \in 1 .. Len(Factories) : r.at = 6 * (Len(Factories) + 1) + f
  BY <1>4, <1>5, <1>6
<1>9. \A r, s \in found : r.at = s.at => r = s
  <2> SUFFICES ASSUME NEW r \in found, NEW s \in found, r.at = s.at
               PROVE  r = s
    OBVIOUS
  <2>1. PICK f \in DOMAIN Factories, p \in Market :
          /\ p \in Factories[f] /\ TokensOf[p] = {e.in, e.out}
          /\ r = [at |-> Order(1, 1, f), pool |-> p, token0 |-> e.in, token1 |-> e.out]
    BY <1>4
  <2>2. PICK g \in DOMAIN Factories, q \in Market :
          /\ q \in Factories[g] /\ TokensOf[q] = {e.in, e.out}
          /\ s = [at |-> Order(1, 1, g), pool |-> q, token0 |-> e.in, token1 |-> e.out]
    BY <1>4
  <2>3. r.at = Order(1, 1, f) /\ s.at = Order(1, 1, g)
    BY <2>1, <2>2
  <2>4. f = g
    <3> DEFINE base == 6 * (Len(Factories) + 1)
    <3>1. r.at = base + f /\ s.at = base + g
      BY <1>6, <2>3
    <3>2. f \in Int /\ g \in Int /\ base \in Int
      BY <1>5
    <3> HIDE DEF base
    <3>3. base + f = base + g
      BY <3>1, Zenon
    <3> QED
      BY <3>2, <3>3, Cancels
  <2>5. p = q
    <3>1. p \in Factories[f] /\ q \in Factories[f] /\ TokensOf[p] = TokensOf[q]
      BY <2>1, <2>2, <2>4
    <3> QED
      BY <3>1, MarketAssumption
  <2> QED
    BY <2>1, <2>2, <2>4, <2>5
<1>10. \A r \in found : Depth(r) \in Nat
  <2> SUFFICES ASSUME NEW r \in found
               PROVE  Depth(r) \in Nat
    OBVIOUS
  <2>1. PICK p \in Market : r.pool = p /\ r.token0 = e.in /\ e.in \in TokensOf[p]
    BY <1>4
  <2> QED
    BY <2>1, MarketAssumption DEF SearchInv, Depth
<1>11. Asked(e.in, e.out) = found
  BY <1>7 DEF Asked
<1> QED
  BY <1>7, <1>8, <1>9, <1>10, <1>11 DEF e

(***************************************************************************)
(* The path of a victim in a pair with the native token uses the deepest   *)
(* of all other pools that were found, and there is one unless they are    *)
(* all empty, in any market and with any answers lost.                     *)
(***************************************************************************)
THEOREM DeepestIsTaken == PathsSpec => []DeepestOtherPool
<1>1. SearchInv => DeepestOtherPool
  <2> SUFFICES ASSUME SearchInv, stage = "done", search = "arbitrage",
                      Len(victim) = 1, IsNative(victim[1])
               PROVE  LET e == victim[1]
                          others == {r.pool : r \in found} \ {e.pool}
                      IN  /\ candidates[1] = {} => \A p \in others : held[p][e.in] = 0
                          /\ \A path \in candidates[1] :
                               \E h \in Hops(path) :
                                 /\ path.pools[h] \in others
                                 /\ \A p \in others : held[p][e.in] <= held[path.pools[h]][e.in]
    BY DEF DeepestOtherPool
  <2> DEFINE e == victim[1]
             others == {r.pool : r \in found} \ {e.pool}
             S == Others(e, found)
  <2>1. /\ Asked(e.in, e.out) = found
        /\ \A r \in found : r.token0 = e.in
        /\ \A r \in found : Depth(r) \in Nat
        /\ \A r \in found : \E f \in 1 .. Len(Factories) : r.at = 6 * (Len(Factories) + 1) + f
        /\ \A r, s \in found : r.at = s.at => r = s
    BY NativeFound
  <2>2. 1 \in DOMAIN victim
    BY FoundTrades
  <2>3. candidates[1] = NativeRoundTrips(e)
    BY <2>2 DEF SearchInv, PathsOf, ArbitragePaths
  <2>4. candidates[1] =
          {IF e.in = Native THEN PathOf(<<r.pool, e.pool>>, <<e.in, e.out, e.in>>)
           ELSE PathOf(<<e.pool, r.pool>>, <<e.out, e.in, e.out>>) : r \in Best(S)}
    BY <2>1, <2>3 DEF NativeRoundTrips
  <2>5. /\ S \subseteq found
        /\ \A p \in others : \E r \in S : r.pool = p
        /\ \A r \in S : r.pool \in others
    BY DEF Others
  <2>6. \A r \in S : Depth(r) = held[r.pool][e.in] /\ Depth(r) \in Nat
    BY <2>1, <2>5 DEF Depth
  <2> HIDE DEF S, others, e
  <2>7. ASSUME candidates[1] = {}, NEW p \in others
        PROVE  held[p][e.in] = 0
    <3>1. Best(S) = {}
      BY <2>4, <2>7
    <3>2. Len(Factories) \in Nat
      BY MarketAssumption
    <3>3. ~\E r \in S : Depth(r) > 0
      <4> SUFFICES ASSUME \E r \in S : Depth(r) > 0
                   PROVE  Best(S) # {}
        BY <3>1
      <4> DEFINE N == Len(Factories)
                 base == 6 * (N + 1)
      <4>1. N \in Nat /\ base \in Int
        BY <3>2
      <4>2. \A r \in S : \E f \in 1 .. N : r.at = base + f
        BY <2>1, <2>5
      <4>3. \A r, s \in S : r.at = s.at => r = s
        BY <2>1, <2>5
      <4>4. \A r \in S : Depth(r) \in Nat
        BY <2>6
      <4> HIDE DEF N, base
      <4> QED
        BY <4>1, <4>2, <4>3, <4>4, SomeBest
    <3>4. PICK r \in S : r.pool = p
      BY <2>5, <2>7
    <3>5. Depth(r) = held[p][e.in] /\ Depth(r) \in Nat /\ ~(Depth(r) > 0)
      BY <2>6, <3>3, <3>4
    <3> QED
      BY <3>5
  <2>8. ASSUME NEW path \in candidates[1]
        PROVE  \E h \in Hops(path) :
                 /\ path.pools[h] \in others
                 /\ \A p \in others : held[p][e.in] <= held[path.pools[h]][e.in]
    <3>1. PICK r \in Best(S) :
            path = IF e.in = Native THEN PathOf(<<r.pool, e.pool>>, <<e.in, e.out, e.in>>)
                   ELSE PathOf(<<e.pool, r.pool>>, <<e.out, e.in, e.out>>)
      BY <2>4, <2>8
    <3>2. PICK h \in Hops(path) : path.pools[h] = r.pool
      <4>1. CASE e.in = Native
        <5>1. 1 \in Hops(path) /\ path.pools[1] = r.pool
          BY <3>1, <4>1 DEF PathOf, Hops
        <5> QED
          BY <5>1
      <4>2. CASE e.in # Native
        <5>1. 2 \in Hops(path) /\ path.pools[2] = r.pool
          BY <3>1, <4>2 DEF PathOf, Hops
        <5> QED
          BY <5>1
      <4> QED
        BY <4>1, <4>2
    <3>3. r \in S /\ r.pool \in others
      BY <2>5, <3>1, BestIsOneOfThem
    <3>4. \A p \in others : held[p][e.in] <= held[r.pool][e.in]
      <4> SUFFICES ASSUME NEW p \in others
                   PROVE  held[p][e.in] <= held[r.pool][e.in]
        OBVIOUS
      <4>1. PICK s \in S : s.pool = p
        BY <2>5
      <4>2. Depth(s) < Depth(r) \/ Depth(s) = Depth(r)
        BY <3>1, <4>1 DEF Best
      <4>3. /\ Depth(s) = held[p][e.in] /\ Depth(r) = held[r.pool][e.in]
            /\ Depth(s) \in Nat /\ Depth(r) \in Nat
        BY <2>6, <3>3, <4>1
      <4> QED
        BY <4>2, <4>3
    <3> QED
      BY <3>2, <3>3, <3>4
  <2> QED
    BY <2>7, <2>8 DEF e, others
<1> QED
  BY <1>1, SearchInvHolds, PTL

-----------------------------------------------------------------------------
(* Arithmetic.                                                             *)

LEMMA DivisionRounds ==
  ASSUME NEW a \in Int, NEW b \in Nat \ {0}
  PROVE  a \div b \in Int /\ b * (a \div b) <= a /\ a < b * (a \div b) + b
OBVIOUS

LEMMA QuotientIsLess ==
  ASSUME NEW a \in Int, NEW b \in Nat \ {0}, NEW c \in Int, a < b * c
  PROVE  a \div b < c
<1>1. b * (a \div b) <= a /\ a \div b \in Int
  BY DivisionRounds
<1>2. b * (a \div b) < b * c
  BY <1>1
<1> QED
  BY <1>1, <1>2

LEMMA QuotientIsNoLess ==
  ASSUME NEW a \in Int, NEW b \in Nat \ {0}, NEW c \in Int, b * c <= a
  PROVE  c <= a \div b
<1>1. b * (a \div b) + b > a /\ a \div b \in Int
  BY DivisionRounds
<1>2. b * (a \div b + 1) > b * c
  BY <1>1
<1> QED
  BY <1>1, <1>2

LEMMA DivideUpIsNoMore ==
  ASSUME NEW a \in Int, NEW b \in Nat \ {0}, NEW c \in Int, a <= b * c
  PROVE  DivideUp(a, b) \in Int /\ DivideUp(a, b) <= c
<1>1. a + b - 1 < b * (c + 1)
  OBVIOUS
<1>2. (a + b - 1) \div b < c + 1 /\ (a + b - 1) \div b \in Int
  BY <1>1, QuotientIsLess, DivisionRounds
<1> QED
  BY <1>2 DEF DivideUp

(* A token keeps at most all of a transfer.                                *)
LEMMA ArrivingIsPart ==
  ASSUME NEW t \in Tokens, NEW amount \in Nat
  PROVE  Arriving(t, amount) \in Nat /\ Arriving(t, amount) <= amount
<1> DEFINE kept == (amount * Tax[t]) \div 100
<1>1. Tax[t] \in 0 .. 100
  BY AmountsAreUnsigned
<1>2. amount * Tax[t] \in Nat /\ amount * Tax[t] <= 100 * amount
  BY <1>1
<1>3. kept \in Int /\ 100 * kept <= amount * Tax[t] /\ amount * Tax[t] < 100 * kept + 100
  BY <1>2, DivisionRounds
<1>4. kept >= 0 /\ kept <= amount
  BY <1>2, <1>3
<1> QED
  BY <1>3, <1>4 DEF Arriving

(* What a pool pays is less than it holds, for a first reserve a, a second
   b, and an input of n parts.                                             *)
LEMMA PaysLess ==
  ASSUME NEW a \in Nat \ {0}, NEW b \in Nat \ {0}, NEW n \in Nat
  PROVE  (n * b) \div (a + n) \in Nat /\ (n * b) \div (a + n) < b
<1>1. a + n \in Nat \ {0} /\ n * b \in Nat /\ (a + n) * b = a * b + n * b /\ a * b > 0
  OBVIOUS
<1> HIDE DEF DivideUp
<1>2. n * b < (a + n) * b
  BY <1>1
<1>3. (n * b) \div (a + n) < b
  BY <1>1, <1>2, QuotientIsLess
<1>4. 0 <= (n * b) \div (a + n)
  <2>1. (a + n) * 0 <= n * b
    BY <1>1
  <2> QED
    BY <1>1, <2>1, QuotientIsNoLess
<1>5. (n * b) \div (a + n) \in Int
  BY <1>1, DivisionRounds
<1> QED
  BY <1>3, <1>4, <1>5

LEMMA PoolGivesLess ==
  ASSUME book \in Books, Solvent(book),
         NEW p \in PoolAddresses, NEW in \in Tokens, NEW out \in Tokens,
         Coins[p] = {in, out}, NEW amount \in Nat
  PROVE  PoolGives(p, in, out, amount) \in Nat /\ PoolGives(p, in, out, amount) < book[p][out]
<1> DEFINE net == amount * (Parts - PoolFee[p])
<1>1. Parts \in Nat \ {0} /\ PoolFee[p] \in 0 .. Parts - 1
  BY PoolsAreTwoTokens
<1>2. book[p][in] \in Nat \ {0} /\ book[p][out] \in Nat \ {0}
  BY DEF Books, Solvent
<1>3. net \in Nat
  BY <1>1
<1>4. book[p][in] * Parts \in Nat \ {0}
  BY <1>1, <1>2
<1> HIDE DEF net
<1>5. /\ (net * book[p][out]) \div (book[p][in] * Parts + net) \in Nat
      /\ (net * book[p][out]) \div (book[p][in] * Parts + net) < book[p][out]
  BY <1>2, <1>3, <1>4, PaysLess
<1> QED
  BY <1>5 DEF PoolGives, net

(* What the contract asks a pair for, of a first reserve a and a second b,
   when it has paid g.                                                     *)
LEMMA AsksForNoLess ==
  ASSUME NEW a \in Nat \ {0}, NEW b \in Nat \ {0}, NEW g \in Nat, NEW f \in 0 .. Parts - 1
  PROVE  LET d == (a + g) * Parts - g * f
             left == DivideUp(a * b * Parts * Parts, d)
         IN  /\ d \in Nat \ {0}
             /\ left \in Int /\ left <= b * Parts
             /\ DivideUp(left, Parts) \in Int /\ DivideUp(left, Parts) <= b
<1> DEFINE d == (a + g) * Parts - g * f
           left == DivideUp(a * b * Parts * Parts, d)
<1>1. Parts \in Nat \ {0} /\ Parts - f \in Nat
  BY PoolsAreTwoTokens
<1>2. d = a * Parts + g * (Parts - f)
  BY <1>1
<1>3. a * Parts \in Nat \ {0} /\ g * (Parts - f) \in Nat
  BY <1>1
<1>4. d \in Nat \ {0} /\ a * Parts <= d
  BY <1>2, <1>3
<1>5. b * Parts \in Nat /\ a * b * Parts * Parts = (a * Parts) * (b * Parts)
  BY <1>1
<1>6. (a * Parts) * (b * Parts) <= d * (b * Parts)
  <2> DEFINE x == a * Parts
             y == b * Parts
  <2>1. x \in Int /\ y \in Nat /\ d \in Int /\ x <= d
    BY <1>3, <1>4, <1>5
  <2> HIDE DEF d, x, y
  <2>2. x * y <= d * y
    BY <2>1
  <2> QED
    BY <2>2 DEF x, y
<1>7. a * b * Parts * Parts \in Int
  BY <1>1
<1>8. left \in Int /\ left <= b * Parts
  <2> HIDE DEF d
  <2> QED
    BY <1>4, <1>5, <1>6, <1>7, DivideUpIsNoMore
<1>9. left <= Parts * b
  BY <1>8, <1>1
<1>10. DivideUp(left, Parts) \in Int /\ DivideUp(left, Parts) <= b
  <2> HIDE DEF left
  <2> QED
    BY <1>1, <1>8, <1>9, DivideUpIsNoMore
<1> QED
  BY <1>4, <1>8, <1>10

LEMMA AmountOutIsNatural ==
  ASSUME NEW owned \in Ledgers, book \in Books, Solvent(book),
         NEW p \in PoolAddresses, NEW in \in Tokens, NEW out \in Tokens,
         Coins[p] = {in, out}, owned[p][in] >= book[p][in]
  PROVE  GetAmountOut(owned, p, in, out) \in Nat
<1> DEFINE a == book[p][in]
           b == book[p][out]
           g == owned[p][in] - book[p][in]
<1>1. /\ Parts \in Nat \ {0} /\ PoolFee[p] \in 0 .. Parts - 1
      /\ Parts - CommonFee \in Nat
  BY PoolsAreTwoTokens
<1>2. a \in Nat \ {0} /\ b \in Nat \ {0}
  BY DEF Books, Solvent
<1>3. g \in Nat /\ owned[p][in] = a + g
  BY <1>2 DEF Ledgers
<1> HIDE DEF a, b, g
<1>4. CASE p \in FeeKnown
  <2> DEFINE left == DivideUp(a * b * Parts * Parts, (a + g) * Parts - g * PoolFee[p])
  <2>1. DivideUp(left, Parts) \in Int /\ DivideUp(left, Parts) <= b
    BY <1>1, <1>2, <1>3, AsksForNoLess
  <2>2. GetAmountOut(owned, p, in, out) = b - DivideUp(left, Parts)
    BY <1>3, <1>4 DEF GetAmountOut, a, b, g
  <2> HIDE DEF left
  <2> QED
    BY <1>2, <2>1, <2>2
<1>5. CASE p \notin FeeKnown
  <2> DEFINE n == g * (Parts - CommonFee)
  <2>1. n \in Nat /\ a * Parts \in Nat \ {0}
    BY <1>1, <1>2, <1>3
  <2>2. GetAmountOut(owned, p, in, out) = (n * b) \div (a * Parts + n)
    BY <1>5 DEF GetAmountOut, a, b, g
  <2> HIDE DEF n
  <2>3. (n * b) \div (a * Parts + n) \in Nat
    BY <1>2, <2>1, PaysLess
  <2> QED
    BY <2>2, <2>3
<1> QED
  BY <1>4, <1>5

-----------------------------------------------------------------------------
(* Transfers.                                                              *)

LEMMA TransferredIs ==
  ASSUME NEW owned \in Ledgers, NEW t \in Tokens,
         NEW from \in PoolAddresses \union {Contract}, NEW to \in PoolAddresses \union {Contract},
         from # to, NEW amount \in Nat
  PROVE  /\ Transferred(owned, t, from, to, amount) \in Ledgers
         /\ \A h \in PoolAddresses \union {Contract}, u \in Tokens :
              Transferred(owned, t, from, to, amount)[h][u] =
                IF u # t THEN owned[h][u]
                ELSE IF h = from THEN owned[h][u] - amount
                ELSE IF h = to THEN owned[h][u] + Arriving(t, amount)
                ELSE owned[h][u]
<1>1. Arriving(t, amount) \in Nat
  BY ArrivingIsPart
<1> QED
  BY <1>1 DEF Transferred, Ledgers

LEMMA ContractPays ==
  ASSUME NEW owned \in Ledgers, NEW t \in Tokens, NEW p \in PoolAddresses, NEW amount \in Nat
  PROVE  /\ Transferred(owned, t, Contract, p, amount) \in Ledgers
         /\ \A h \in PoolAddresses \union {Contract}, u \in Tokens :
              Transferred(owned, t, Contract, p, amount)[h][u] =
                IF u # t THEN owned[h][u]
                ELSE IF h = Contract THEN owned[h][u] - amount
                ELSE IF h = p THEN owned[h][u] + Arriving(t, amount)
                ELSE owned[h][u]
BY TransferredIs, ContractIsNoPool

-----------------------------------------------------------------------------
(* Routes.                                                                 *)

LEMMA LegIs ==
  ASSUME NEW path \in Paths, NEW forward \in BOOLEAN, NEW i \in 1 .. Len(path.pools)
  PROVE  /\ Len(Legs(path, forward)) = Len(path.pools)
         /\ Legs(path, forward)[i].pool \in PoolAddresses
         /\ Legs(path, forward)[i].in = TokenAt(path, forward, i)
         /\ Legs(path, forward)[i].out = TokenAt(path, forward, i + 1)
         /\ TokenAt(path, forward, i) \in Tokens
         /\ TokenAt(path, forward, i + 1) \in Tokens
         /\ TokenAt(path, forward, i) # TokenAt(path, forward, i + 1)
         /\ Coins[Legs(path, forward)[i].pool]
              = {TokenAt(path, forward, i), TokenAt(path, forward, i + 1)}
<1> DEFINE n == Len(path.pools)
<1>1. /\ path.pools \in Seq(PoolAddresses) /\ path.tokens \in Seq(Tokens)
      /\ n \in Nat /\ Len(path.tokens) = n + 1
  BY PathsAreRoutes
<1>2. \A k \in 1 .. n :
        /\ path.pools[k] \in PoolAddresses
        /\ path.tokens[k] \in Tokens /\ path.tokens[k + 1] \in Tokens
        /\ path.tokens[k] # path.tokens[k + 1]
        /\ Coins[path.pools[k]] = {path.tokens[k], path.tokens[k + 1]}
  <2> SUFFICES ASSUME NEW k \in 1 .. n
               PROVE  /\ path.pools[k] \in PoolAddresses
                      /\ path.tokens[k] \in Tokens /\ path.tokens[k + 1] \in Tokens
                      /\ path.tokens[k] # path.tokens[k + 1]
                      /\ Coins[path.pools[k]] = {path.tokens[k], path.tokens[k + 1]}
    OBVIOUS
  <2>1. path.pools[k] \in PoolAddresses
    BY <1>1
  <2>2. path.tokens[k] \in Tokens /\ path.tokens[k + 1] \in Tokens
    <3>1. k \in 1 .. n + 1 /\ k + 1 \in 1 .. n + 1
      BY <1>1
    <3> QED
      BY <1>1, <3>1
  <2> QED
    BY <2>1, <2>2, PathsAreRoutes
<1>3. CASE forward
  BY <1>1, <1>2, <1>3 DEF Legs, TokenAt
<1>4. CASE ~forward
  <2> DEFINE k == n + 1 - i
  <2>1. k \in 1 .. n /\ k + 1 = n + 2 - i
    BY <1>1
  <2>2. Legs(path, forward)[i] =
          [pool |-> path.pools[k], in |-> path.tokens[k + 1], out |-> path.tokens[k]]
    BY <1>1, <1>4, <2>1 DEF Legs
  <2>3. Len(Legs(path, forward)) = n
    BY <1>1, <1>4 DEF Legs
  <2>4. TokenAt(path, forward, i) = path.tokens[k + 1]
    BY <1>1, <1>4, <2>1 DEF TokenAt
  <2>5. TokenAt(path, forward, i + 1) = path.tokens[k]
    <3>1. n \in Int /\ i \in Int /\ Len(path.tokens) = n + 1
      BY <1>1
    <3>2. Len(path.tokens) + 1 - (i + 1) = k
      <4> HIDE DEF n
      <4> QED
        BY <3>1 DEF k
    <3> QED
      BY <1>4, <3>2 DEF TokenAt
  <2> HIDE DEF k
  <2> QED
    BY <1>2, <2>1, <2>2, <2>3, <2>4, <2>5
<1> QED
  BY <1>3, <1>4

LEMMA EndsOfRoute ==
  ASSUME NEW path \in Paths, NEW forward \in BOOLEAN
  PROVE  /\ Len(path.pools) \in Nat \ {0}
         /\ Start(path) \in Tokens /\ Target(path) \in Tokens
         /\ TokenAt(path, forward, 1) = IF forward THEN Start(path) ELSE Target(path)
         /\ TokenAt(path, forward, Len(path.pools) + 1)
              = IF forward THEN Target(path) ELSE Start(path)
  BY PathsAreRoutes DEF TokenAt, Start, Target

-----------------------------------------------------------------------------
(* What a swap does to the ledger, wherever its input lay and its output
   goes.                                                                   *)

LEMMA V2Swaps ==
  ASSUME balance \in Ledgers, book \in Books, Solvent(book),
         NEW p \in PoolAddresses, Dex[p] \in UniswapV2Ids, NEW in \in Tokens, NEW out \in Tokens, in # out,
         Coins[p] = {in, out}, NEW amount \in Nat,
         NEW from, from = Contract \/ from = p,
         \A q \in PoolAddresses, t \in Tokens :
           balance[q][t] = book[q][t] + (IF q = from /\ t = in THEN amount ELSE 0),
         UniswapV2Swap(p, from, in, out, amount).error = "none"
  PROVE  Swapped(p, from, Contract, in, out, amount, UniswapV2Swap(p, from, in, out, amount))
<1> DEFINE paid == IF PaysPair(from) THEN Transferred(balance, in, Contract, p, amount)
                   ELSE balance
           owed == GetAmountOut(paid, p, in, out)
           after == Transferred(paid, out, p, Contract, owed)
           swap == UniswapV2Swap(p, from, in, out, amount)
<1> DEFINE holders == PoolAddresses \union {Contract}
<1>1. p # Contract
  BY ContractIsNoPool
<1>2. /\ paid \in Ledgers
      /\ \A h \in holders, t \in Tokens :
           paid[h][t] = IF t # in \/ from # Contract THEN balance[h][t]
                        ELSE IF h = Contract THEN balance[h][t] - amount
                        ELSE IF h = p THEN balance[h][t] + Arriving(in, amount)
                        ELSE balance[h][t]
  <2>1. CASE from = Contract
    <3>1. paid = Transferred(balance, in, Contract, p, amount)
      BY <2>1 DEF PaysPair
    <3> HIDE DEF paid
    <3> QED
      BY <1>1, <2>1, <3>1, TransferredIs
  <2>2. CASE from # Contract
    <3>1. paid = balance
      BY <2>2 DEF PaysPair
    <3> HIDE DEF paid
    <3> QED
      BY <2>2, <3>1
  <2> QED
    BY <2>1, <2>2
<1>3. paid[p][in] >= book[p][in]
  <2>1. Arriving(in, amount) \in Nat
    BY ArrivingIsPart
  <2>2. book[p][in] \in Int
    BY DEF Books
  <2> QED
    BY <1>1, <1>2, <2>1, <2>2
<1>4. owed \in Nat
  BY <1>2, <1>3, AmountOutIsNatural
<1> HIDE DEF paid
<1>5. /\ after \in Ledgers
      /\ \A h \in holders, t \in Tokens :
           after[h][t] = IF t # out THEN paid[h][t]
                         ELSE IF h = p THEN paid[h][t] - owed
                         ELSE IF h = Contract THEN paid[h][t] + Arriving(out, owed)
                         ELSE paid[h][t]
  <2> HIDE DEF owed
  <2> QED
    BY <1>1, <1>2, <1>4, TransferredIs
<1>6. /\ PairAccepts(paid, p, in, out, owed)
      /\ swap = [error |-> "none", balance |-> after, book |-> [book EXCEPT ![p] = after[p]]]
  BY DEF UniswapV2Swap, Reverted, paid
<1>7. owed < book[p][out] /\ Arriving(out, owed) \in Nat
  BY <1>4, <1>6, ArrivingIsPart DEF PairAccepts
<1> HIDE DEF owed, after, swap
<1>8. after[p] \in [Tokens -> Int]
  BY <1>5 DEF Ledgers
<1>9. swap.book \in Books /\ swap.balance \in Ledgers
  BY <1>5, <1>6, <1>8 DEF Books
<1>10. Solvent(swap.book)
  <2>1. after[p][in] > 0
    <3>1. after[p][in] = paid[p][in]
      BY <1>5
    <3>2. paid[p][in] \in Int /\ book[p][in] \in Int /\ book[p][in] > 0
      BY <1>2 DEF Ledgers, Books, Solvent
    <3> QED
      BY <1>3, <3>1, <3>2
  <2>2. after[p][out] > 0
    <3>1. book[p][out] \in Int
      BY DEF Books
    <3>2. balance[p][out] = book[p][out]
      BY <3>1
    <3>3. after[p][out] = paid[p][out] - owed /\ paid[p][out] = balance[p][out]
      BY <1>2, <1>5
    <3> QED
      BY <1>4, <1>7, <3>1, <3>2, <3>3
  <2> QED
    BY <1>6, <2>1, <2>2 DEF Solvent, Books
<1>11. swap.balance[Contract][out] - balance[Contract][out] = Arriving(out, owed)
  <2>1. after[Contract][out] = balance[Contract][out] + Arriving(out, owed)
    BY <1>1, <1>2, <1>5
  <2>2. balance[Contract][out] \in Int
    BY DEF Ledgers
  <2> QED
    BY <1>6, <1>7, <2>1, <2>2
<1>12. ASSUME NEW q \in PoolAddresses, NEW t \in Tokens
       PROVE  swap.balance[q][t] = swap.book[q][t]
  <2>1. CASE q = p
    BY <1>6, <2>1 DEF Books
  <2>2. CASE q # p
    <3>1. after[q][t] = paid[q][t] /\ paid[q][t] = balance[q][t]
      BY <1>2, <1>5, <2>2, ContractIsNoPool
    <3>2. balance[q][t] = book[q][t]
      <4>1. book[q][t] \in Int
        BY DEF Books
      <4> QED
        BY <2>2, <4>1, ContractIsNoPool
    <3> QED
      BY <1>6, <2>2, <3>1, <3>2
  <2> QED
    BY <2>1, <2>2
<1>13. ASSUME NEW t \in Tokens
       PROVE  swap.balance[Contract][t] =
                balance[Contract][t] - (IF from = Contract /\ t = in THEN amount ELSE 0)
                                     + (IF t = out THEN Arriving(out, owed) ELSE 0)
  <2>1. balance[Contract][t] \in Int
    BY DEF Ledgers
  <2>2. /\ after[Contract][t] = paid[Contract][t] + (IF t = out THEN Arriving(out, owed) ELSE 0)
        /\ paid[Contract][t] =
             balance[Contract][t] - (IF from = Contract /\ t = in THEN amount ELSE 0)
    BY <1>1, <1>2, <1>5, <2>1
  <2> QED
    BY <1>6, <2>2
<1>14. \A q \in PoolAddresses, t \in Tokens : swap.book[q][t] \in Int
  BY <1>9 DEF Books
<1>15. from = Contract =>
         Arriving(out, owed) = Brings(p, in, out, book[p][in], book[p][out], amount)
  <2> SUFFICES ASSUME from = Contract
               PROVE  owed = AskedOf(p, book[p][in], book[p][out], Arriving(in, amount))
    BY DEF Brings
  <2>1. book[p][in] \in Int /\ Arriving(in, amount) \in Int /\ balance[p][in] = book[p][in]
    BY <1>1, ArrivingIsPart DEF Books
  <2>2. paid[p][in] = book[p][in] + Arriving(in, amount)
    BY <1>1, <1>2, <2>1
  <2>3. paid[p][in] - book[p][in] = Arriving(in, amount)
    BY <2>1, <2>2
  <2> QED
    BY <2>2, <2>3 DEF owed, GetAmountOut, AskedOf
<1>16. Swapped(p, from, Contract, in, out, amount, swap)
  BY <1>7, <1>9, <1>10, <1>11, <1>12, <1>13, <1>14, <1>15, ContractIsNoPool DEF Swapped
<1> QED
  BY <1>16 DEF swap

LEMMA V3Swaps ==
  ASSUME balance \in Ledgers, book \in Books, Solvent(book),
         NEW p \in PoolAddresses, Dex[p] \notin UniswapV2Ids, NEW in \in Tokens, NEW out \in Tokens, in # out,
         Coins[p] = {in, out}, NEW amount \in Nat,
         NEW to \in PoolAddresses \union {Contract}, to # p,
         \A q \in PoolAddresses, t \in Tokens : balance[q][t] = book[q][t],
         UniswapV3Swap(p, to, in, out, amount).error = "none"
  PROVE  Swapped(p, Contract, to, in, out, amount, UniswapV3Swap(p, to, in, out, amount))
<1> DEFINE owed == PoolGives(p, in, out, amount)
           paid == Transferred(balance, out, p, to, owed)
           after == Transferred(paid, in, Contract, p, amount)
           swap == UniswapV3Swap(p, to, in, out, amount)
           holders == PoolAddresses \union {Contract}
<1>1. p # Contract
  BY ContractIsNoPool
<1>2. owed \in Nat /\ owed < book[p][out]
  BY PoolGivesLess
<1>3. /\ after[p][in] - balance[p][in] >= amount
      /\ swap = [error |-> "none", balance |-> after,
                 book |-> [book EXCEPT ![p][in] = @ + amount, ![p][out] = @ - owed]]
  <2>1. ~(after[p][in] - balance[p][in] < amount)
    BY DEF UniswapV3Swap, Reverted
  <2>2. swap = [error |-> "none", balance |-> after,
                book |-> [book EXCEPT ![p][in] = @ + amount, ![p][out] = @ - owed]]
    BY DEF UniswapV3Swap, Reverted
  <2>3. after[p][in] \in Int /\ balance[p][in] \in Int
    <3> HIDE DEF owed
    <3>1. paid \in Ledgers
      BY <1>2, TransferredIs
    <3> HIDE DEF paid
    <3>2. after \in Ledgers
      BY <1>1, <3>1, TransferredIs
    <3> HIDE DEF after
    <3> QED
      BY <3>2 DEF Ledgers
  <2> HIDE DEF after, swap, owed
  <2> QED
    BY <2>1, <2>2, <2>3
<1> HIDE DEF owed
<1>4. /\ paid \in Ledgers
      /\ \A h \in holders, t \in Tokens :
           paid[h][t] = IF t # out THEN balance[h][t]
                        ELSE IF h = p THEN balance[h][t] - owed
                        ELSE IF h = to THEN balance[h][t] + Arriving(out, owed)
                        ELSE balance[h][t]
  BY <1>2, TransferredIs
<1> HIDE DEF paid
<1>5. /\ after \in Ledgers
      /\ \A h \in holders, t \in Tokens :
           after[h][t] = IF t # in THEN paid[h][t]
                         ELSE IF h = Contract THEN paid[h][t] - amount
                         ELSE IF h = p THEN paid[h][t] + Arriving(in, amount)
                         ELSE paid[h][t]
  <2>1. paid \in Ledgers
    BY <1>4
  <2> QED
    BY <2>1, ContractPays
<1> HIDE DEF after, swap
<1>6. Arriving(out, owed) \in Nat /\ Arriving(in, amount) \in Nat /\ Arriving(in, amount) <= amount
  BY <1>2, ArrivingIsPart
<1>7. Arriving(in, amount) = amount
  <2>1. after[p][in] = balance[p][in] + Arriving(in, amount)
    BY <1>1, <1>4, <1>5
  <2>2. balance[p][in] \in Int
    BY DEF Ledgers
  <2> QED
    BY <1>3, <1>6, <2>1, <2>2
<1>8. /\ swap.book \in Books
      /\ \A q \in PoolAddresses, t \in Tokens :
           swap.book[q][t] = IF q # p THEN book[q][t]
                             ELSE IF t = in THEN book[q][t] + amount
                             ELSE IF t = out THEN book[q][t] - owed
                             ELSE book[q][t]
  BY <1>2, <1>3 DEF Books
<1>9. Solvent(swap.book)
  <2>1. book[p][in] \in Int /\ book[p][out] \in Int /\ book[p][in] > 0
    BY DEF Books, Solvent
  <2>2. swap.book[p][in] > 0 /\ swap.book[p][out] > 0
    BY <1>2, <1>8, <2>1
  <2>3. \A q \in PoolAddresses : \A t \in Coins[q] : t \in Tokens
    BY PoolsAreTwoTokens
  <2> SUFFICES ASSUME NEW q \in PoolAddresses, NEW t \in Coins[q]
               PROVE  swap.book[q][t] > 0
    BY DEF Solvent
  <2>4. CASE q = p
    BY <2>2, <2>4
  <2>5. CASE q # p
    BY <1>8, <2>3, <2>5 DEF Solvent
  <2> QED
    BY <2>4, <2>5
<1>10. swap.balance[to][out] - balance[to][out] = Arriving(out, owed)
  <2>1. after[to][out] = balance[to][out] + Arriving(out, owed)
    BY <1>1, <1>4, <1>5
  <2>2. balance[to][out] \in Int
    BY DEF Ledgers
  <2> QED
    BY <1>3, <1>6, <2>1, <2>2
<1>11. ASSUME NEW q \in PoolAddresses, NEW t \in Tokens
       PROVE  swap.balance[q][t] =
                swap.book[q][t] + (IF q = to /\ t = out THEN Arriving(out, owed) ELSE 0)
  <2>1. book[q][t] \in Int /\ q # Contract
    BY ContractIsNoPool DEF Books
  <2>2. after[q][t] = IF q = p THEN (IF t = in THEN book[q][t] + amount
                                     ELSE IF t = out THEN book[q][t] - owed
                                     ELSE book[q][t])
                      ELSE IF q = to /\ t = out THEN book[q][t] + Arriving(out, owed)
                      ELSE book[q][t]
    BY <1>4, <1>5, <1>7, <2>1
  <2>3. swap.balance[q][t] = after[q][t]
    BY <1>3
  <2> QED
    BY <1>2, <1>6, <1>8, <2>1, <2>2, <2>3
<1>12. ASSUME NEW t \in Tokens
       PROVE  swap.balance[Contract][t] =
                balance[Contract][t] - (IF t = in THEN amount ELSE 0)
                                     + (IF to = Contract /\ t = out THEN Arriving(out, owed) ELSE 0)
  <2>1. balance[Contract][t] \in Int
    BY DEF Ledgers
  <2>2. after[Contract][t] = paid[Contract][t] - (IF t = in THEN amount ELSE 0)
    BY <1>1, <1>4, <1>5, <1>6, <2>1
  <2>3. paid[Contract][t] =
          balance[Contract][t] + (IF to = Contract /\ t = out THEN Arriving(out, owed) ELSE 0)
    BY <1>1, <1>4, <1>6, <2>1
  <2> QED
    BY <1>3, <1>6, <2>1, <2>2, <2>3
<1>13. swap.balance \in Ledgers /\ swap.book \in Books
  BY <1>3, <1>5, <1>8
<1>14. owed = GivenBy(p, book[p][in], book[p][out], amount)
  BY DEF owed, PoolGives, GivenBy
<1>15. Arriving(out, owed) = Brings(p, in, out, book[p][in], book[p][out], amount)
  BY <1>14 DEF Brings
<1>16. Swapped(p, Contract, to, in, out, amount, swap)
  BY <1>6, <1>9, <1>10, <1>11, <1>12, <1>13, <1>15 DEF Swapped
<1> QED
  BY <1>16 DEF swap

(* Both kinds of exchange do that, whichever follow each other.            *)
LEMMA RouterSwaps ==
  ASSUME balance \in Ledgers, book \in Books, Solvent(book),
         NEW p \in PoolAddresses, NEW in \in Tokens, NEW out \in Tokens, in # out,
         Coins[p] = {in, out}, NEW amount \in Nat,
         NEW from, from = Contract \/ (from = p /\ Dex[p] \in PossibleFrom),
         NEW to \in PoolAddresses \union {Contract},
         to # Contract => Dex[p] \in PossibleTo /\ Dex[to] \in PossibleFrom,
         \A q \in PoolAddresses, t \in Tokens :
           balance[q][t] = book[q][t] + (IF q = from /\ t = in THEN amount ELSE 0),
         RouterSwap(p, from, to, in, out, amount).error = "none"
  PROVE  Swapped(p, from, to, in, out, amount, RouterSwap(p, from, to, in, out, amount))
<1>1. ~(Dex[p] \in UniswapV2Ids /\ Dex[p] \in UniswapV3Ids)
  BY DEF UniswapV2Ids, UniswapV3Ids
<1>2. CASE Dex[p] \in UniswapV2Ids
  <2>1. to = Contract
    BY <1>1, <1>2 DEF PossibleTo
  <2>2. RouterSwap(p, from, to, in, out, amount) = UniswapV2Swap(p, from, in, out, amount)
    BY <1>1, <1>2 DEF RouterSwap
  <2>3. UniswapV2Swap(p, from, in, out, amount).error = "none"
    BY <2>2
  <2>4. Swapped(p, from, Contract, in, out, amount, UniswapV2Swap(p, from, in, out, amount))
    BY <1>2, <2>3, V2Swaps
  <2> QED
    BY <2>1, <2>2, <2>4
<1>3. CASE Dex[p] \in UniswapV3Ids
  <2>1. from = Contract
    BY <1>3 DEF PossibleFrom, UniswapV3Ids, UniswapV2Ids
  <2>2. RouterSwap(p, from, to, in, out, amount) = UniswapV3Swap(p, to, in, out, amount)
    BY <1>1, <1>3 DEF RouterSwap
  <2>3. UniswapV3Swap(p, to, in, out, amount).error = "none"
    BY <2>2
  <2>4. to # p
    BY <1>3, ContractIsNoPool DEF PossibleFrom, UniswapV3Ids, UniswapV2Ids
  <2>5. \A q \in PoolAddresses, t \in Tokens : balance[q][t] = book[q][t]
    <3> SUFFICES ASSUME NEW q \in PoolAddresses, NEW t \in Tokens
                 PROVE  balance[q][t] = book[q][t]
      OBVIOUS
    <3>1. q # from /\ book[q][t] \in Int
      BY <2>1, ContractIsNoPool DEF Books
    <3> QED
      BY <3>1
  <2>6. Swapped(p, Contract, to, in, out, amount, UniswapV3Swap(p, to, in, out, amount))
    BY <1>1, <1>3, <2>3, <2>4, <2>5, V3Swaps
  <2> QED
    BY <2>1, <2>2, <2>6
<1>4. CASE Dex[p] \notin UniswapV2Ids \union UniswapV3Ids
  BY <1>4 DEF RouterSwap, Reverted
<1> QED
  BY <1>2, <1>3, <1>4

LEMMA HopSwaps ==
  ASSUME ContractInv, InLegs,
         NEW leg, leg = LegsOfRun[run.leg],
         NEW to, to = ToAddress(LegsOfRun, run.leg),
         RouterSwap(leg.pool, run.from, to, leg.in, leg.out, run.amount).error = "none"
  PROVE  /\ Swapped(leg.pool, run.from, to, leg.in, leg.out, run.amount,
                    RouterSwap(leg.pool, run.from, to, leg.in, leg.out, run.amount))
         /\ to # Contract =>
              /\ run.leg + 1 <= Len(attack.path.pools)
              /\ to = LegsOfRun[run.leg + 1].pool
              /\ to \in PoolAddresses
              /\ Dex[to] \in PossibleFrom
<1> DEFINE path == attack.path
           at == run.leg
           way == Forwards
           n == Len(path.pools)
<1>1. run # NoRun /\ run \in Runs /\ attack \in Attacks /\ at \in 1 .. n
  BY DEF ContractInv, ContractTypes, OnItsWay, InLegs
<1>2. path \in Paths /\ way \in BOOLEAN /\ run.amount \in Nat /\ n \in Nat
  <2>1. path \in Paths /\ run.amount \in Nat
    BY <1>1 DEF Attacks, Runs
  <2> QED
    BY <2>1, EndsOfRoute DEF Forwards
<1>3. LegsOfRun = Legs(path, way) /\ leg = Legs(path, way)[at]
  BY DEF LegsOfRun, Forwards
<1>4. run.from = Contract \/ (run.from = leg.pool /\ Dex[run.from] \in PossibleFrom)
  BY <1>1 DEF ContractInv, OnItsWay
<1>5. leg.in = TokenAt(path, way, at) =>
        \A q \in PoolAddresses, t \in Tokens :
          balance[q][t] = book[q][t] + (IF q = run.from /\ t = leg.in THEN run.amount ELSE 0)
  BY <1>1 DEF ContractInv, SquareButForIt, InFlight
<1>6. balance \in Ledgers /\ book \in Books /\ Solvent(book)
  BY DEF ContractInv, ContractTypes
<1> HIDE DEF path, at, way
<1>7. /\ leg.pool \in PoolAddresses /\ leg.in \in Tokens /\ leg.out \in Tokens
      /\ leg.in # leg.out /\ Coins[leg.pool] = {leg.in, leg.out}
      /\ leg.in = TokenAt(path, way, at)
      /\ Len(LegsOfRun) = n
  <2>1. /\ Len(Legs(path, way)) = n
        /\ Legs(path, way)[at].pool \in PoolAddresses
        /\ Legs(path, way)[at].in = TokenAt(path, way, at)
        /\ Legs(path, way)[at].out = TokenAt(path, way, at + 1)
        /\ TokenAt(path, way, at) \in Tokens
        /\ TokenAt(path, way, at + 1) \in Tokens
        /\ TokenAt(path, way, at) # TokenAt(path, way, at + 1)
        /\ Coins[Legs(path, way)[at].pool] = {TokenAt(path, way, at), TokenAt(path, way, at + 1)}
    BY <1>1, <1>2, LegIs
  <2> QED
    BY <1>3, <2>1
<1>8. to # Contract =>
        /\ at + 1 <= n /\ to = LegsOfRun[at + 1].pool
        /\ Dex[leg.pool] \in PossibleTo /\ Dex[to] \in PossibleFrom
  BY <1>1, <1>2, <1>7 DEF ToAddress, at
<1>9. to # Contract => to \in PoolAddresses
  <2> SUFFICES ASSUME to # Contract
               PROVE  to \in PoolAddresses
    OBVIOUS
  <2>1. at + 1 \in 1 .. n
    BY <1>1, <1>2, <1>8
  <2>2. Legs(path, way)[at + 1].pool \in PoolAddresses
    BY <1>2, <2>1, LegIs
  <2> QED
    BY <1>3, <1>8, <2>2
<1>10. Swapped(leg.pool, run.from, to, leg.in, leg.out, run.amount,
               RouterSwap(leg.pool, run.from, to, leg.in, leg.out, run.amount))
  <2> DEFINE p == leg.pool
             in == leg.in
             out == leg.out
             from == run.from
             amount == run.amount
  <2>1. /\ p \in PoolAddresses /\ in \in Tokens /\ out \in Tokens /\ in # out
        /\ Coins[p] = {in, out} /\ amount \in Nat
        /\ from = Contract \/ (from = p /\ Dex[p] \in PossibleFrom)
        /\ to \in PoolAddresses \union {Contract}
        /\ to # Contract => Dex[p] \in PossibleTo /\ Dex[to] \in PossibleFrom
        /\ \A q \in PoolAddresses, t \in Tokens :
             balance[q][t] = book[q][t] + (IF q = from /\ t = in THEN amount ELSE 0)
        /\ RouterSwap(p, from, to, in, out, amount).error = "none"
    BY <1>2, <1>4, <1>5, <1>7, <1>8, <1>9
  <2> HIDE DEF p, in, out, from, amount
  <2>2. Swapped(p, from, to, in, out, amount, RouterSwap(p, from, to, in, out, amount))
    BY <1>6, <2>1, RouterSwaps
  <2> QED
    BY <2>2 DEF p, in, out, from, amount
<1> QED
  BY <1>8, <1>9, <1>10 DEF at, path

-----------------------------------------------------------------------------
(* The invariant.                                                          *)

LEMMA FailsIsNoneOrTheAttack ==
  ASSUME attack \in Attacks, NEW kind \in {"probe", "front", "back"}
  PROVE  /\ Fails(kind) \in Attacks \union {NoAttack}
         /\ Fails(kind) # NoAttack => Fails(kind).path = attack.path
BY DEF Fails, Attacks

(* With no transaction under way the ledger need only be square.           *)
LEMMA InvWhenDone ==
  ASSUME ContractTypes', Solvent(book)', run' = NoRun,
         (\A p \in PoolAddresses, t \in Tokens : balance[p][t] = book[p][t])',
         (attack # NoAttack =>
            \A t \in Middle(attack.path) : balance[Contract][t] = aside[t])'
  PROVE  ContractInv'
<1>1. (\A h, t : InFlight(h, t) = 0)'
  BY DEF InFlight
<1>2. SquareButForIt'
  <2>1. \A p \in PoolAddresses, t \in Tokens : book'[p][t] \in Int
    BY DEF ContractTypes, Books
  <2> QED
    BY <1>1, <2>1 DEF SquareButForIt
<1>3. KeptButForIt'
  <2>1. \A t \in Tokens : aside'[t] \in Int
    BY DEF ContractTypes
  <2> QED
    BY <1>1, <2>1 DEF KeptButForIt, Middle
<1>4. OnItsWay' /\ SavedIsSound'
  BY DEF OnItsWay, SavedIsSound
<1> QED
  BY <1>2, <1>3, <1>4 DEF ContractInv

LEMMA InvRevert ==
  ASSUME ContractInv, run # NoRun, Revert
  PROVE  ContractInv'
<1>1. run \in Runs /\ attack \in Attacks
  BY DEF ContractInv, ContractTypes, OnItsWay
<1>2. run.saved.balance \in Ledgers /\ run.saved.book \in Books
  BY <1>1 DEF Runs
<1>3. /\ attack' \in Attacks \union {NoAttack}
      /\ attack' # NoAttack => attack'.path = attack.path
  BY <1>1, FailsIsNoneOrTheAttack DEF Revert, Runs
<1>4. ContractTypes'
  BY <1>2, <1>3 DEF Revert, ContractInv, ContractTypes
<1> QED
  BY <1>3, <1>4, InvWhenDone DEF Revert, ContractInv, SavedIsSound, Solvent, Square, Middle,
       Start, Target

(* What a swap of a path does, unless the transaction reverts with it.     *)
LEMMA WhatAHopDoes ==
  ASSUME ContractInv, Hop, ~Revert
  PROVE  LET in == TokenAt(attack.path, Forwards, run.leg)
             out == TokenAt(attack.path, Forwards, run.leg + 1)
             p == LegsOfRun[run.leg].pool
         IN  /\ run # NoRun /\ run \in Runs /\ attack \in Attacks
             /\ run.leg \in 1 .. Len(attack.path.pools)
             /\ run' \in Runs /\ run' # NoRun /\ run'.leg = run.leg + 1
             /\ run'.kind = run.kind /\ run'.saved = run.saved
             /\ UNCHANGED <<attack, aside>> /\ Forwards' = Forwards /\ LegsOfRun' = LegsOfRun
             /\ run'.from # Contract =>
                  /\ run'.leg <= Len(attack.path.pools)
                  /\ run'.from = LegsOfRun[run'.leg].pool
                  /\ Dex[run'.from] \in PossibleFrom
             /\ in \in Tokens /\ out \in Tokens /\ in # out
             /\ \A h, t : InFlight(h, t)' = IF h = run'.from /\ t = out THEN run'.amount ELSE 0
             /\ run.from = Contract =>
                  run'.amount = Brings(p, in, out, book[p][in], book[p][out], run.amount)
             /\ balance' \in Ledgers /\ book' \in Books /\ Solvent(book')
             /\ \A q \in PoolAddresses, t \in Tokens :
                  balance'[q][t] =
                    book'[q][t] + (IF q = run'.from /\ t = out THEN run'.amount ELSE 0)
             /\ \A t \in Tokens :
                  balance'[Contract][t] =
                    balance[Contract][t]
                      - (IF run.from = Contract /\ t = in THEN run.amount ELSE 0)
                      + (IF run'.from = Contract /\ t = out THEN run'.amount ELSE 0)
<1> DEFINE leg == LegsOfRun[run.leg]
           to == ToAddress(LegsOfRun, run.leg)
           swap == RouterSwap(leg.pool, run.from, to, leg.in, leg.out, run.amount)
           got == swap.balance[to][leg.out] - balance[to][leg.out]
           n == Len(attack.path.pools)
<1>1. run # NoRun /\ run \in Runs /\ attack \in Attacks /\ run.leg \in 1 .. n /\ InLegs
  BY DEF Hop, ContractInv, ContractTypes, OnItsWay, InLegs
<1>2. /\ swap.error = "none"
      /\ run' = [run EXCEPT !.leg = run.leg + 1, !.from = to, !.amount = got]
      /\ balance' = swap.balance
      /\ book' = swap.book
      /\ UNCHANGED <<attack, aside>>
  BY DEF Hop
<1>3. /\ Swapped(leg.pool, run.from, to, leg.in, leg.out, run.amount, swap)
      /\ to # Contract =>
            /\ run.leg + 1 <= n
            /\ to = LegsOfRun[run.leg + 1].pool
            /\ to \in PoolAddresses
            /\ Dex[to] \in PossibleFrom
  BY <1>1, <1>2, HopSwaps
<1>4. /\ attack.path \in Paths /\ Forwards \in BOOLEAN /\ n \in Nat
      /\ LegsOfRun = Legs(attack.path, Forwards)
  <2>1. attack.path \in Paths
    BY <1>1 DEF Attacks
  <2> QED
    BY <2>1, EndsOfRoute DEF Forwards, LegsOfRun
<1>5. /\ leg.in = TokenAt(attack.path, Forwards, run.leg)
      /\ leg.out = TokenAt(attack.path, Forwards, run.leg + 1)
      /\ leg.in \in Tokens /\ leg.out \in Tokens /\ leg.in # leg.out
  BY <1>1, <1>4, LegIs
<1>6. /\ swap.balance \in Ledgers /\ swap.book \in Books /\ Solvent(swap.book)
      /\ got \in Nat
      /\ run.from = Contract =>
           got = Brings(leg.pool, leg.in, leg.out, book[leg.pool][leg.in],
                        book[leg.pool][leg.out], run.amount)
      /\ \A q \in PoolAddresses, t \in Tokens :
           swap.balance[q][t] = swap.book[q][t] + (IF q = to /\ t = leg.out THEN got ELSE 0)
      /\ \A t \in Tokens :
           swap.balance[Contract][t] =
             balance[Contract][t] - (IF run.from = Contract /\ t = leg.in THEN run.amount ELSE 0)
                                  + (IF to = Contract /\ t = leg.out THEN got ELSE 0)
  BY <1>3 DEF Swapped
<1> HIDE DEF to, swap, got
<1>7. /\ run' \in Runs /\ run' # NoRun
      /\ run'.leg = run.leg + 1 /\ run'.from = to /\ run'.amount = got
      /\ run'.kind = run.kind /\ run'.saved = run.saved
  <2>1. to \in PoolAddresses \union {Contract}
    BY <1>3
  <2>2. run.leg + 1 \in Nat
    BY <1>1, <1>4
  <2>3. run' \in Runs
    BY <1>1, <1>2, <1>6, <2>1, <2>2 DEF Runs
  <2> QED
    BY <1>1, <1>2, <2>3, ContractIsNoPool DEF Runs
<1>8. Forwards' = Forwards /\ LegsOfRun' = LegsOfRun
  BY <1>2, <1>7 DEF Forwards, LegsOfRun
<1>9. ASSUME NEW h, NEW t
      PROVE  InFlight(h, t)' = IF h = to /\ t = leg.out THEN got ELSE 0
  BY <1>2, <1>5, <1>7, <1>8 DEF InFlight, TokenAt
<1> HIDE DEF leg
<1>10. run.from = Contract =>
         run'.amount = Brings(leg.pool, leg.in, leg.out, book[leg.pool][leg.in],
                              book[leg.pool][leg.out], run.amount)
  BY <1>6, <1>7
<1>11. /\ \A h, t : InFlight(h, t)' = IF h = run'.from /\ t = leg.out THEN run'.amount ELSE 0
       /\ \A q \in PoolAddresses, t \in Tokens :
            balance'[q][t] =
              book'[q][t] + (IF q = run'.from /\ t = leg.out THEN run'.amount ELSE 0)
       /\ \A t \in Tokens :
            balance'[Contract][t] =
              balance[Contract][t]
                - (IF run.from = Contract /\ t = leg.in THEN run.amount ELSE 0)
                + (IF run'.from = Contract /\ t = leg.out THEN run'.amount ELSE 0)
  BY <1>2, <1>6, <1>7, <1>9
<1>12. run'.from # Contract =>
         /\ run'.leg <= n
         /\ run'.from = LegsOfRun[run'.leg].pool
         /\ Dex[run'.from] \in PossibleFrom
  BY <1>3, <1>7
<1>13. leg.pool = LegsOfRun[run.leg].pool
  BY DEF leg
<1>14. balance' \in Ledgers /\ book' \in Books /\ Solvent(book')
  BY <1>2, <1>6
<1> QED
  BY <1>1, <1>2, <1>5, <1>7, <1>8, <1>10, <1>11, <1>12, <1>13, <1>14

LEMMA InvHop ==
  ASSUME ContractInv, Hop
  PROVE  ContractInv'
<1> DEFINE in == TokenAt(attack.path, Forwards, run.leg)
           out == TokenAt(attack.path, Forwards, run.leg + 1)
           n == Len(attack.path.pools)
<1>1. CASE Revert
  BY <1>1, InvRevert DEF Hop, InLegs
<1>2. CASE ~Revert
  <2>1. /\ run # NoRun /\ run \in Runs /\ attack \in Attacks /\ run.leg \in 1 .. n
        /\ run' \in Runs /\ run' # NoRun /\ run'.leg = run.leg + 1
        /\ run'.kind = run.kind /\ run'.saved = run.saved
        /\ UNCHANGED <<attack, aside>> /\ Forwards' = Forwards /\ LegsOfRun' = LegsOfRun
        /\ run'.from # Contract =>
             /\ run'.leg <= n
             /\ run'.from = LegsOfRun[run'.leg].pool
             /\ Dex[run'.from] \in PossibleFrom
        /\ in \in Tokens /\ out \in Tokens /\ in # out
        /\ \A h, t : InFlight(h, t)' = IF h = run'.from /\ t = out THEN run'.amount ELSE 0
        /\ balance' \in Ledgers /\ book' \in Books /\ Solvent(book')
        /\ \A q \in PoolAddresses, t \in Tokens :
             balance'[q][t] =
               book'[q][t] + (IF q = run'.from /\ t = out THEN run'.amount ELSE 0)
        /\ \A t \in Tokens :
             balance'[Contract][t] =
               balance[Contract][t]
                 - (IF run.from = Contract /\ t = in THEN run.amount ELSE 0)
                 + (IF run'.from = Contract /\ t = out THEN run'.amount ELSE 0)
    BY <1>2, WhatAHopDoes
  <2>2. ASSUME NEW h, NEW t
        PROVE  InFlight(h, t) = IF h = run.from /\ t = in THEN run.amount ELSE 0
    BY <2>1 DEF InFlight
  <2> HIDE DEF in, out
  <2>3. ContractTypes'
    BY <2>1 DEF ContractInv, ContractTypes
  <2>4. OnItsWay'
    <3>1. n \in Nat
      BY <2>1, EndsOfRoute DEF Attacks
    <3>2. run.leg + 1 \in 1 .. n + 1
      BY <2>1, <3>1
    <3>3. attack' # NoAttack
      BY <2>1, ContractIsNoPool
    <3>4. Len(attack.path.pools)' = n
      BY <2>1
    <3> HIDE DEF n
    <3> QED
      BY <2>1, <3>2, <3>3, <3>4 DEF OnItsWay
  <2>5. SquareButForIt'
    BY <2>1 DEF SquareButForIt
  <2>6. KeptButForIt'
    <3> SUFFICES ASSUME NEW t \in Middle(attack.path)
                 PROVE  balance'[Contract][t] = aside'[t] + InFlight(Contract, t)'
      BY <2>1 DEF KeptButForIt, Middle, Start, Target
    <3>1. t \in Tokens /\ aside[t] \in Int
      BY DEF Middle, ContractInv, ContractTypes
    <3>2. balance[Contract][t] =
            aside[t] + (IF run.from = Contract /\ t = in THEN run.amount ELSE 0)
      BY <2>1, <2>2, ContractIsNoPool DEF ContractInv, KeptButForIt
    <3>3. run.amount \in Int /\ run'.amount \in Int
      BY <2>1 DEF Runs
    <3>4. balance'[Contract][t] =
            balance[Contract][t] - (IF run.from = Contract /\ t = in THEN run.amount ELSE 0)
                                 + (IF run'.from = Contract /\ t = out THEN run'.amount ELSE 0)
      BY <2>1, <3>1
    <3>5. InFlight(Contract, t)' =
            IF run'.from = Contract /\ t = out THEN run'.amount ELSE 0
      BY <2>1
    <3> QED
      BY <2>1, <3>1, <3>2, <3>3, <3>4, <3>5
  <2>7. SavedIsSound'
    BY <2>1 DEF ContractInv, SavedIsSound, Solvent, Square, Middle, Start, Target
  <2> QED
    BY <2>1, <2>3, <2>4, <2>5, <2>6, <2>7 DEF ContractInv, Solvent
<1> QED
  BY <1>1, <1>2

(* At rest, and before the last test of a transaction, all is in place.    *)
LEMMA InPlace ==
  ASSUME ContractInv, run = NoRun \/ AtEnd
  PROVE  /\ \A p \in PoolAddresses, t \in Tokens : balance[p][t] = book[p][t]
         /\ attack # NoAttack =>
              \A t \in Middle(attack.path) : balance[Contract][t] = aside[t]
<1>1. \A p \in PoolAddresses, t \in Tokens : InFlight(p, t) = 0
  BY ContractIsNoPool DEF AtEnd, ContractInv, ContractTypes, OnItsWay, InFlight, Runs
<1>2. ASSUME attack # NoAttack, NEW t \in Middle(attack.path)
      PROVE  InFlight(Contract, t) = 0
  <2>1. CASE run = NoRun
    BY <2>1 DEF InFlight
  <2>2. CASE AtEnd
    <3>1. run.leg = Len(attack.path.pools) + 1 /\ attack.path \in Paths /\ Forwards \in BOOLEAN
      <4>1. attack.path \in Paths
        BY <1>2 DEF ContractInv, ContractTypes, Attacks
      <4>2. /\ Len(attack.path.pools) \in Nat /\ run.leg > Len(attack.path.pools)
            /\ run.leg \in 1 .. Len(attack.path.pools) + 1
        BY <2>2, <4>1, EndsOfRoute DEF ContractInv, OnItsWay, AtEnd
      <4> QED
        BY <4>1, <4>2 DEF Forwards
    <3>2. TokenAt(attack.path, Forwards, run.leg) \in {Start(attack.path), Target(attack.path)}
      BY <3>1, EndsOfRoute
    <3> QED
      BY <1>2, <3>2 DEF InFlight, Middle
  <2> QED
    BY <2>1, <2>2
<1>3. /\ \A p \in PoolAddresses, t \in Tokens : book[p][t] \in Int
      /\ \A t \in Tokens : aside[t] \in Int
  BY DEF ContractInv, ContractTypes, Books
<1> QED
  BY <1>1, <1>2, <1>3 DEF ContractInv, SquareButForIt, KeptButForIt, Middle

LEMMA InvCall ==
  ASSUME ContractInv, run = NoRun,
         NEW kind \in {"probe", "front", "back"}, NEW guarded \in BOOLEAN, NEW amount \in Nat,
         Call(kind, guarded, amount),
         attack' \in Attacks, aside' \in [Tokens -> Int],
         \A t \in Middle(attack'.path) : balance[Contract][t] = aside'[t]
  PROVE  ContractInv'
<1> DEFINE path == attack'.path
           way == kind # "back"
<1>1. /\ run' = [kind |-> kind, guarded |-> guarded, leg |-> 1, amount |-> amount,
                 from |-> Contract, saved |-> [balance |-> balance, book |-> book]]
      /\ UNCHANGED <<balance, book>>
  BY DEF Call
<1>2. balance \in Ledgers /\ book \in Books /\ Solvent(book)
  BY DEF ContractInv, ContractTypes
<1>3. run' \in Runs /\ run' # NoRun /\ attack' # NoAttack
  <2>1. run' \in Runs
    BY <1>1, <1>2 DEF Runs
  <2> QED
    BY <2>1, ContractIsNoPool
<1>4. path \in Paths /\ way \in BOOLEAN /\ Len(path.pools) \in Nat \ {0}
  <2>1. path \in Paths
    BY DEF Attacks
  <2> QED
    BY <2>1, EndsOfRoute
<1>5. ContractTypes'
  BY <1>1, <1>2, <1>3 DEF ContractTypes
<1>6. Forwards' = way
  BY <1>1 DEF Forwards
<1> HIDE DEF path, way
<1>7. TokenAt(path, way, 1) \in {Start(path), Target(path)}
  BY <1>4, EndsOfRoute
<1>8. OnItsWay'
  <2>1. 1 \in 1 .. Len(path.pools) + 1
    BY <1>4
  <2> QED
    BY <1>1, <1>3, <2>1 DEF OnItsWay, path
<1>9. /\ \A p \in PoolAddresses, t \in Tokens : InFlight(p, t)' = 0
      /\ \A t \in Middle(path) : InFlight(Contract, t)' = 0
  BY <1>1, <1>6, <1>7, ContractIsNoPool DEF InFlight, TokenAt, Middle, path, way
<1>10. /\ \A p \in PoolAddresses, t \in Tokens : balance[p][t] = book[p][t]
       /\ \A p \in PoolAddresses, t \in Tokens : book[p][t] \in Int
  BY <1>2, InPlace DEF Books
<1>11. SquareButForIt'
  BY <1>1, <1>9, <1>10 DEF SquareButForIt
<1>12. KeptButForIt'
  BY <1>1, <1>9 DEF KeptButForIt, Middle, Start, Target, path
<1>13. SavedIsSound'
  BY <1>1, <1>2, <1>10 DEF SavedIsSound, Square, Solvent, Middle, Start, Target
<1> QED
  BY <1>1, <1>2, <1>5, <1>8, <1>11, <1>12, <1>13 DEF ContractInv, Solvent

(* A function that refuses leaves all as it was.                           *)
LEMMA InvRefuse ==
  ASSUME ContractInv, run = NoRun, attack # NoAttack,
         NEW kind \in {"probe", "front", "back"}, Refuse(kind)
  PROVE  ContractInv'
<1>1. /\ attack' \in Attacks \union {NoAttack}
      /\ attack' # NoAttack => attack'.path = attack.path
  BY FailsIsNoneOrTheAttack DEF Refuse, ContractInv, ContractTypes
<1>2. ContractTypes'
  BY <1>1 DEF Refuse, ContractInv, ContractTypes
<1> QED
  BY <1>1, <1>2, InPlace, InvWhenDone DEF Refuse, ContractInv, Solvent, Middle, Start, Target

LEMMA InvProbe ==
  ASSUME ContractInv, NEW path \in Paths, NEW amount \in AmountsIn, Probe(path, amount)
  PROVE  ContractInv'
<1>1. attack' \in Attacks /\ amount \in Nat
  BY AmountsAreUnsigned DEF Probe, Attacks
<1>2. aside' = balance[Contract] /\ aside' \in [Tokens -> Int]
  BY DEF Probe, ContractInv, ContractTypes, Ledgers
<1> QED
  BY <1>1, <1>2, InvCall DEF Probe, Middle

LEMMA InvEndProbe ==
  ASSUME ContractInv, NEW guarded \in BOOLEAN, EndProbe(guarded)
  PROVE  ContractInv'
<1>1. run \in Runs /\ attack \in Attacks /\ run # NoRun
  BY DEF EndProbe, AtEnd, ContractInv, ContractTypes, OnItsWay
<1>2. run.saved.balance \in Ledgers /\ run.saved.book \in Books /\ run.amount \in Nat
  BY <1>1 DEF Runs
<1>3. attack' \in Attacks /\ attack'.path = attack.path
  <2>1. run.saved.balance[LastPool(attack.path)][Target(attack.path)] \in Int
    <3>1. attack.path \in Paths
      BY <1>1 DEF Attacks
    <3>2. LastPool(attack.path) \in PoolAddresses /\ Target(attack.path) \in Tokens
      BY <3>1, PathsAreRoutes DEF LastPool, Target
    <3> QED
      BY <1>2, <3>2 DEF Ledgers
  <2> HIDE DEF LastPool, Target
  <2> QED
    BY <1>1, <1>2, <2>1 DEF EndProbe, Attacks
<1>4. ContractTypes'
  BY <1>2, <1>3 DEF EndProbe, ContractInv, ContractTypes
<1> QED
  BY <1>1, <1>3, <1>4, InvWhenDone DEF EndProbe, ContractInv, SavedIsSound, Solvent, Square,
       Middle, Start, Target

LEMMA InvFrontRun ==
  ASSUME ContractInv, FrontRun
  PROVE  ContractInv'
<1>1. run = NoRun /\ attack # NoAttack /\ attack \in Attacks
  BY DEF FrontRun, ContractInv, ContractTypes
<1>2. CASE PoolAsPlanned
  <2>1. attack.in \in Nat /\ attack.guarded \in BOOLEAN
    BY <1>1, AmountsAreUnsigned DEF Attacks
  <2>2. /\ Call("front", attack.guarded, attack.in) /\ UNCHANGED <<attack, aside>>
    BY <1>2 DEF FrontRun
  <2> QED
    BY <1>1, <2>1, <2>2, InPlace, InvCall DEF ContractInv, ContractTypes
<1>3. CASE ~PoolAsPlanned
  <2>1. Refuse("front")
    BY <1>3 DEF FrontRun
  <2> QED
    BY <1>1, <2>1, InvRefuse
<1> QED
  BY <1>2, <1>3

(* A transaction that ends, or an attack that does, with the ledger as it
   is.                                                                     *)
LEMMA InvEnd ==
  ASSUME ContractInv, run = NoRun \/ AtEnd, run' = NoRun, UNCHANGED <<balance, book, aside>>,
         attack' \in Attacks \union {NoAttack},
         attack' # NoAttack => attack # NoAttack /\ attack'.path = attack.path
  PROVE  ContractInv'
<1>1. ContractTypes'
  BY DEF ContractInv, ContractTypes
<1> QED
  BY <1>1, InPlace, InvWhenDone DEF ContractInv, Solvent, Middle, Start, Target

LEMMA InvEndFrontRun ==
  ASSUME ContractInv, EndFrontRun
  PROVE  ContractInv'
<1>1. run # NoRun /\ AtEnd /\ attack # NoAttack /\ attack \in Attacks
  BY DEF EndFrontRun, AtEnd, ContractInv, OnItsWay, ContractTypes
<1>2. CASE Suffices(run.amount)
  <2>1. attack' \in Attacks /\ attack'.path = attack.path
    BY <1>1, <1>2 DEF EndFrontRun, Attacks
  <2> QED
    BY <1>1, <1>2, <2>1, InvEnd DEF EndFrontRun
<1>3. CASE ~Suffices(run.amount)
  BY <1>1, <1>3, InvRevert DEF EndFrontRun
<1> QED
  BY <1>2, <1>3

LEMMA InvEndBackRun ==
  ASSUME ContractInv, EndBackRun
  PROVE  ContractInv'
<1>1. run # NoRun /\ AtEnd /\ attack # NoAttack /\ attack \in Attacks
  BY DEF EndBackRun, AtEnd, ContractInv, OnItsWay, ContractTypes
<1>2. CASE Revert
  BY <1>1, <1>2, InvRevert
<1>3. CASE ~Revert
  <2>1. /\ run' = NoRun /\ UNCHANGED <<balance, book, aside>>
        /\ attack' = [attack EXCEPT !.stage = "closed"]
    BY <1>3 DEF EndBackRun
  <2>2. attack' \in Attacks /\ attack'.path = attack.path
    BY <1>1, <2>1 DEF Attacks
  <2> QED
    BY <1>1, <2>1, <2>2, InvEnd
<1> QED
  BY <1>2, <1>3

LEMMA InvBackRuns ==
  ASSUME ContractInv,
         BackRunWithBloxroute \/ BackRun \/ \E onTime \in BOOLEAN : BackRunDifficult(onTime)
  PROVE  ContractInv'
<1>1. run = NoRun /\ attack # NoAttack /\ attack \in Attacks
  BY DEF BackRunWithBloxroute, BackRun, BackRunDifficult, CanRunBack, ContractInv, ContractTypes
<1>2. \/ Refuse("back")
      \/ \E guarded \in BOOLEAN :
           Call("back", guarded, attack.out) /\ UNCHANGED <<attack, aside>>
  BY DEF BackRunWithBloxroute, BackRun, BackRunDifficult
<1>3. CASE Refuse("back")
  BY <1>1, <1>3, InvRefuse
<1>4. ASSUME NEW guarded \in BOOLEAN, Call("back", guarded, attack.out), UNCHANGED <<attack, aside>>
      PROVE  ContractInv'
  <2>1. attack.out \in Nat
    BY <1>1 DEF Attacks
  <2> QED
    BY <1>1, <1>4, <2>1, InPlace, InvCall DEF ContractInv, ContractTypes
<1> QED
  BY <1>2, <1>3, <1>4

LEMMA InvGiveUp ==
  ASSUME ContractInv, GiveUp
  PROVE  ContractInv'
BY InvEnd DEF GiveUp

LEMMA InvOthersSwap ==
  ASSUME ContractInv, NEW p \in PoolAddresses, NEW amount \in Trades,
         NEW in \in Coins[p], NEW out \in Coins[p] \ {in}, OthersSwap(p, in, out, amount)
  PROVE  ContractInv'
<1> DEFINE net == Arriving(in, amount)
           paid == PoolGives(p, in, out, net)
           after == [book[p] EXCEPT ![in] = @ + net, ![out] = @ - paid]
<1>1. in \in Tokens /\ out \in Tokens /\ in # out /\ Coins[p] = {in, out}
  BY PoolsAreTwoTokens
<1>2. net \in Nat
  BY <1>1, ArrivingIsPart, AmountsAreUnsigned
<1>3. book \in Books /\ balance \in Ledgers /\ Solvent(book)
  BY DEF ContractInv, ContractTypes
<1>4. paid \in Nat /\ paid < book[p][out]
  <2> HIDE DEF net
  <2> QED
    BY <1>1, <1>2, <1>3, PoolGivesLess
<1>5. /\ run = NoRun /\ run' = NoRun /\ UNCHANGED <<attack, aside>>
      /\ book' = [book EXCEPT ![p] = after]
      /\ balance' = [balance EXCEPT ![p] = after]
  BY DEF OthersSwap, Meanwhile
<1> HIDE DEF net, paid
<1>6. after \in [Tokens -> Int]
  BY <1>1, <1>2, <1>3, <1>4 DEF Books
<1>7. after[in] > 0 /\ after[out] > 0
  <2>1. book[p] \in [Tokens -> Int] /\ book[p][in] > 0
    BY <1>1, <1>3 DEF Books, Solvent
  <2> QED
    BY <1>1, <1>2, <1>4, <2>1
<1> HIDE DEF after
<1>8. book' \in Books /\ balance' \in Ledgers
  BY <1>3, <1>5, <1>6 DEF Books, Ledgers
<1>9. Solvent(book)'
  BY <1>1, <1>3, <1>5, <1>7 DEF Solvent, Books
<1>10. \A q \in PoolAddresses, t \in Tokens : balance'[q][t] = book'[q][t]
  BY <1>3, <1>5, InPlace DEF Books, Ledgers
<1>11. balance'[Contract] = balance[Contract]
  BY <1>3, <1>5, ContractIsNoPool DEF Ledgers
<1>12. ContractTypes'
  BY <1>5, <1>8 DEF ContractInv, ContractTypes
<1> QED
  BY <1>5, <1>9, <1>10, <1>11, <1>12, InPlace, InvWhenDone DEF Middle, Start, Target

(* The owner's transfers change what is held aside by as much.             *)
LEMMA InvTransfer ==
  ASSUME ContractInv, NEW t \in Tokens, NEW change \in Int,
         run = NoRun, run' = NoRun, UNCHANGED <<attack, book>>,
         balance' = [balance EXCEPT ![Contract][t] = @ + change],
         aside' = [aside EXCEPT ![t] = @ + change]
  PROVE  ContractInv'
<1>1. balance \in Ledgers /\ aside \in [Tokens -> Int] /\ book \in Books /\ Solvent(book)
  BY DEF ContractInv, ContractTypes
<1>2. balance' \in Ledgers /\ aside' \in [Tokens -> Int]
  BY <1>1 DEF Ledgers
<1>3. ContractTypes'
  BY <1>2 DEF ContractInv, ContractTypes
<1>4. \A p \in PoolAddresses, u \in Tokens : balance'[p][u] = book'[p][u]
  BY <1>1, InPlace, ContractIsNoPool DEF Ledgers
<1>5. attack # NoAttack =>
        \A u \in Middle(attack.path) : balance'[Contract][u] = aside'[u]
  BY <1>1, InPlace DEF Ledgers, Middle
<1> QED
  BY <1>1, <1>3, <1>4, <1>5, InvWhenDone DEF Solvent, Middle, Start, Target

LEMMA InvDeposit ==
  ASSUME ContractInv, NEW t \in Tokens, NEW amount \in Trades, deposit(t, amount)
  PROVE  ContractInv'
<1>1. Arriving(t, amount) \in Int
  BY ArrivingIsPart, AmountsAreUnsigned
<1> QED
  BY <1>1, InvTransfer DEF deposit, Meanwhile

LEMMA InvWithdraw ==
  ASSUME ContractInv, NEW t \in Tokens, NEW amount \in Trades, withdraw(t, amount)
  PROVE  ContractInv'
<1>1. amount \in Int /\ -amount \in Int
  BY AmountsAreUnsigned
<1>2. balance \in Ledgers /\ aside \in [Tokens -> Int]
  BY DEF ContractInv, ContractTypes
<1>3. balance[Contract][t] - amount = balance[Contract][t] + (-amount)
  BY <1>1, <1>2 DEF Ledgers
<1>4. aside[t] - amount = aside[t] + (-amount)
  BY <1>1, <1>2
<1>5. balance' = [balance EXCEPT ![Contract][t] = @ + (-amount)]
  BY <1>3 DEF withdraw
<1>6. aside' = [aside EXCEPT ![t] = @ + (-amount)]
  BY <1>4 DEF withdraw
<1> QED
  BY <1>1, <1>5, <1>6, InvTransfer DEF withdraw, Meanwhile

LEMMA ContractInvAtFirst == ContractInit => ContractInv
<1> SUFFICES ASSUME ContractInit
             PROVE  ContractInv
  OBVIOUS
<1> DEFINE first(p) == [t \in Tokens |-> IF t \in Coins[p] THEN Reserves ELSE 0]
           own == [t \in Tokens |-> Holding]
<1>1. Reserves \in Nat /\ Reserves > 0 /\ Holding \in Int
  BY AmountsAreUnsigned
<1>2. /\ book = [p \in PoolAddresses |-> first(p)]
      /\ balance = [h \in PoolAddresses \union {Contract} |->
                      IF h = Contract THEN own ELSE book[h]]
      /\ aside = own /\ attack = NoAttack /\ run = NoRun
  BY DEF ContractInit
<1>3. own \in [Tokens -> Int] /\ \A p : first(p) \in [Tokens -> Int]
  BY <1>1
<1>4. \A p \in PoolAddresses : \A t \in Coins[p] : t \in Tokens /\ first(p)[t] > 0
  BY <1>1, PoolsAreTwoTokens
<1> HIDE DEF first, own
<1>5. book \in Books
  BY <1>2, <1>3 DEF Books
<1>6. balance \in Ledgers
  BY <1>2, <1>3, <1>5 DEF Ledgers, Books
<1>7. \A p \in PoolAddresses : balance[p] = book[p]
  BY <1>2, ContractIsNoPool
<1>8. ContractTypes
  BY <1>2, <1>3, <1>5, <1>6 DEF ContractTypes
<1>9. Solvent(book)
  BY <1>2, <1>4 DEF Solvent
<1>10. SquareButForIt
  <2>1. \A p \in PoolAddresses, t \in Tokens : book[p][t] \in Int /\ InFlight(p, t) = 0
    BY <1>2, <1>5 DEF Books, InFlight
  <2> QED
    BY <1>7, <2>1 DEF SquareButForIt
<1> QED
  BY <1>2, <1>8, <1>9, <1>10 DEF ContractInv, OnItsWay, KeptButForIt, SavedIsSound

LEMMA ContractInvIsKept == ContractInv /\ [ContractNext]_contractVars => ContractInv'
<1> SUFFICES ASSUME ContractInv, [ContractNext]_contractVars
             PROVE  ContractInv'
  OBVIOUS
<1>1. CASE Hop
  BY <1>1, InvHop
<1>2. CASE \E path \in Paths, amount \in AmountsIn : Probe(path, amount)
  BY <1>2, InvProbe
<1>3. CASE \E guarded \in BOOLEAN : EndProbe(guarded)
  BY <1>3, InvEndProbe
<1>4. CASE FrontRun
  BY <1>4, InvFrontRun
<1>5. CASE EndFrontRun
  BY <1>5, InvEndFrontRun
<1>6. CASE BackRunWithBloxroute \/ BackRun \/ \E onTime \in BOOLEAN : BackRunDifficult(onTime)
  BY <1>6, InvBackRuns
<1>7. CASE EndBackRun
  BY <1>7, InvEndBackRun
<1>8. CASE GiveUp
  BY <1>8, InvGiveUp
<1>9. CASE \E p \in PoolAddresses, amount \in Trades :
             \E in \in Coins[p] : \E out \in Coins[p] \ {in} : OthersSwap(p, in, out, amount)
  BY <1>9, InvOthersSwap
<1>10. CASE \E t \in Tokens, amount \in Trades : deposit(t, amount)
  BY <1>10, InvDeposit
<1>11. CASE \E t \in Tokens, amount \in Trades : withdraw(t, amount)
  BY <1>11, InvWithdraw
<1>12. CASE UNCHANGED contractVars
  BY <1>12 DEF contractVars, ContractInv, ContractTypes, Solvent, OnItsWay, SquareButForIt,
       KeptButForIt, SavedIsSound, Square, InFlight, Forwards, LegsOfRun, TokenAt, Middle,
       Start, Target
<1> QED
  BY <1>1, <1>2, <1>3, <1>4, <1>5, <1>6, <1>7, <1>8, <1>9, <1>10, <1>11, <1>12 DEF ContractNext

LEMMA ContractInvHolds == ContractSpec => []ContractInv
BY ContractInvAtFirst, ContractInvIsKept, PTL DEF ContractSpec

(***************************************************************************)
(* Whatever the exchanges, the fees, the taxes and the paths are, no pool  *)
(* holds between two transactions what it does not know of: swapToken      *)
(* sends a swap's output to the next pool only where that pool looks for   *)
(* it.                                                                     *)
(***************************************************************************)
THEOREM NothingIsLeftInAPool == ContractSpec => []PoolsAreSquare
<1>1. ContractInv => PoolsAreSquare
  <2> SUFFICES ASSUME ContractInv, run = NoRun, NEW p \in DOMAIN book
               PROVE  balance[p] = book[p]
    BY DEF PoolsAreSquare
  <2>1. balance \in Ledgers /\ book \in Books
    BY DEF ContractInv, ContractTypes
  <2>2. p \in PoolAddresses
    BY <2>1 DEF Books
  <2>3. balance[p] \in [Tokens -> Int] /\ book[p] \in [Tokens -> Int]
    BY <2>1, <2>2 DEF Books, Ledgers
  <2>4. \A t \in Tokens : balance[p][t] = book[p][t]
    BY <2>2, InPlace
  <2> QED
    BY <2>3, <2>4
<1> QED
  BY <1>1, ContractInvHolds, PTL

(***************************************************************************)
(* Whatever the exchanges, the fees, the taxes and the paths are, an       *)
(* attack leaves the contract of the tokens between the ends of its path   *)
(* exactly what the owner put there, before and after each transaction.    *)
(***************************************************************************)
THEOREM OnlyItsOwnIsSpent == ContractSpec => []OthersKept
<1>1. ContractInv => OthersKept
  BY InPlace DEF OthersKept, Middle
<1> QED
  BY <1>1, ContractInvHolds, PTL

-----------------------------------------------------------------------------
(* The deeper a pool is in what it is paid with, the less it brings.       *)

LEMMA DivideUpCovers ==
  ASSUME NEW a \in Int, NEW b \in Nat \ {0}
  PROVE  DivideUp(a, b) \in Int /\ a <= b * DivideUp(a, b)
<1>1. (a + b - 1) \div b \in Int /\ a + b - 1 < b * ((a + b - 1) \div b) + b
  BY DivisionRounds
<1> QED
  BY <1>1 DEF DivideUp

LEMMA DivideUpGrows ==
  ASSUME NEW a \in Int, NEW b \in Nat \ {0}, NEW c \in Int, NEW d \in Nat \ {0},
         a * d <= c * b
  PROVE  DivideUp(a, b) \in Int /\ DivideUp(c, d) \in Int /\ DivideUp(a, b) <= DivideUp(c, d)
<1> DEFINE k == DivideUp(c, d)
<1>1. k \in Int /\ c <= d * k
  BY DivideUpCovers
<1> HIDE DEF k
<1>2. c * b <= d * k * b
  BY <1>1
<1>3. a * d <= (b * k) * d
  BY <1>1, <1>2
<1>4. a <= b * k
  <2> DEFINE m == b * k
  <2>1. m \in Int
    BY <1>1
  <2>2. a * d <= m * d
    BY <1>3
  <2> HIDE DEF m
  <2>3. a <= m
    BY <2>1, <2>2
  <2> QED
    BY <2>3 DEF m
<1> QED
  BY <1>1, <1>4, DivideUpIsNoMore DEF k

LEMMA QuotientShrinks ==
  ASSUME NEW x \in Nat \ {0}, NEW y \in Nat \ {0}, x <= y, NEW n \in Nat, NEW b \in Nat \ {0}
  PROVE  (n * b) \div (y + n) <= (n * b) \div (x + n)
<1> DEFINE m == n * b
           k == m \div (y + n)
<1>1. m \in Int /\ x + n \in Nat \ {0} /\ y + n \in Nat \ {0}
  OBVIOUS
<1>2. k \in Nat
  BY PaysLess
<1>3. (y + n) * k <= m
  <2> HIDE DEF m
  <2> QED
    BY <1>1, DivisionRounds
<1> HIDE DEF k
<1>4. (x + n) * k <= (y + n) * k
  BY <1>2
<1>5. (x + n) * k <= m
  <2>1. (x + n) * k \in Int /\ (y + n) * k \in Int
    BY <1>2
  <2> HIDE DEF m
  <2> QED
    BY <1>1, <1>3, <1>4, <2>1
<1> HIDE DEF m
<1>6. k <= m \div (x + n)
  BY <1>1, <1>2, <1>5, QuotientIsNoLess
<1> QED
  BY <1>6 DEF k, m

LEMMA ArrivingGrows ==
  ASSUME NEW t \in Tokens, NEW x \in Nat, NEW y \in Nat, x <= y
  PROVE  Arriving(t, x) <= Arriving(t, y)
<1> DEFINE u == (x * Tax[t]) \div 100
           v == (y * Tax[t]) \div 100
<1>1. Tax[t] \in 0 .. 100
  BY AmountsAreUnsigned
<1>2. x * Tax[t] \in Int /\ y * Tax[t] \in Int
  BY <1>1
<1>3. u \in Int /\ x * Tax[t] < 100 * u + 100 /\ v \in Int /\ 100 * v <= y * Tax[t]
  BY <1>2, DivisionRounds
<1>4. y * Tax[t] - x * Tax[t] <= 100 * (y - x)
  <2>1. y * Tax[t] - x * Tax[t] = (y - x) * Tax[t]
    BY <1>1
  <2>2. (y - x) * Tax[t] <= 100 * (y - x)
    BY <1>1
  <2> QED
    BY <2>1, <2>2
<1>5. v - u <= y - x
  BY <1>2, <1>3, <1>4
<1> QED
  BY <1>3, <1>5 DEF Arriving

LEMMA AskedShrinks ==
  ASSUME NEW p \in PoolAddresses, NEW x \in Nat \ {0}, NEW y \in Nat \ {0}, x <= y,
         NEW b \in Nat \ {0}, NEW g \in Nat
  PROVE  /\ AskedOf(p, x, b, g) \in Nat /\ AskedOf(p, y, b, g) \in Nat
         /\ AskedOf(p, y, b, g) <= AskedOf(p, x, b, g)
<1>1. /\ Parts \in Nat \ {0} /\ PoolFee[p] \in 0 .. Parts - 1 /\ Parts - PoolFee[p] \in Nat
      /\ Parts - CommonFee \in Nat
  BY PoolsAreTwoTokens
<1>2. CASE p \in FeeKnown
  <2> DEFINE d(z) == (z + g) * Parts - g * PoolFee[p]
             n(z) == z * b * Parts * Parts
             left(z) == DivideUp(n(z), d(z))
  <2>1. ASSUME NEW z \in Nat \ {0}
        PROVE  /\ d(z) \in Nat \ {0} /\ left(z) \in Int
               /\ DivideUp(left(z), Parts) \in Int /\ DivideUp(left(z), Parts) <= b
    BY <1>1, AsksForNoLess
  <2>2. n(x) \in Int /\ n(y) \in Int
    BY <1>1
  <2>3. n(x) * d(y) <= n(y) * d(x)
    <3> DEFINE c == g * (Parts - PoolFee[p])
               e == b * Parts * Parts
    <3>1. c \in Nat /\ e \in Nat
      BY <1>1
    <3>2. d(x) = x * Parts + c /\ d(y) = y * Parts + c /\ n(x) = x * e /\ n(y) = y * e
      BY <1>1
    <3> HIDE DEF d, n, c, e
    <3>3. e * c * x <= e * c * y
      <4>1. e * c \in Nat
        BY <3>1
      <4> QED
        BY <4>1
    <3>4. /\ (x * e) * (y * Parts + c) = x * e * y * Parts + e * c * x
          /\ (y * e) * (x * Parts + c) = x * e * y * Parts + e * c * y
      BY <1>1, <3>1
    <3> QED
      BY <1>1, <3>1, <3>2, <3>3, <3>4
  <2>4. left(x) <= left(y)
    <3> HIDE DEF d, n
    <3> QED
      BY <2>1, <2>2, <2>3, DivideUpGrows
  <2> HIDE DEF left
  <2>5. DivideUp(left(x), Parts) <= DivideUp(left(y), Parts)
    <3> DEFINE i == left(x)
               j == left(y)
    <3>1. i \in Int /\ j \in Int /\ i <= j
      BY <2>1, <2>4
    <3> HIDE DEF i, j
    <3>2. i * Parts <= j * Parts
      BY <1>1, <3>1
    <3>3. DivideUp(i, Parts) <= DivideUp(j, Parts)
      BY <1>1, <3>1, <3>2, DivideUpGrows
    <3> QED
      BY <3>3 DEF i, j
  <2>6. \A z : AskedOf(p, z, b, g) = b - DivideUp(left(z), Parts)
    BY <1>2 DEF AskedOf, left
  <2> QED
    BY <2>1, <2>5, <2>6
<1>3. CASE p \notin FeeKnown
  <2> DEFINE n == g * (Parts - CommonFee)
  <2>1. n \in Nat /\ x * Parts \in Nat \ {0} /\ y * Parts \in Nat \ {0} /\ x * Parts <= y * Parts
    BY <1>1
  <2>2. \A z : AskedOf(p, z, b, g) = (n * b) \div (z * Parts + n)
    BY <1>3 DEF AskedOf
  <2> HIDE DEF n
  <2>3. /\ (n * b) \div (x * Parts + n) \in Nat
        /\ (n * b) \div (y * Parts + n) \in Nat
    BY <2>1, PaysLess
  <2>4. (n * b) \div (y * Parts + n) <= (n * b) \div (x * Parts + n)
    BY <2>1, QuotientShrinks
  <2> QED
    BY <2>2, <2>3, <2>4
<1> QED
  BY <1>2, <1>3

LEMMA BringsShrinks ==
  ASSUME NEW p \in PoolAddresses, NEW in \in Tokens, NEW out \in Tokens,
         NEW x \in Nat \ {0}, NEW y \in Nat \ {0}, x <= y,
         NEW b \in Nat \ {0}, NEW amount \in Nat
  PROVE  Brings(p, in, out, y, b, amount) <= Brings(p, in, out, x, b, amount)
<1>1. CASE Dex[p] \in UniswapV2Ids
  <2> DEFINE g == Arriving(in, amount)
  <2>1. g \in Nat
    BY ArrivingIsPart
  <2> HIDE DEF g
  <2>2. /\ AskedOf(p, x, b, g) \in Nat /\ AskedOf(p, y, b, g) \in Nat
        /\ AskedOf(p, y, b, g) <= AskedOf(p, x, b, g)
    BY <2>1, AskedShrinks
  <2>3. Arriving(out, AskedOf(p, y, b, g)) <= Arriving(out, AskedOf(p, x, b, g))
    BY <2>2, ArrivingGrows
  <2> QED
    BY <1>1, <2>3 DEF Brings, g
<1>2. CASE Dex[p] \notin UniswapV2Ids
  <2> DEFINE n == amount * (Parts - PoolFee[p])
  <2>1. /\ Parts \in Nat \ {0} /\ Parts - PoolFee[p] \in Nat
    BY PoolsAreTwoTokens
  <2>2. n \in Nat /\ x * Parts \in Nat \ {0} /\ y * Parts \in Nat \ {0} /\ x * Parts <= y * Parts
    BY <2>1
  <2>3. \A z : GivenBy(p, z, b, amount) = (n * b) \div (z * Parts + n)
    BY DEF GivenBy
  <2> HIDE DEF n
  <2>4. /\ (n * b) \div (x * Parts + n) \in Nat
        /\ (n * b) \div (y * Parts + n) \in Nat
    BY <2>2, PaysLess
  <2>5. (n * b) \div (y * Parts + n) <= (n * b) \div (x * Parts + n)
    BY <2>2, QuotientShrinks
  <2>6. Arriving(out, GivenBy(p, y, b, amount)) <= Arriving(out, GivenBy(p, x, b, amount))
    BY <2>3, <2>4, <2>5, ArrivingGrows
  <2> QED
    BY <1>2, <2>6 DEF Brings
<1> QED
  BY <1>1, <1>2

(* A trade leaves the product of the reserves no less: n comes in, of which
   the pool keeps f parts, and w goes out.                                 *)
LEMMA ProductGrows ==
  ASSUME NEW x \in Nat \ {0}, NEW y \in Nat \ {0}, NEW n \in Nat, NEW f \in 0 .. Parts - 1,
         NEW w \in Nat, w <= y,
         (x * Parts + n * (Parts - f)) * w <= n * (Parts - f) * y
  PROVE  x * y <= (x + n) * (y - w)
<1>1. Parts \in Nat \ {0} /\ Parts - f \in Nat
  BY PoolsAreTwoTokens
<1>2. n * f * w <= n * f * y
  <2>1. n * f \in Nat
    OBVIOUS
  <2> QED
    BY <2>1
<1>3. /\ (x * Parts + n * (Parts - f)) * w = Parts * (x * w) + Parts * (n * w) - n * f * w
      /\ n * (Parts - f) * y = Parts * (n * y) - n * f * y
  BY <1>1
<1>4. Parts * (x * w + n * w) <= Parts * (n * y)
  <2>1. /\ n * f * w \in Int /\ n * f * y \in Int /\ x * w \in Int /\ n * w \in Int /\ n * y \in Int
        /\ Parts * (x * w) \in Int /\ Parts * (n * w) \in Int /\ Parts * (n * y) \in Int
    BY <1>1
  <2>2. Parts * (x * w + n * w) = Parts * (x * w) + Parts * (n * w)
    BY <1>1, <2>1
  <2> QED
    BY <1>2, <1>3, <2>1, <2>2
<1>5. x * w + n * w <= n * y
  <2> DEFINE i == x * w + n * w
             j == n * y
  <2>1. i \in Int /\ j \in Int /\ Parts * i <= Parts * j
    BY <1>4
  <2> HIDE DEF i, j
  <2>2. i <= j
    BY <1>1, <2>1
  <2> QED
    BY <2>2 DEF i, j
<1>6. (x + n) * (y - w) = x * y + n * y - (x * w + n * w)
  OBVIOUS
<1> QED
  BY <1>5, <1>6

-----------------------------------------------------------------------------
(* The stages of an attack.                                                *)

LEMMA CallIs ==
  ASSUME ContractInv, NEW kind \in {"probe", "front", "back"}, NEW guarded \in BOOLEAN,
         NEW amount \in Nat, Call(kind, guarded, amount)
  PROVE  /\ run' # NoRun /\ run'.kind = kind /\ run'.leg = 1 /\ run'.amount = amount
         /\ run'.from = Contract
         /\ run'.saved.balance = balance /\ run'.saved.book = book
         /\ UNCHANGED <<balance, book>>
<1>1. run' \in Runs
  BY DEF Call, ContractInv, ContractTypes, Runs
<1> QED
  BY <1>1, ContractIsNoPool DEF Call

(* Every back run is refused, or is called with what was planned.          *)
LEMMA BackRunsAre ==
  ASSUME ContractInv,
         BackRunWithBloxroute \/ BackRun \/ \E onTime \in BOOLEAN : BackRunDifficult(onTime)
  PROVE  /\ run = NoRun /\ attack \in Attacks /\ attack # NoAttack
         /\ attack.stage \in {"open", "missed"}
         /\ \/ Refuse("back")
            \/ \E guarded \in BOOLEAN :
                 Call("back", guarded, attack.out) /\ UNCHANGED <<attack, aside>>
BY DEF BackRunWithBloxroute, BackRun, BackRunDifficult, CanRunBack, ContractInv, ContractTypes

LEMMA FailsIs ==
  ASSUME attack \in Attacks
  PROVE  /\ Fails("probe") = NoAttack
         /\ Fails("front") = [attack EXCEPT !.stage = "missed"]
         /\ Fails("back") = NoAttack \/ Fails("back") = [attack EXCEPT !.failed = TRUE]
BY DEF Fails

(* What is left of an attack after one of its transactions failed.         *)
LEMMA FailedIs ==
  ASSUME attack \in Attacks, NEW kind \in {"probe", "front", "back"}, attack' = Fails(kind)
  PROVE  attack' # NoAttack =>
           /\ kind \in {"front", "back"}
           /\ attack'.path = attack.path /\ attack'.in = attack.in /\ attack'.out = attack.out
           /\ attack'.guarded = attack.guarded /\ attack'.bought = attack.bought
           /\ attack'.stage = IF kind = "front" THEN "missed" ELSE attack.stage
BY FailsIs DEF Attacks

LEMMA StagesKept ==
  ASSUME ContractInv, StagesAgree, ContractNext
  PROVE  StagesAgree'
<1>1. CASE Revert /\ run # NoRun
  <2>1. attack \in Attacks /\ run.kind \in {"probe", "front", "back"} /\ run' = NoRun
    BY <1>1 DEF ContractInv, ContractTypes, OnItsWay, Runs, Revert
  <2>2. attack' = Fails(run.kind)
    BY <1>1 DEF Revert
  <2> QED
    BY <1>1, <2>1, <2>2, FailedIs DEF StagesAgree, ContractInv, OnItsWay
<1>2. CASE Hop
  <2>1. CASE Revert
    BY <1>1, <1>2, <2>1 DEF Hop, InLegs
  <2>2. CASE ~Revert
    <3>1. run # NoRun /\ run' # NoRun /\ run'.kind = run.kind /\ attack' = attack
      BY <1>2, <2>2, WhatAHopDoes
    <3> QED
      BY <3>1 DEF StagesAgree
  <2> QED
    BY <2>1, <2>2
<1>3. ASSUME NEW path \in Paths, NEW amount \in AmountsIn, Probe(path, amount)
      PROVE  StagesAgree'
  <2>1. run' # NoRun /\ run'.kind = "probe"
    BY <1>3, CallIs, AmountsAreUnsigned DEF Probe
  <2>2. attack'.stage = "probed" /\ attack'.bought = FALSE
    BY <1>3 DEF Probe
  <2> QED
    BY <2>1, <2>2 DEF StagesAgree
<1>4. ASSUME NEW guarded \in BOOLEAN, EndProbe(guarded)
      PROVE  StagesAgree'
  <2>1. attack \in Attacks /\ attack # NoAttack /\ run # NoRun /\ run.kind = "probe" /\ run' = NoRun
    BY <1>4 DEF EndProbe, AtEnd, ContractInv, ContractTypes, OnItsWay
  <2>2. attack'.stage = "planned" /\ attack'.bought = attack.bought
    BY <1>4, <2>1 DEF EndProbe, Attacks
  <2> QED
    BY <2>1, <2>2 DEF StagesAgree
<1>5. CASE FrontRun
  <2>1. run = NoRun /\ attack \in Attacks /\ attack # NoAttack /\ attack.stage = "planned"
    BY <1>5 DEF FrontRun, ContractInv, ContractTypes
  <2>2. CASE Call("front", attack.guarded, attack.in) /\ attack' = attack
    <3>1. run' # NoRun /\ run'.kind = "front"
      BY <2>1, <2>2, CallIs, AmountsAreUnsigned DEF Attacks
    <3> QED
      BY <2>1, <2>2, <3>1 DEF StagesAgree
  <2>3. CASE Refuse("front")
    <3>1. attack' = Fails("front") /\ run' = run
      BY <2>3 DEF Refuse
    <3> QED
      BY <2>1, <3>1, FailedIs DEF StagesAgree
  <2> QED
    BY <1>5, <2>2, <2>3 DEF FrontRun
<1>6. CASE EndFrontRun
  <2>1. attack \in Attacks /\ run # NoRun /\ run.kind = "front"
    BY <1>6 DEF EndFrontRun, AtEnd, ContractInv, ContractTypes, OnItsWay
  <2>2. CASE Suffices(run.amount)
    <3>1. run' = NoRun /\ attack'.stage = "open"
      BY <1>6, <2>1, <2>2 DEF EndFrontRun, Attacks
    <3> QED
      BY <3>1 DEF StagesAgree
  <2>3. CASE ~Suffices(run.amount)
    BY <1>1, <1>6, <2>1, <2>3 DEF EndFrontRun
  <2> QED
    BY <2>2, <2>3
<1>7. CASE BackRunWithBloxroute \/ BackRun \/ \E onTime \in BOOLEAN : BackRunDifficult(onTime)
  <2>1. /\ run = NoRun /\ attack \in Attacks /\ attack # NoAttack
        /\ attack.stage \in {"open", "missed"}
        /\ \/ Refuse("back")
           \/ \E guarded \in BOOLEAN :
                Call("back", guarded, attack.out) /\ UNCHANGED <<attack, aside>>
    BY <1>7, BackRunsAre
  <2>2. CASE Refuse("back")
    <3>1. attack' = Fails("back") /\ run' = run
      BY <2>2 DEF Refuse
    <3> QED
      BY <2>1, <3>1, FailedIs DEF StagesAgree
  <2>3. ASSUME NEW guarded \in BOOLEAN, Call("back", guarded, attack.out), attack' = attack
        PROVE  StagesAgree'
    <3>1. run' # NoRun /\ run'.kind = "back"
      BY <2>1, <2>3, CallIs DEF Attacks
    <3> QED
      BY <2>1, <2>3, <3>1 DEF StagesAgree
  <2> QED
    BY <2>1, <2>2, <2>3
<1>8. CASE EndBackRun
  <2>1. attack \in Attacks /\ run # NoRun /\ run.kind = "back"
    BY <1>8 DEF EndBackRun, AtEnd, ContractInv, ContractTypes, OnItsWay
  <2>2. CASE Revert
    BY <1>1, <2>1, <2>2
  <2>3. CASE ~Revert
    <3>1. run' = NoRun /\ attack'.stage = "closed"
      BY <1>8, <2>1, <2>3 DEF EndBackRun, Attacks
    <3> QED
      BY <3>1 DEF StagesAgree
  <2> QED
    BY <2>2, <2>3
<1>9. CASE GiveUp
  BY <1>9 DEF GiveUp, StagesAgree
<1>10. CASE UNCHANGED <<attack, run>>
  BY <1>10 DEF StagesAgree
<1> QED
  BY <1>2, <1>3, <1>4, <1>5, <1>6, <1>7, <1>8, <1>9, <1>10
  DEF ContractNext, OthersSwap, deposit, withdraw, Meanwhile

-----------------------------------------------------------------------------
(* A single pool brings what was planned, or less, while it holds as much
   of the target token as it did.                                          *)

LEMMA OnePoolIs ==
  ASSUME NEW path \in Paths, Len(path.pools) = 1
  PROVE  /\ LastPool(path) \in PoolAddresses
         /\ Start(path) \in Tokens /\ Target(path) \in Tokens /\ Start(path) # Target(path)
         /\ Coins[LastPool(path)] = {Start(path), Target(path)}
         /\ Legs(path, TRUE)[1].pool = LastPool(path)
         /\ TokenAt(path, TRUE, 1) = Start(path) /\ TokenAt(path, TRUE, 2) = Target(path)
<1>1. /\ path.pools \in Seq(PoolAddresses) /\ path.tokens \in Seq(Tokens)
      /\ Len(path.tokens) = 2
      /\ path.tokens[1] # path.tokens[2] /\ Coins[path.pools[1]] = {path.tokens[1], path.tokens[2]}
  <2>1. 1 \in 1 .. Len(path.pools) /\ 1 + 1 = 2
    OBVIOUS
  <2>2. /\ path.tokens[1] # path.tokens[1 + 1]
        /\ Coins[path.pools[1]] = {path.tokens[1], path.tokens[1 + 1]}
    BY <2>1, PathsAreRoutes
  <2> QED
    BY <2>1, <2>2, PathsAreRoutes
<1>2. path.pools[1] \in PoolAddresses /\ path.tokens[1] \in Tokens /\ path.tokens[2] \in Tokens
  BY <1>1
<1> QED
  BY <1>1, <1>2 DEF LastPool, Start, Target, Legs, TokenAt

LEMMA OthersKeepThePlan ==
  ASSUME ContractInv, attack # NoAttack, OnePool, PlanIsFrom(book), run = NoRun,
         NEW q \in PoolAddresses, NEW amount \in Trades,
         NEW in \in Coins[q], NEW out \in Coins[q] \ {in}, OthersSwap(q, in, out, amount)
  PROVE  PlanIsFrom(book)'
<1> DEFINE p == LastPool(attack.path)
           s == Start(attack.path)
           t == Target(attack.path)
<1>1. attack \in Attacks /\ book \in Books /\ Solvent(book) /\ attack' = attack
  BY DEF ContractInv, ContractTypes, OthersSwap
<1>2. p \in PoolAddresses /\ s \in Tokens /\ t \in Tokens /\ s # t /\ Coins[p] = {s, t}
  BY <1>1, OnePoolIs DEF OnePool, Attacks
<1> DEFINE net == Arriving(in, amount)
           paid == PoolGives(q, in, out, net)
           after == [book[q] EXCEPT ![in] = @ + net, ![out] = @ - paid]
<1>3. in \in Tokens /\ out \in Tokens /\ in # out /\ Coins[q] = {in, out}
  BY PoolsAreTwoTokens
<1>4. net \in Nat
  BY <1>3, ArrivingIsPart, AmountsAreUnsigned
<1>5. book' = [book EXCEPT ![q] = after]
  BY DEF OthersSwap
<1> DEFINE x == book[q][in]
           y == book[q][out]
<1>6. x \in Nat \ {0} /\ y \in Nat \ {0}
  BY <1>1, <1>3 DEF Books, Solvent
<1>7. Parts \in Nat \ {0} /\ PoolFee[q] \in 0 .. Parts - 1 /\ Parts - PoolFee[q] \in Nat
  BY PoolsAreTwoTokens
<1>8. paid \in Nat /\ paid < y
  <2> HIDE DEF net
  <2> QED
    BY <1>1, <1>3, <1>4, PoolGivesLess
<1>9. (x * Parts + net * (Parts - PoolFee[q])) * paid <= net * (Parts - PoolFee[q]) * y
  <2> DEFINE a == net * (Parts - PoolFee[q]) * y
             b == x * Parts + net * (Parts - PoolFee[q])
  <2>1. paid = a \div b
    BY DEF PoolGives
  <2>2. a \in Int /\ b \in Nat \ {0}
    <3> HIDE DEF net, x, y
    <3>1. net * (Parts - PoolFee[q]) \in Nat
      BY <1>4, <1>7
    <3>2. x * Parts \in Nat \ {0}
      BY <1>6, <1>7
    <3> QED
      BY <1>6, <3>1, <3>2
  <2> HIDE DEF a, b, paid
  <2>3. b * paid <= a
    BY <2>1, <2>2, DivisionRounds
  <2> QED
    BY <2>3 DEF a, b
<1> HIDE DEF net, paid, x, y
<1>10. x * y <= (x + net) * (y - paid)
  BY <1>4, <1>6, <1>7, <1>8, <1>9, ProductGrows
<1>11. after[in] = x + net /\ after[out] = y - paid
  BY <1>1, <1>3 DEF x, y, Books
<1>12. book[p][s] * book[p][t] <= book'[p][s] * book'[p][t]
  <2>1. book[p][s] \in Int /\ book[p][t] \in Int
    BY <1>1, <1>2 DEF Books
  <2>2. CASE q # p
    <3>1. book'[p] = book[p]
      BY <1>1, <1>2, <1>5, <2>2 DEF Books
    <3> HIDE DEF p, s, t
    <3> QED
      BY <2>1, <3>1
  <2>3. CASE q = p
    <3>1. book'[p] = after
      BY <1>1, <1>2, <1>5, <2>3 DEF Books
    <3> HIDE DEF p, s, t, after
    <3>2. (s = in /\ t = out) \/ (s = out /\ t = in)
      BY <1>2, <1>3, <2>3
    <3>3. CASE s = in /\ t = out
      BY <1>10, <1>11, <2>3, <3>1, <3>3 DEF x, y
    <3>4. CASE s = out /\ t = in
      <4>1. y * x <= (y - paid) * (x + net)
        BY <1>4, <1>6, <1>8, <1>10
      <4> QED
        BY <1>11, <2>3, <3>1, <3>4, <4>1 DEF x, y
    <3> QED
      BY <3>2, <3>3, <3>4
  <2> QED
    BY <2>2, <2>3
<1>13. book' \in Books
  <2>1. ContractInv'
    BY InvOthersSwap
  <2> QED
    BY <2>1 DEF ContractInv, ContractTypes
<1>14. PICK a \in Nat \ {0} :
         /\ attack.poolBalance > 0
         /\ a * attack.poolBalance <= book[p][s] * book[p][t]
         /\ attack.out = Brings(p, s, t, a, attack.poolBalance, attack.in)
  BY DEF PlanIsFrom
<1>15. a * attack.poolBalance <= book'[p][s] * book'[p][t]
  <2>1. attack.poolBalance \in Int
    BY <1>1 DEF Attacks
  <2>2. /\ book[p][s] \in Int /\ book[p][t] \in Int /\ book'[p][s] \in Int /\ book'[p][t] \in Int
    BY <1>1, <1>2, <1>13 DEF Books
  <2> DEFINE i == a * attack.poolBalance
             j == book[p][s] * book[p][t]
             k == book'[p][s] * book'[p][t]
  <2>3. i \in Int /\ j \in Int /\ k \in Int
    BY <2>1, <2>2
  <2>4. i <= j /\ j <= k
    BY <1>12, <1>14
  <2> HIDE DEF i, j, k
  <2>5. i <= k
    BY <2>3, <2>4
  <2> QED
    BY <2>5 DEF i, k
<1> QED
  BY <1>1, <1>14, <1>15 DEF PlanIsFrom, LastPool, Start, Target

(* The front run of a plan that passes the test of the pool's balance.     *)
LEMMA NoMoreThanPlanned ==
  ASSUME attack \in Attacks, OnePool, NEW known \in Books, Solvent(known), PlanIsFrom(known),
         known[LastPool(attack.path)][Target(attack.path)] = attack.poolBalance
  PROVE  BringsNow(known) <= attack.out
<1> DEFINE p == LastPool(attack.path)
           s == Start(attack.path)
           t == Target(attack.path)
           b == attack.poolBalance
           y == known[p][s]
<1>1. p \in PoolAddresses /\ s \in Tokens /\ t \in Tokens /\ Coins[p] = {s, t}
  BY OnePoolIs DEF OnePool, Attacks
<1>2. y \in Nat \ {0} /\ b \in Nat \ {0}
  BY <1>1 DEF Books, Solvent
<1>3. PICK a \in Nat \ {0} :
        /\ a * b <= y * known[p][t]
        /\ attack.out = Brings(p, s, t, a, b, attack.in)
  BY DEF PlanIsFrom
<1>4. attack.in \in Nat
  BY AmountsAreUnsigned DEF Attacks
<1>5. BringsNow(known) = Brings(p, s, t, y, b, attack.in)
  BY DEF BringsNow
<1>6. a * b <= y * b
  BY <1>3
<1> HIDE DEF p, s, t, b, y
<1>7. a <= y
  BY <1>2, <1>6
<1> QED
  BY <1>1, <1>2, <1>3, <1>4, <1>5, <1>7, BringsShrinks

LEMMA PricedKept ==
  ASSUME ContractInv, StagesAgree, PricedInv, ContractNext
  PROVE  PricedInv'
<1>1. CASE run' = NoRun /\ (attack' # NoAttack => attack'.stage # "planned")
  BY <1>1 DEF PricedInv
<1>2. ASSUME attack \in Attacks, run.kind \in {"front", "back"}, run # NoRun, attack # NoAttack,
             run' = NoRun, attack' = Fails(run.kind)
      PROVE  PricedInv'
  <2>1. attack' # NoAttack => attack'.stage # "planned"
    BY <1>2, FailedIs DEF StagesAgree
  <2> QED
    BY <1>1, <1>2, <2>1
<1>3. CASE Revert /\ run # NoRun
  <2>1. attack \in Attacks /\ run.kind \in {"probe", "front", "back"} /\ attack # NoAttack
    BY <1>3 DEF ContractInv, ContractTypes, OnItsWay, Runs
  <2>2. run' = NoRun /\ attack' = Fails(run.kind)
    BY <1>3 DEF Revert
  <2>3. CASE run.kind = "probe"
    BY <1>1, <2>1, <2>2, <2>3, FailsIs
  <2> QED
    BY <1>2, <1>3, <2>1, <2>2, <2>3
<1>4. CASE Hop
  <2>1. CASE Revert
    BY <1>3, <1>4, <2>1 DEF Hop, InLegs
  <2>2. CASE ~Revert
    <3> DEFINE in == TokenAt(attack.path, Forwards, run.leg)
               out == TokenAt(attack.path, Forwards, run.leg + 1)
               p == LegsOfRun[run.leg].pool
    <3>1. /\ run # NoRun /\ run \in Runs /\ attack \in Attacks
          /\ run.leg \in 1 .. Len(attack.path.pools)
          /\ run' # NoRun /\ run'.leg = run.leg + 1
          /\ run'.kind = run.kind /\ run'.saved = run.saved /\ attack' = attack
          /\ run.from = Contract =>
               run'.amount = Brings(p, in, out, book[p][in], book[p][out], run.amount)
      BY <1>4, <2>2, WhatAHopDoes
    <3>11. OnePool' = OnePool
      BY <3>1 DEF OnePool
    <3> SUFFICES ASSUME OnePool, run.kind # "back"
                 PROVE  PricedInv'
      BY <3>1, <3>11 DEF PricedInv
    <3>2. run.leg = 1 /\ run'.leg = 2
      BY <3>1 DEF OnePool
    <3>3. /\ book = run.saved.book /\ run.amount = attack.in /\ run.from = Contract
          /\ run.kind = "front" =>
               /\ PlanIsFrom(run.saved.book)
               /\ attack.guarded =>
                    run.saved.book[LastPool(attack.path)][Target(attack.path)]
                      = attack.poolBalance
      BY <3>1, <3>2, ContractIsNoPool DEF PricedInv
    <3>4. /\ p = LastPool(attack.path) /\ in = Start(attack.path) /\ out = Target(attack.path)
      <4>1. attack.path \in Paths /\ Len(attack.path.pools) = 1
        BY <3>1 DEF OnePool, Attacks
      <4>2. Forwards = TRUE /\ LegsOfRun = Legs(attack.path, TRUE)
        BY DEF LegsOfRun, Forwards
      <4>3. run.leg = 1 /\ run.leg + 1 = 2
        BY <3>2
      <4> QED
        BY <4>1, <4>2, <4>3, OnePoolIs
    <3> HIDE DEF p, in, out
    <3>5. run'.amount = BringsNow(run.saved.book)
      BY <3>1, <3>3, <3>4 DEF BringsNow
    <3>6. BringsNow(run.saved.book)' = BringsNow(run.saved.book)
      BY <3>1 DEF BringsNow, LastPool, Start, Target
    <3>7. PlanIsFrom(run.saved.book) => PlanIsFrom(run.saved.book)'
      BY <3>1 DEF PlanIsFrom, LastPool, Start, Target
    <3>8. (run.saved.book[LastPool(attack.path)][Target(attack.path)])'
            = run.saved.book[LastPool(attack.path)][Target(attack.path)]
      BY <3>1 DEF LastPool, Target
    <3> QED
      BY <3>1, <3>2, <3>3, <3>5, <3>6, <3>7, <3>8 DEF PricedInv
  <2> QED
    BY <2>1, <2>2
<1>5. ASSUME NEW path \in Paths, NEW amount \in AmountsIn, Probe(path, amount)
      PROVE  PricedInv'
  <2>1. /\ run' # NoRun /\ run'.kind = "probe" /\ run'.leg = 1 /\ run'.amount = amount
        /\ run'.from = Contract /\ run'.saved.balance = balance /\ run'.saved.book = book
        /\ UNCHANGED <<balance, book>>
    BY <1>5, CallIs, AmountsAreUnsigned DEF Probe
  <2>2. attack'.stage = "probed" /\ attack'.in = amount
    BY <1>5 DEF Probe
  <2> QED
    BY <2>1, <2>2 DEF PricedInv
<1>6. ASSUME NEW guarded \in BOOLEAN, EndProbe(guarded)
      PROVE  PricedInv'
  <2> DEFINE p == LastPool(attack.path)
             s == Start(attack.path)
             t == Target(attack.path)
             known == run.saved.book
  <2>1. /\ attack \in Attacks /\ attack # NoAttack /\ run # NoRun /\ run.kind = "probe"
        /\ run \in Runs /\ run' = NoRun /\ run.leg > Len(attack.path.pools)
        /\ known \in Books /\ run.saved.balance \in Ledgers
    BY <1>6 DEF EndProbe, AtEnd, ContractInv, ContractTypes, OnItsWay, Runs
  <2>2. /\ attack'.stage = "planned" /\ attack'.path = attack.path /\ attack'.in = attack.in
        /\ attack'.out = run.amount /\ attack'.poolBalance = run.saved.balance[p][t]
        /\ book' = known
    BY <1>6, <2>1 DEF EndProbe, Attacks
  <2> SUFFICES ASSUME OnePool
               PROVE  PlanIsFrom(book)'
    BY <2>1, <2>2 DEF PricedInv, OnePool
  <2>3. /\ p \in PoolAddresses /\ s \in Tokens /\ t \in Tokens /\ Coins[p] = {s, t}
    BY <2>1, OnePoolIs DEF OnePool, Attacks
  <2>4. known[p][s] \in Nat \ {0} /\ known[p][t] \in Nat \ {0}
        /\ run.saved.balance[p][t] = known[p][t]
    <3>1. Solvent(known) /\ Square(run.saved.balance, known)
      BY <2>1 DEF ContractInv, SavedIsSound
    <3>2. known[p][s] > 0 /\ known[p][t] > 0
      BY <2>3, <3>1 DEF Solvent
    <3>3. known[p][s] \in Int /\ known[p][t] \in Int
      BY <2>1, <2>3 DEF Books
    <3>4. run.saved.balance[p][t] = known[p][t]
      BY <2>3, <3>1 DEF Square
    <3> QED
      BY <3>2, <3>3, <3>4
  <2>5. run.amount = BringsNow(known)
    BY <2>1 DEF PricedInv, OnePool
  <2>6. attack'.out = Brings(p, s, t, known[p][s], attack'.poolBalance, attack'.in)
    BY <2>2, <2>4, <2>5 DEF BringsNow
  <2>7. LastPool(attack'.path) = p /\ Start(attack'.path) = s /\ Target(attack'.path) = t
    BY <2>2
  <2> HIDE DEF p, s, t, known
  <2>8. \E a \in Nat \ {0} :
          /\ attack'.poolBalance > 0
          /\ a * attack'.poolBalance <= book'[p][s] * book'[p][t]
          /\ attack'.out = Brings(p, s, t, a, attack'.poolBalance, attack'.in)
    <3> DEFINE a == known[p][s]
    <3>1. a \in Nat \ {0} /\ attack'.poolBalance = known[p][t] /\ known[p][t] \in Nat \ {0}
      BY <2>2, <2>4
    <3>2. a * attack'.poolBalance <= book'[p][s] * book'[p][t]
      BY <2>2, <3>1
    <3> HIDE DEF a
    <3> QED
      BY <2>6, <3>1, <3>2 DEF a
  <2> QED
    BY <2>7, <2>8 DEF PlanIsFrom
<1>7. CASE FrontRun
  <2>1. run = NoRun /\ attack \in Attacks /\ attack # NoAttack /\ attack.stage = "planned"
    BY <1>7 DEF FrontRun, ContractInv, ContractTypes
  <2>2. CASE PoolAsPlanned
    <3>1. Call("front", attack.guarded, attack.in) /\ attack' = attack
      BY <1>7, <2>2 DEF FrontRun
    <3>2. /\ run' # NoRun /\ run'.kind = "front" /\ run'.leg = 1 /\ run'.amount = attack.in
          /\ run'.from = Contract /\ run'.saved.balance = balance /\ run'.saved.book = book
          /\ UNCHANGED <<balance, book>>
      <4>1. attack.in \in Nat /\ attack.guarded \in BOOLEAN
        BY <2>1, AmountsAreUnsigned DEF Attacks
      <4> QED
        BY <3>1, <4>1, CallIs
    <3>11. OnePool' = OnePool
      BY <3>1 DEF OnePool
    <3> SUFFICES ASSUME OnePool
                 PROVE  PricedInv'
      BY <3>11 DEF PricedInv
    <3>3. PlanIsFrom(book)
      BY <2>1 DEF PricedInv
    <3>4. attack.guarded => book[LastPool(attack.path)][Target(attack.path)] = attack.poolBalance
      <4>1. LastPool(attack.path) \in PoolAddresses /\ Target(attack.path) \in Tokens
        BY <2>1, OnePoolIs DEF OnePool, Attacks
      <4> QED
        BY <2>1, <2>2, <4>1, InPlace DEF PoolAsPlanned
    <3>5. PlanIsFrom(run.saved.book)'
      BY <3>1, <3>2, <3>3 DEF PlanIsFrom, LastPool, Start, Target
    <3> QED
      <4>1. attack'.guarded =>
              run'.saved.book[LastPool(attack'.path)][Target(attack'.path)] = attack'.poolBalance
        BY <3>1, <3>2, <3>4
      <4>2. ~(run'.leg > 1) /\ run' # NoRun /\ run'.kind # "back"
        BY <3>2
      <4>3. /\ balance' = run'.saved.balance /\ book' = run'.saved.book
            /\ run'.amount = attack'.in /\ run'.from = Contract
        BY <3>1, <3>2
      <4> QED
        BY <3>5, <4>1, <4>2, <4>3 DEF PricedInv
  <2>3. CASE ~PoolAsPlanned
    <3>1. attack' = Fails("front") /\ run' = NoRun
      BY <1>7, <2>1, <2>3 DEF FrontRun, Refuse
    <3>2. attack' # NoAttack => attack'.stage # "planned"
      BY <2>1, <3>1, FailedIs
    <3> QED
      BY <1>1, <3>1, <3>2
  <2> QED
    BY <2>2, <2>3
<1>8. CASE EndFrontRun
  <2>1. attack \in Attacks /\ run # NoRun /\ run.kind = "front"
    BY <1>8 DEF EndFrontRun, AtEnd, ContractInv, ContractTypes, OnItsWay
  <2>2. CASE Suffices(run.amount)
    <3>1. run' = NoRun /\ attack'.stage = "open"
      BY <1>8, <2>1, <2>2 DEF EndFrontRun, Attacks
    <3> QED
      BY <1>1, <3>1
  <2>3. CASE ~Suffices(run.amount)
    BY <1>3, <1>8, <2>1, <2>3 DEF EndFrontRun
  <2> QED
    BY <2>2, <2>3
<1>9. CASE BackRunWithBloxroute \/ BackRun \/ \E onTime \in BOOLEAN : BackRunDifficult(onTime)
  <2>1. /\ run = NoRun /\ attack \in Attacks /\ attack # NoAttack
        /\ attack.stage \in {"open", "missed"}
        /\ \/ Refuse("back")
           \/ \E guarded \in BOOLEAN :
                Call("back", guarded, attack.out) /\ UNCHANGED <<attack, aside>>
    BY <1>9, BackRunsAre
  <2>2. CASE Refuse("back")
    <3>1. attack' = Fails("back") /\ run' = NoRun
      BY <2>1, <2>2 DEF Refuse
    <3>2. attack' # NoAttack => attack'.stage # "planned"
      BY <2>1, <3>1, FailedIs
    <3> QED
      BY <1>1, <3>1, <3>2
  <2>3. ASSUME NEW guarded \in BOOLEAN, Call("back", guarded, attack.out), attack' = attack
        PROVE  PricedInv'
    <3>1. run' # NoRun /\ run'.kind = "back"
      BY <2>1, <2>3, CallIs DEF Attacks
    <3> QED
      BY <3>1 DEF PricedInv
  <2> QED
    BY <2>1, <2>2, <2>3
<1>10. CASE EndBackRun
  <2>1. attack \in Attacks /\ run # NoRun /\ run.kind = "back"
    BY <1>10 DEF EndBackRun, AtEnd, ContractInv, ContractTypes, OnItsWay
  <2>2. CASE Revert
    BY <1>3, <2>1, <2>2
  <2>3. CASE ~Revert
    <3>1. run' = NoRun /\ attack'.stage = "closed"
      BY <1>10, <2>1, <2>3 DEF EndBackRun, Attacks
    <3> QED
      BY <1>1, <3>1
  <2> QED
    BY <2>2, <2>3
<1>11. CASE GiveUp
  BY <1>1, <1>11 DEF GiveUp
<1>12. ASSUME NEW q \in PoolAddresses, NEW amount \in Trades,
              NEW in \in Coins[q], NEW out \in Coins[q] \ {in}, OthersSwap(q, in, out, amount)
       PROVE  PricedInv'
  <2>1. run = NoRun /\ run' = NoRun /\ attack' = attack /\ attack # NoAttack
    BY <1>12 DEF OthersSwap, Meanwhile
  <2>2. (OnePool /\ attack.stage = "planned") => PlanIsFrom(book)'
    BY <1>12, <2>1, OthersKeepThePlan DEF PricedInv
  <2> QED
    BY <2>1, <2>2 DEF PricedInv, OnePool
<1>13. ASSUME UNCHANGED <<attack, run, book>>, run = NoRun
       PROVE  PricedInv'
  BY <1>13 DEF PricedInv, OnePool, PlanIsFrom, LastPool, Start, Target
<1> QED
  BY <1>4, <1>5, <1>6, <1>7, <1>8, <1>9, <1>10, <1>11, <1>12, <1>13
  DEF ContractNext, deposit, withdraw, Meanwhile

-----------------------------------------------------------------------------
(* What the contract has of the target token.                              *)

LEMMA TargetOf ==
  ASSUME ContractInv, attack # NoAttack
  PROVE  /\ attack \in Attacks /\ attack.path \in Paths
         /\ Target(attack.path) \in Tokens /\ Start(attack.path) \in Tokens
         /\ Len(attack.path.pools) \in Nat \ {0}
         /\ balance[Contract][Target(attack.path)] \in Int
         /\ aside[Target(attack.path)] \in Int
         /\ attack.out \in Nat
<1>1. attack \in Attacks /\ balance \in Ledgers /\ aside \in [Tokens -> Int]
  BY DEF ContractInv, ContractTypes
<1>2. attack.path \in Paths /\ attack.out \in Nat
  BY <1>1 DEF Attacks
<1>3. /\ Target(attack.path) \in Tokens /\ Start(attack.path) \in Tokens
      /\ Len(attack.path.pools) \in Nat \ {0}
  BY <1>2, EndsOfRoute
<1> QED
  BY <1>1, <1>2, <1>3 DEF Ledgers

LEMMA BoughtRevert ==
  ASSUME ContractInv, StagesAgree, BoughtInv, run # NoRun, Revert
  PROVE  BoughtInv'
<1>1. /\ attack \in Attacks /\ run.kind \in {"probe", "front", "back"} /\ attack # NoAttack
      /\ run' = NoRun /\ attack' = Fails(run.kind) /\ aside' = aside
      /\ balance' = run.saved.balance
  BY DEF ContractInv, ContractTypes, OnItsWay, Runs, Revert
<1> SUFFICES ASSUME attack' # NoAttack, ~Circular(attack'.path)
             PROVE  BoughtInv'
  BY DEF BoughtInv
<1>2. /\ run.kind \in {"front", "back"}
      /\ attack'.path = attack.path /\ attack'.out = attack.out
      /\ attack'.guarded = attack.guarded
      /\ attack'.stage = IF run.kind = "front" THEN "missed" ELSE attack.stage
  BY <1>1, FailedIs
<1>3. /\ attack'.stage \in {"missed", "open"}
      /\ attack'.stage = "open" => attack.stage = "open"
  BY <1>1, <1>2 DEF StagesAgree
<1>4. (attack.stage = "open" /\ attack.guarded) => Exactly(Excess(run.saved.balance), attack.out)
  BY <1>1, <1>2 DEF BoughtInv
<1>5. Exactly(Excess(run.saved.balance), attack.out) => Exactly(Excess(balance), attack.out)'
  BY <1>1, <1>2 DEF Exactly, Excess, OnePool, Target
<1> QED
  BY <1>1, <1>2, <1>3, <1>4, <1>5 DEF BoughtInv

LEMMA BoughtHop ==
  ASSUME ContractInv, StagesAgree, BoughtInv, Hop
  PROVE  BoughtInv'
<1> DEFINE in == TokenAt(attack.path, Forwards, run.leg)
           out == TokenAt(attack.path, Forwards, run.leg + 1)
           T == Target(attack.path)
           before == InFlight(Contract, T)
           then == InFlight(Contract, T)'
<1>1. CASE Revert
  BY <1>1, BoughtRevert DEF Hop, InLegs
<1>2. CASE ~Revert
  <2>1. /\ run # NoRun /\ run \in Runs
        /\ run' \in Runs /\ run' # NoRun /\ run'.kind = run.kind /\ run'.saved = run.saved
        /\ UNCHANGED <<attack, aside>>
        /\ \A h, t : InFlight(h, t)' = IF h = run'.from /\ t = out THEN run'.amount ELSE 0
        /\ \A t \in Tokens :
             balance'[Contract][t] =
               balance[Contract][t]
                 - (IF run.from = Contract /\ t = in THEN run.amount ELSE 0)
                 + (IF run'.from = Contract /\ t = out THEN run'.amount ELSE 0)
    BY <1>2, WhatAHopDoes
  <2>2. before = IF run.from = Contract /\ T = in THEN run.amount ELSE 0
    BY <2>1 DEF InFlight
  <2>3. then = IF run'.from = Contract /\ T = out THEN run'.amount ELSE 0
    <3>1. T' = T
      BY <2>1 DEF Target
    <3> QED
      BY <2>1, <3>1
  <2>4. before \in Int /\ then \in Int
    BY <2>1, <2>2, <2>3 DEF Runs
  <2> SUFFICES ASSUME attack # NoAttack, ~Circular(attack.path)
               PROVE  BoughtInv'
    BY <2>1 DEF BoughtInv
  <2>5. T \in Tokens /\ balance[Contract][T] \in Int /\ aside[T] \in Int
    BY TargetOf
  <2> HIDE DEF in, out, T
  <2>6. balance'[Contract][T] = balance[Contract][T] - before + then
    BY <2>1, <2>2, <2>3, <2>5
  <2> HIDE DEF before, then
  <2>7. Excess(balance)' = balance'[Contract][T] - aside[T]
    BY <2>1 DEF Excess, T, Target
  <2>8. Excess(balance) = balance[Contract][T] - aside[T]
    BY DEF Excess, T
  <2>9. Excess(run.saved.balance)' = Excess(run.saved.balance)
    BY <2>1 DEF Excess, Target
  <2>10. Excess(balance) = before => Excess(balance)' = then
    BY <2>4, <2>5, <2>6, <2>7, <2>8
  <2>11. Exactly(Excess(balance), before) => Exactly(Excess(balance)', then)
    BY <2>1, <2>4, <2>5, <2>6, <2>7, <2>8 DEF Exactly
  <2>12. OnePool' = OnePool
    BY <2>1 DEF OnePool
  <2>13. attack.stage # "closed"
    BY <2>1 DEF StagesAgree, Runs
  <2>14. (attack.stage \in {"probed", "planned"}) =>
           Excess(balance)' = InFlight(Contract, Target(attack.path))' /\ Excess(run.saved.balance)' = 0
    BY <2>1, <2>9, <2>10 DEF BoughtInv, before, then, T
  <2>15. (attack.stage = "open" /\ attack.guarded) =>
           /\ Exactly(Excess(run.saved.balance), attack.out)
           /\ Exactly(Excess(balance), before)
    BY <2>1 DEF BoughtInv, before, T
  <2>16. (attack.stage = "open" /\ attack.guarded) =>
           /\ Exactly(Excess(run.saved.balance), attack.out)'
           /\ Exactly(Excess(balance), InFlight(Contract, Target(attack.path)))'
    BY <2>1, <2>9, <2>11, <2>12, <2>15 DEF Exactly, then, T
  <2> QED
    BY <2>1, <2>13, <2>14, <2>16 DEF BoughtInv
<1> QED
  BY <1>1, <1>2

(* At rest, and in a transaction that spends another token first, nothing of
   the target token is on its way.                                         *)
LEMMA BoughtProbe ==
  ASSUME ContractInv, NEW path \in Paths, NEW amount \in AmountsIn, Probe(path, amount)
  PROVE  BoughtInv'
<1>1. /\ run' # NoRun /\ run'.kind = "probe" /\ run'.leg = 1 /\ run'.from = Contract
      /\ run'.saved.balance = balance /\ UNCHANGED balance
  BY CallIs, AmountsAreUnsigned DEF Probe
<1>2. attack'.path = path /\ attack'.stage = "probed" /\ aside' = balance[Contract]
  BY DEF Probe
<1> SUFFICES ASSUME ~Circular(path)
             PROVE  BoughtInv'
  BY <1>2 DEF BoughtInv
<1> DEFINE T == Target(path)
<1>3. /\ T \in Tokens /\ TokenAt(path, TRUE, 1) # T
  BY EndsOfRoute DEF Circular
<1>4. balance[Contract][T] \in Int
  BY <1>3 DEF ContractInv, ContractTypes, Ledgers
<1>5. InFlight(Contract, Target(attack.path))' = 0
  <2>1. TokenAt(attack.path, Forwards, run.leg)' = TokenAt(path, TRUE, 1)
    BY <1>1, <1>2 DEF TokenAt, Forwards
  <2>2. Target(attack.path)' = T
    BY <1>2 DEF Target
  <2> QED
    BY <1>3, <2>1, <2>2 DEF InFlight
<1>6. Excess(balance)' = 0 /\ Excess(run.saved.balance)' = 0
  <2>1. Target(attack.path)' = T
    BY <1>2 DEF Target
  <2> HIDE DEF T
  <2> QED
    BY <1>1, <1>2, <1>4, <2>1 DEF Excess
<1> QED
  BY <1>2, <1>5, <1>6 DEF BoughtInv

LEMMA BoughtEndProbe ==
  ASSUME ContractInv, StagesAgree, BoughtInv, NEW guarded \in BOOLEAN, EndProbe(guarded)
  PROVE  BoughtInv'
<1>1. /\ run # NoRun /\ run.kind = "probe" /\ attack # NoAttack /\ attack \in Attacks
      /\ run' = NoRun /\ balance' = run.saved.balance /\ aside' = aside
  BY DEF EndProbe, AtEnd, ContractInv, ContractTypes, OnItsWay
<1>2. attack'.path = attack.path /\ attack'.stage = "planned"
  BY <1>1 DEF EndProbe, Attacks
<1> SUFFICES ASSUME ~Circular(attack.path)
             PROVE  BoughtInv'
  BY <1>2 DEF BoughtInv
<1>3. Excess(run.saved.balance) = 0
  BY <1>1 DEF BoughtInv, StagesAgree
<1>4. Excess(balance)' = 0
  BY <1>1, <1>2, <1>3 DEF Excess, Target
<1>5. InFlight(Contract, Target(attack.path))' = 0
  BY <1>1 DEF InFlight
<1> QED
  BY <1>1, <1>2, <1>4, <1>5 DEF BoughtInv

LEMMA BoughtFrontRun ==
  ASSUME ContractInv, BoughtInv, FrontRun
  PROVE  BoughtInv'
<1>1. run = NoRun /\ attack \in Attacks /\ attack # NoAttack /\ attack.stage = "planned"
  BY DEF FrontRun, ContractInv, ContractTypes
<1>2. CASE PoolAsPlanned
  <2>1. Call("front", attack.guarded, attack.in) /\ UNCHANGED <<attack, aside>>
    BY <1>2 DEF FrontRun
  <2>2. /\ run' # NoRun /\ run'.kind = "front" /\ run'.leg = 1 /\ run'.from = Contract
        /\ run'.saved.balance = balance /\ UNCHANGED balance
    BY <1>1, <2>1, CallIs, AmountsAreUnsigned DEF Attacks
  <2> SUFFICES ASSUME ~Circular(attack.path)
               PROVE  BoughtInv'
    BY <2>1 DEF BoughtInv
  <2>3. Excess(balance) = 0
    BY <1>1 DEF BoughtInv, InFlight
  <2>4. Excess(balance)' = 0 /\ Excess(run.saved.balance)' = 0
    BY <2>1, <2>2, <2>3 DEF Excess, Target
  <2>5. InFlight(Contract, Target(attack.path))' = 0
    <3>1. TokenAt(attack.path, TRUE, 1) # Target(attack.path)
      BY <1>1, EndsOfRoute DEF Circular, Attacks
    <3>2. TokenAt(attack.path, Forwards, run.leg)' = TokenAt(attack.path, TRUE, 1)
      BY <2>1, <2>2 DEF TokenAt, Forwards
    <3>3. Target(attack.path)' = Target(attack.path)
      BY <2>1 DEF Target
    <3> QED
      BY <3>1, <3>2, <3>3 DEF InFlight
  <2> QED
    BY <1>1, <2>1, <2>4, <2>5 DEF BoughtInv
<1>3. CASE ~PoolAsPlanned
  <2>1. attack' = Fails("front")
    BY <1>3 DEF FrontRun, Refuse
  <2>2. attack' # NoAttack => attack'.stage = "missed"
    BY <1>1, <2>1, FailedIs
  <2> QED
    BY <2>2 DEF BoughtInv
<1> QED
  BY <1>2, <1>3

(* The tests of sandwichFrontRunDifficult: no less than planned, and with
   one pool, whose balance was as planned, no more.                        *)
LEMMA BoughtEndFrontRun ==
  ASSUME ContractInv, StagesAgree, BoughtInv, PricedInv, EndFrontRun
  PROVE  BoughtInv'
<1>1. /\ attack \in Attacks /\ attack # NoAttack /\ run # NoRun /\ run \in Runs
      /\ run.kind = "front" /\ run.leg > Len(attack.path.pools)
      /\ run.leg \in 1 .. Len(attack.path.pools) + 1
  BY DEF EndFrontRun, AtEnd, ContractInv, ContractTypes, OnItsWay
<1>2. CASE ~Suffices(run.amount)
  BY <1>1, <1>2, BoughtRevert DEF EndFrontRun
<1>3. CASE Suffices(run.amount)
  <2>1. /\ run' = NoRun /\ UNCHANGED <<balance, aside>>
        /\ attack' = [attack EXCEPT !.stage = "open", !.bought = TRUE]
    BY <1>3 DEF EndFrontRun
  <2>2. /\ attack'.path = attack.path /\ attack'.out = attack.out /\ attack'.stage = "open"
        /\ attack'.guarded = attack.guarded
    BY <1>1, <2>1 DEF Attacks
  <2> SUFFICES ASSUME ~Circular(attack.path), attack.guarded
               PROVE  Exactly(Excess(balance), attack.out)'
    BY <2>1, <2>2 DEF BoughtInv
  <2>3. attack.path \in Paths /\ Len(attack.path.pools) \in Nat \ {0}
    BY <1>1, TargetOf
  <2>4. run.leg = Len(attack.path.pools) + 1
    BY <1>1, <2>3
  <2>5. run.from = Contract
    BY <1>1, <2>3, <2>4 DEF ContractInv, OnItsWay
  <2>6. TokenAt(attack.path, Forwards, run.leg) = Target(attack.path)
    BY <1>1, <2>3, <2>4, EndsOfRoute DEF Forwards
  <2>7. InFlight(Contract, Target(attack.path)) = run.amount
    BY <1>1, <2>5, <2>6 DEF InFlight
  <2>8. Excess(balance) = run.amount
    BY <1>1, <2>7 DEF BoughtInv, StagesAgree
  <2>9. run.amount >= attack.out /\ run.amount \in Int /\ attack.out \in Int
    BY <1>1, <1>3 DEF Suffices, Runs, Attacks
  <2>10. OnePool => run.amount <= attack.out
    <3> SUFFICES ASSUME OnePool
                 PROVE  run.amount <= attack.out
      OBVIOUS
    <3>1. /\ run.amount = BringsNow(run.saved.book)
          /\ PlanIsFrom(run.saved.book)
          /\ run.saved.book[LastPool(attack.path)][Target(attack.path)] = attack.poolBalance
      BY <1>1, <2>3, <2>4 DEF PricedInv
    <3>2. run.saved.book \in Books /\ Solvent(run.saved.book)
      BY <1>1 DEF Runs, ContractInv, SavedIsSound
    <3> QED
      BY <1>1, <3>1, <3>2, NoMoreThanPlanned
  <2>11. Exactly(Excess(balance), attack.out)
    BY <2>8, <2>9, <2>10 DEF Exactly
  <2> QED
    BY <2>1, <2>2, <2>11 DEF Exactly, Excess, OnePool, Target
<1> QED
  BY <1>2, <1>3

LEMMA BoughtBackRun ==
  ASSUME ContractInv, StagesAgree, BoughtInv,
         BackRunWithBloxroute \/ BackRun \/ \E onTime \in BOOLEAN : BackRunDifficult(onTime)
  PROVE  BoughtInv'
<1>1. /\ run = NoRun /\ attack \in Attacks /\ attack # NoAttack
      /\ attack.stage \in {"open", "missed"}
      /\ \/ Refuse("back")
         \/ \E guarded \in BOOLEAN :
              Call("back", guarded, attack.out) /\ UNCHANGED <<attack, aside>>
  BY BackRunsAre
<1>2. (~Circular(attack.path) /\ attack.stage = "open" /\ attack.guarded) =>
         Exactly(Excess(balance), attack.out)
  BY <1>1 DEF BoughtInv
<1>3. CASE Refuse("back")
  <2>1. attack' = Fails("back") /\ run' = NoRun /\ UNCHANGED <<balance, aside>>
    BY <1>1, <1>3 DEF Refuse
  <2>2. attack' # NoAttack =>
          /\ attack'.path = attack.path /\ attack'.out = attack.out
          /\ attack'.guarded = attack.guarded /\ attack'.stage = attack.stage
    BY <1>1, <2>1, FailedIs
  <2>3. (attack' # NoAttack /\ Exactly(Excess(balance), attack.out)) =>
          Exactly(Excess(balance), attack.out)'
    BY <2>1, <2>2 DEF Exactly, Excess, OnePool, Target
  <2>4. attack' # NoAttack => Circular(attack.path)' = Circular(attack.path)
    BY <2>2 DEF Circular, Start, Target
  <2> QED
    BY <1>1, <1>2, <2>1, <2>2, <2>3, <2>4 DEF BoughtInv
<1>4. ASSUME NEW guarded \in BOOLEAN, Call("back", guarded, attack.out), UNCHANGED <<attack, aside>>
      PROVE  BoughtInv'
  <2>1. /\ run' # NoRun /\ run'.kind = "back" /\ run'.leg = 1 /\ run'.amount = attack.out
        /\ run'.from = Contract /\ run'.saved.balance = balance /\ UNCHANGED balance
    BY <1>1, <1>4, CallIs DEF Attacks
  <2>2. Target(attack.path)' = Target(attack.path)
    BY <1>4 DEF Target
  <2>3. TokenAt(attack.path, Forwards, run.leg)' = Target(attack.path)
    <3>1. TokenAt(attack.path, FALSE, 1) = Target(attack.path)
      BY <1>1, EndsOfRoute DEF Attacks
    <3> QED
      BY <1>4, <2>1, <3>1 DEF TokenAt, Forwards
  <2>4. InFlight(Contract, Target(attack.path))' = attack.out
    BY <2>1, <2>2, <2>3 DEF InFlight
  <2>5. Exactly(Excess(balance), attack.out) =>
          /\ Exactly(Excess(run.saved.balance), attack.out)'
          /\ Exactly(Excess(balance), InFlight(Contract, Target(attack.path)))'
    BY <1>4, <2>1, <2>2, <2>4 DEF Exactly, Excess, OnePool
  <2>6. Circular(attack.path)' = Circular(attack.path)
    BY <1>4 DEF Circular, Start, Target
  <2> QED
    BY <1>1, <1>2, <1>4, <2>1, <2>5, <2>6 DEF BoughtInv
<1> QED
  BY <1>1, <1>3, <1>4

LEMMA BoughtEndBackRun ==
  ASSUME ContractInv, StagesAgree, BoughtInv, EndBackRun
  PROVE  BoughtInv'
<1>1. /\ attack \in Attacks /\ attack # NoAttack /\ run # NoRun
      /\ run.kind = "back" /\ run.leg > Len(attack.path.pools)
      /\ run.leg \in 1 .. Len(attack.path.pools) + 1
  BY DEF EndBackRun, AtEnd, ContractInv, ContractTypes, OnItsWay
<1>2. CASE Revert
  BY <1>1, <1>2, BoughtRevert
<1>3. CASE ~Revert
  <2>1. /\ run' = NoRun /\ UNCHANGED <<balance, aside>>
        /\ attack' = [attack EXCEPT !.stage = "closed"]
    BY <1>3 DEF EndBackRun
  <2>2. /\ attack'.path = attack.path /\ attack'.stage = "closed"
        /\ attack'.guarded = attack.guarded /\ attack'.bought = attack.bought
    BY <1>1, <2>1 DEF Attacks
  <2> SUFFICES ASSUME ~Circular(attack.path), attack.guarded, attack.bought
               PROVE  Exactly(Excess(balance), 0)'
    BY <2>1, <2>2 DEF BoughtInv
  <2>3. attack.stage = "open"
    BY <1>1 DEF StagesAgree
  <2>4. attack.path \in Paths /\ Len(attack.path.pools) \in Nat \ {0}
    BY <1>1, TargetOf
  <2>5. run.leg = Len(attack.path.pools) + 1
    BY <1>1, <2>4
  <2>6. TokenAt(attack.path, Forwards, run.leg) # Target(attack.path)
    BY <1>1, <2>4, <2>5, EndsOfRoute DEF Forwards, Circular
  <2>7. InFlight(Contract, Target(attack.path)) = 0
    BY <1>1, <2>6 DEF InFlight
  <2>8. Exactly(Excess(balance), 0)
    BY <1>1, <2>3, <2>7 DEF BoughtInv
  <2> QED
    BY <2>1, <2>2, <2>8 DEF Exactly, Excess, OnePool, Target
<1> QED
  BY <1>2, <1>3

(* While others trade the contract holds what it held; what the owner moves
   is set aside, or no longer.                                             *)
LEMMA BoughtMeanwhile ==
  ASSUME ContractInv, BoughtInv, attack # NoAttack, run = NoRun, run' = NoRun, attack' = attack,
         Excess(balance)' = Excess(balance)
  PROVE  BoughtInv'
<1>1. /\ InFlight(Contract, Target(attack.path)) = 0
      /\ InFlight(Contract, Target(attack.path))' = 0
  BY DEF InFlight
<1>2. \A n : Exactly(Excess(balance), n) => Exactly(Excess(balance)', n)
  BY DEF Exactly
<1>3. OnePool' = OnePool /\ Circular(attack.path)' = Circular(attack.path)
  BY DEF OnePool, Circular, Start, Target
<1> QED
  BY <1>1, <1>2, <1>3 DEF BoughtInv, Exactly

LEMMA BoughtOthers ==
  ASSUME ContractInv, BoughtInv, NEW q \in PoolAddresses, NEW amount \in Trades,
         NEW in \in Coins[q], NEW out \in Coins[q] \ {in}, OthersSwap(q, in, out, amount)
  PROVE  BoughtInv'
<1>1. /\ attack # NoAttack /\ run = NoRun /\ run' = NoRun /\ UNCHANGED <<attack, aside>>
  BY DEF OthersSwap, Meanwhile
<1>2. balance'[Contract] = balance[Contract]
  BY ContractIsNoPool DEF OthersSwap, ContractInv, ContractTypes, Ledgers
<1>3. Excess(balance)' = Excess(balance)
  BY <1>1, <1>2 DEF Excess, Target
<1> QED
  BY <1>1, <1>3, BoughtMeanwhile

LEMMA BoughtTransfer ==
  ASSUME ContractInv, BoughtInv, NEW t \in Tokens, NEW amount \in Trades,
         deposit(t, amount) \/ withdraw(t, amount)
  PROVE  BoughtInv'
<1>1. attack # NoAttack /\ run = NoRun /\ run' = NoRun /\ attack' = attack
  BY DEF deposit, withdraw, Meanwhile
<1>2. PICK change \in Int :
        /\ balance'[Contract][t] = balance[Contract][t] + change
        /\ aside'[t] = aside[t] + change
        /\ \A u \in Tokens \ {t} :
             balance'[Contract][u] = balance[Contract][u] /\ aside'[u] = aside[u]
  <2>1. balance \in Ledgers /\ aside \in [Tokens -> Int] /\ amount \in Int /\ -amount \in Int
    BY AmountsAreUnsigned DEF ContractInv, ContractTypes
  <2>2. Arriving(t, amount) \in Int
    BY ArrivingIsPart, AmountsAreUnsigned
  <2>3. CASE deposit(t, amount)
    BY <2>1, <2>2, <2>3 DEF deposit, Ledgers
  <2>4. CASE withdraw(t, amount)
    <3>1. /\ balance'[Contract][t] = balance[Contract][t] + (-amount)
          /\ aside'[t] = aside[t] + (-amount)
      BY <2>1, <2>4 DEF withdraw, Ledgers
    <3>2. \A u \in Tokens \ {t} :
             balance'[Contract][u] = balance[Contract][u] /\ aside'[u] = aside[u]
      BY <2>1, <2>4 DEF withdraw, Ledgers
    <3> QED
      BY <2>1, <3>1, <3>2
  <2> QED
    BY <2>3, <2>4
<1> DEFINE T == Target(attack.path)
<1>3. T \in Tokens /\ balance[Contract][T] \in Int /\ aside[T] \in Int
  BY <1>1, TargetOf
<1>4. Target(attack.path)' = T
  BY <1>1 DEF Target
<1> HIDE DEF T
<1>5. balance'[Contract][T] - aside'[T] = balance[Contract][T] - aside[T]
  BY <1>2, <1>3
<1>6. Excess(balance)' = Excess(balance)
  BY <1>4, <1>5 DEF Excess, T
<1> QED
  BY <1>1, <1>6, BoughtMeanwhile

LEMMA BoughtKept ==
  ASSUME ContractInv, StagesAgree, BoughtInv, PricedInv, ContractNext
  PROVE  BoughtInv'
<1>1. CASE GiveUp
  BY <1>1 DEF GiveUp, BoughtInv
<1> QED
  BY <1>1, BoughtHop, BoughtProbe, BoughtEndProbe, BoughtFrontRun, BoughtEndFrontRun,
     BoughtBackRun, BoughtEndBackRun, BoughtOthers, BoughtTransfer DEF ContractNext

LEMMA TradeInvIsKept == TradeInv /\ [ContractNext]_contractVars => TradeInv'
<1> SUFFICES ASSUME TradeInv, [ContractNext]_contractVars
             PROVE  TradeInv'
  OBVIOUS
<1>1. CASE ContractNext
  BY <1>1, ContractInvIsKept, StagesKept, BoughtKept, PricedKept DEF TradeInv
<1>2. CASE UNCHANGED contractVars
  <2>1. ContractInv'
    BY <1>2, ContractInvIsKept DEF TradeInv
  <2>2. UNCHANGED <<balance, book, attack, run, aside>>
    BY <1>2 DEF contractVars
  <2>3. StagesAgree'
    BY <2>2 DEF TradeInv, StagesAgree
  <2>4. BoughtInv'
    BY <2>2 DEF TradeInv, BoughtInv, Exactly, Excess, OnePool, InFlight, Forwards, TokenAt,
         Circular, Start, Target
  <2>5. PricedInv'
    BY <2>2 DEF TradeInv, PricedInv, PlanIsFrom, BringsNow, OnePool, LastPool, Start, Target
  <2> QED
    BY <2>1, <2>3, <2>4, <2>5 DEF TradeInv
<1> QED
  BY <1>1, <1>2

LEMMA TradeInvAtFirst == ContractInit => TradeInv
BY ContractInvAtFirst DEF ContractInit, TradeInv, StagesAgree, BoughtInv, PricedInv

(***************************************************************************)
(* Whatever the exchanges, the fees, the taxes, the paths and the trades   *)
(* of others are, the back run of a guarded front run sells no tokens but  *)
(* those it bought, and with a single pool all of them: a pool brings no   *)
(* more for the same amount when it holds as much of the target token and  *)
(* no less of the other, and others' trades never make the product of the  *)
(* two less.                                                               *)
(***************************************************************************)
THEOREM BackRunsSellWhatWasBought == ContractSpec => []SellsWhatItBought
<1>1. TradeInv => SellsWhatItBought
  BY DEF TradeInv, BoughtInv, SellsWhatItBought, Undone, Exactly, Excess, OnePool
<1> QED
  BY <1>1, TradeInvAtFirst, TradeInvIsKept, PTL DEF ContractSpec

-----------------------------------------------------------------------------
(* What a pair gives.                                                      *)

LEMMA PairGives ==
  ASSUME NEW x \in Nat \ {0}, NEW y \in Nat \ {0}, NEW a \in Nat
  PROVE  /\ AmountOut(a, x, y) \in Nat
         /\ AmountOut(a, x, y) < y
         /\ (x * 1000 + a * 997) * AmountOut(a, x, y) <= a * 997 * y
<1> DEFINE r == x * 1000
           n == a * 997
<1>1. r \in Nat \ {0} /\ n \in Nat /\ r + n \in Nat \ {0}
  OBVIOUS
<1>2. AmountOut(a, x, y) = (n * y) \div (r + n)
  BY DEF AmountOut
<1>3. r * 1 = r /\ n * y \in Int
  BY <1>1
<1> HIDE DEF r, n
<1>4. (n * y) \div (r + n) \in Nat /\ (n * y) \div (r + n) < y
  BY <1>1, PaysLess
<1>5. (r + n) * ((n * y) \div (r + n)) <= n * y
  BY <1>1, <1>3, DivisionRounds
<1> QED
  BY <1>2, <1>4, <1>5 DEF r, n

LEMMA FairSwap ==
  ASSUME NEW x \in Nat \ {0}, NEW y \in Nat \ {0}, NEW a \in Nat,
         NEW w \in Nat, w < y, (x * 1000 + a * 997) * w <= a * 997 * y
  PROVE  x * y <= (x + a) * (y - w)
<1>1. /\ x * w \in Nat /\ a * w \in Nat /\ a * y \in Nat /\ a * w <= a * y
      /\ (x * 1000 + a * 997) * w = 1000 * (x * w) + 997 * (a * w)
      /\ a * 997 * y = 997 * (a * y)
  OBVIOUS
<1>2. (x + a) * (y - w) = x * y + a * y - x * w - a * w
  OBVIOUS
<1> DEFINE p == x * w
           q == a * w
           r == a * y
           s == x * y
<1>3. p \in Nat /\ q \in Nat /\ r \in Nat /\ s \in Nat /\ q <= r /\ 1000 * p + 997 * q <= 997 * r
  BY <1>1
<1>4. (x + a) * (y - w) = s + r - p - q
  BY <1>2
<1> HIDE DEF p, q, r, s
<1>5. p + q <= r
  BY <1>3
<1>6. s <= s + r - p - q
  BY <1>3, <1>5
<1> QED
  BY <1>4, <1>6 DEF s

(* What came of a swap is never worth more on the way back.                *)
LEMMA BackIsNoMore ==
  ASSUME NEW x \in Nat \ {0}, NEW y \in Nat \ {0}, NEW in \in Nat, NEW a \in Nat, NEW w \in Nat,
         (x - in) * (y + a) <= x * y, y * x <= (y + a) * (x - w)
  PROVE  w <= in
<1> SUFFICES ASSUME in < w
             PROVE  FALSE
  OBVIOUS
<1> DEFINE m == x - in
           k == x - w
           n == y + a
<1>1. m \in Int /\ k \in Int /\ n \in Nat \ {0} /\ k + 1 <= m
  OBVIOUS
<1>2. m * n <= n * k
  BY ONLY x \in Nat \ {0}, y \in Nat \ {0}, m * n <= x * y, y * x <= n * k, m \in Int, n \in Nat, k \in Int
<1> HIDE DEF m, k, n
<1>3. n * k + n <= m * n
  <2>1. n * (k + 1) <= n * m
    BY <1>1
  <2> QED
    BY <1>1, <2>1
<1> QED
  BY <1>1, <1>2, <1>3

(* The formula's amount is the pool's, rounded up.                         *)
LEMMA FormulaRoundsUp ==
  ASSUME NEW x \in Nat \ {0}, NEW y \in Nat \ {0}, NEW a \in Nat
  PROVE  OptimalAmountOut(a, 1000, 3, x, y) - AmountOut(a, x, y) \in {0, 1}
<1> DEFINE d == x * 1000 + a * 997
           n == a * 997 * y
           up == (x * y * 1000) \div d
           down == n \div d
<1>1. d \in Nat \ {0} /\ n \in Nat /\ x * y * 1000 \in Nat
  OBVIOUS
<1>2. x * y * 1000 = d * y - n
  OBVIOUS
<1>3. OptimalAmountOut(a, 1000, 3, x, y) = y - up
  <2>1. 1000 * (x + a) - 3 * a = d
    OBVIOUS
  <2>2. OptimalAmountOut(a, 1000, 3, x, y) = y - (x * y * 1000) \div (1000 * (x + a) - 3 * a)
    BY <1>1, <2>1 DEF OptimalAmountOut
  <2> QED
    BY <2>1, <2>2
<1>4. AmountOut(a, x, y) = down
  BY DEF AmountOut
<1> HIDE DEF d, n
<1>5. /\ up \in Int /\ d * up <= d * y - n /\ d * y - n < d * up + d
      /\ down \in Int /\ d * down <= n /\ n < d * down + d
  BY <1>1, <1>2, DivisionRounds
<1> HIDE DEF up, down
<1> DEFINE e == y - up - down
<1>6. e \in Int /\ d * e = d * y - d * up - d * down
  BY <1>1, <1>5
<1>7. 0 <= d * e /\ d * e < d * 2
  BY <1>1, <1>5, <1>6
<1> HIDE DEF e
<1>8. 0 <= e /\ e < 2
  BY <1>1, <1>6, <1>7
<1>9. e \in {0, 1}
  BY <1>6, <1>8
<1> QED
  BY <1>3, <1>4, <1>9 DEF e

-----------------------------------------------------------------------------
(* The swaps.                                                              *)

(* What a swap of a pair is, and that it is fair.                          *)
FairlyPaid(i, j, amount, out) ==
  /\ pool' = [pool EXCEPT !.balances = Reflected(pool.balances, i, j, amount, out)]
  /\ swaps' = Append(swaps, [from |-> i, to |-> j, in |-> amount, out |-> out])
  /\ out < pool.balances[j]
  /\ pool.balances[i] * pool.balances[j]
       <= (pool.balances[i] + amount) * (pool.balances[j] - out)

LEMMA PairSwaps ==
  ASSUME PairInv, V2, NEW i \in DOMAIN pool.balances, NEW j \in DOMAIN pool.balances,
         NEW amount \in SwapAmounts, Swap(i, j, amount)
  PROVE  /\ V2'
         /\ i \in 1 .. 2 /\ j \in 1 .. 2 /\ i # j /\ amount \in Nat
         /\ \E out \in Nat : FairlyPaid(i, j, amount, out)
<1> DEFINE X == pool.balances[i]
           Y == pool.balances[j]
           out == AmountOut(amount, X, Y)
<1>1. i \in 1 .. 2 /\ j \in 1 .. 2 /\ i # j /\ X \in Nat \ {0} /\ Y \in Nat \ {0}
  BY DEF PairInv, PairHolds, Swap
<1>2. amount \in Nat
  <2>1. CASE swaps = <<>>
    BY <2>1, SwapsAssumption DEF SwapAmounts
  <2>2. CASE swaps # <<>>
    <3>1. Last(swaps) = swaps[Len(swaps)] /\ Len(swaps) \in DOMAIN swaps
      BY <2>2 DEF PairInv, Last
    <3>2. swaps[Len(swaps)] \in OneSwap
      <4> HIDE DEF V2
      <4> QED
        BY <3>1 DEF PairInv
    <3> QED
      BY <2>2, <3>1, <3>2, SwapsAssumption DEF SwapAmounts, OneSwap
  <2> QED
    BY <2>1, <2>2
<1>3. QuoteOf(pool, i, j, amount) = out
  BY DEF QuoteOf, V2
<1> HIDE DEF X, Y, out
<1>4. out \in Nat /\ out < Y /\ (X * 1000 + amount * 997) * out <= amount * 997 * Y
  <2> DEFINE Gives(x, y, a, w) == w \in Nat /\ w < y /\ (x * 1000 + a * 997) * w <= a * 997 * y
  <2>1. \A x, y \in Nat \ {0}, a \in Nat : Gives(x, y, a, AmountOut(a, x, y))
    BY PairGives
  <2> HIDE DEF Gives
  <2>2. Gives(X, Y, amount, out)
    BY <1>1, <1>2, <2>1 DEF out
  <2> QED
    BY <2>2 DEF Gives
<1>5. X * Y <= (X + amount) * (Y - out)
  BY <1>1, <1>2, <1>4, FairSwap
<1>6. /\ pool' = [pool EXCEPT !.balances = Reflected(@, i, j, amount, out)]
      /\ swaps' = Append(swaps, [from |-> i, to |-> j, in |-> amount, out |-> out])
  BY <1>3 DEF Swap, PaidOut
<1>7. pool' = [pool EXCEPT !.balances = Reflected(pool.balances, i, j, amount, out)]
  BY <1>6
<1>8. V2'
  BY <1>7 DEF PairInv, V2
<1>9. FairlyPaid(i, j, amount, out)
  BY <1>4, <1>5, <1>6, <1>7 DEF X, Y, FairlyPaid
<1> QED
  BY <1>1, <1>2, <1>4, <1>8, <1>9

(* The reserves after it.                                                  *)
LEMMA ReflectedIs ==
  ASSUME NEW b \in (Nat \ {0}) \X (Nat \ {0}), NEW i \in 1 .. 2, NEW j \in 1 .. 2, i # j,
         NEW in \in Nat, NEW out \in Nat, out < b[j]
  PROVE  /\ Reflected(b, i, j, in, out) \in (Nat \ {0}) \X (Nat \ {0})
         /\ Reflected(b, i, j, in, out)[i] = b[i] + in
         /\ Reflected(b, i, j, in, out)[j] = b[j] - out
<1>1. DOMAIN b = 1 .. 2 /\ b[1] \in Nat \ {0} /\ b[2] \in Nat \ {0} /\ b = <<b[1], b[2]>>
  OBVIOUS
<1>2. CASE i = 1 /\ j = 2
  <2>1. Reflected(b, i, j, in, out) = <<b[1] + in, b[2] - out>>
    BY <1>1, <1>2 DEF Reflected
  <2> QED
    BY <1>1, <1>2, <2>1
<1>3. CASE i = 2 /\ j = 1
  <2>1. Reflected(b, i, j, in, out) = <<b[1] - out, b[2] + in>>
    BY <1>1, <1>3 DEF Reflected
  <2> QED
    BY <1>1, <1>3, <2>1
<1> QED
  BY <1>2, <1>3

LEMMA PairAfter ==
  ASSUME PairInv, V2, NEW i \in 1 .. 2, NEW j \in 1 .. 2, i # j,
         NEW in \in Nat, NEW out \in Nat, out < pool.balances[j],
         pool' = [pool EXCEPT !.balances = Reflected(pool.balances, i, j, in, out)]
  PROVE  /\ DOMAIN pool' = DOMAIN pool
         /\ PairHolds'
         /\ pool'.balances[i] = pool.balances[i] + in
         /\ pool'.balances[j] = pool.balances[j] - out
<1>1. pool'.balances = Reflected(pool.balances, i, j, in, out)
  BY DEF PairInv
<1>2. pool.balances \in (Nat \ {0}) \X (Nat \ {0})
  BY DEF PairInv, PairHolds
<1> DEFINE b == pool.balances
<1>3. b \in (Nat \ {0}) \X (Nat \ {0}) /\ out < b[j]
  BY <1>2
<1>4. \A c \in (Nat \ {0}) \X (Nat \ {0}), o \in Nat : o < c[j] =>
        /\ Reflected(c, i, j, in, o) \in (Nat \ {0}) \X (Nat \ {0})
        /\ Reflected(c, i, j, in, o)[i] = c[i] + in
        /\ Reflected(c, i, j, in, o)[j] = c[j] - o
  BY ReflectedIs
<1> QED
  BY <1>1, <1>3, <1>4 DEF PairHolds

LEMMA PairInvAtFirst == SwapsInit => PairInv
BY SwapsAssumption DEF SwapsInit, PairInv, PairHolds, LastSwapWasFair, V2

LEMMA PairInvIsKept == PairInv /\ [SwapsNext]_swapVars => PairInv'
<1> SUFFICES ASSUME PairInv, [SwapsNext]_swapVars
             PROVE  PairInv'
  OBVIOUS
<1>1. CASE UNCHANGED swapVars
  BY <1>1 DEF swapVars, PairInv, PairHolds, LastSwapWasFair, V2
<1>2. CASE SwapsNext
  <2>1. PICK i, j \in DOMAIN pool.balances, amount \in SwapAmounts : Swap(i, j, amount)
    BY <1>2 DEF SwapsNext
  <2>2. {"kind", "balances"} \subseteq DOMAIN pool' /\ DOMAIN pool' = DOMAIN pool /\ (V2' => V2)
    <3>1. pool' = [pool EXCEPT !.balances = Reflected(@, i, j, amount, QuoteOf(pool, i, j, amount))]
      BY <2>1 DEF Swap, PaidOut
    <3>2. DOMAIN pool' = DOMAIN pool /\ pool'.kind = pool.kind
      BY <3>1 DEF PairInv
    <3> QED
      BY <3>2 DEF PairInv, V2
  <2>3. CASE V2
    <3> HIDE DEF V2
    <3>1. i \in 1 .. 2 /\ j \in 1 .. 2 /\ i # j /\ amount \in Nat
      BY <2>1, <2>3, PairSwaps
    <3>2. PICK out \in Nat : FairlyPaid(i, j, amount, out)
      BY <2>1, <2>3, PairSwaps
    <3>3. /\ PairHolds'
          /\ pool'.balances[i] = pool.balances[i] + amount
          /\ pool'.balances[j] = pool.balances[j] - out
      BY <2>3, <3>1, <3>2, PairAfter DEF FairlyPaid
    <3> DEFINE s == [from |-> i, to |-> j, in |-> amount, out |-> out]
    <3>4. s \in OneSwap /\ s.from = i /\ s.to = j /\ s.in = amount /\ s.out = out
      BY <3>1 DEF OneSwap
    <3>5. swaps \in Seq(OneSwap) /\ PairHolds /\ "base" \notin DOMAIN pool
      BY <2>3 DEF PairInv
    <3>6. swaps' = Append(swaps, s)
      BY <3>2 DEF FairlyPaid
    <3> HIDE DEF s
    <3>7. swaps' \in Seq(OneSwap) /\ swaps'[Len(swaps')] = s
      BY <3>4, <3>5, <3>6
    <3>8. LastSwapWasFair'
      <4> DEFINE X == pool.balances[i]
                 Y == pool.balances[j]
      <4>1. X \in Nat /\ Y \in Nat /\ X * Y <= (X + amount) * (Y - out)
        BY <3>1, <3>2, <3>5 DEF PairHolds, FairlyPaid
      <4>2. pool'.balances[i] = X + amount /\ pool'.balances[j] = Y - out
        BY <3>3
      <4> HIDE DEF X, Y
      <4>3. X + amount - amount = X /\ Y - out + out = Y
        BY <3>1, <4>1
      <4>4. ((X + amount) - amount) * ((Y - out) + out) <= (X + amount) * (Y - out)
        BY <3>1, <4>1, <4>3
      <4> QED
        BY <3>4, <3>7, <4>2, <4>4 DEF LastSwapWasFair
    <3> QED
      BY <2>2, <3>3, <3>5, <3>7, <3>8 DEF PairInv
  <2>4. CASE ~V2
    BY <2>2, <2>4 DEF PairInv
  <2> QED
    BY <2>3, <2>4
<1> QED
  BY <1>1, <1>2

LEMMA PairInvHolds == SwapsSpec => []PairInv
BY PairInvAtFirst, PairInvIsKept, PTL DEF SwapsSpec

(***************************************************************************)
(* The formula of formula.py, which says what an attack by way of a pair   *)
(* is worth, never says less than the pair gives and never more than one   *)
(* unit too much, for whatever the pair holds after any number of swaps.   *)
(***************************************************************************)
THEOREM FormulaIsThePairs == SwapsSpec => []FormulaIsWithinOne
<1>1. PairInv => FormulaIsWithinOne
  <2> SUFFICES ASSUME PairInv, pool.kind = "v2", NEW amount \in Lots
               PROVE  OptimalAmountOut(amount, 1000, 3, pool.balances[1], pool.balances[2])
                        - AmountOut(amount, pool.balances[1], pool.balances[2]) \in {0, 1}
    BY DEF FormulaIsWithinOne
  <2> DEFINE x == pool.balances[1]
             y == pool.balances[2]
  <2>1. x \in Nat \ {0} /\ y \in Nat \ {0} /\ amount \in Nat
    BY SwapsAssumption DEF PairInv, PairHolds, V2
  <2> HIDE DEF x, y
  <2>2. OptimalAmountOut(amount, 1000, 3, x, y) - AmountOut(amount, x, y) \in {0, 1}
    BY <2>1, FormulaRoundsUp
  <2> QED
    BY <2>2 DEF x, y
<1> QED
  BY <1>1, PairInvHolds, PTL

(***************************************************************************)
(* The reserves of pairs never lose in product: whatever is swapped, and   *)
(* in whichever order, is paid for (of the pools of Curve see the runs).   *)
(***************************************************************************)
THEOREM PairsNeverLose ==
  ASSUME \A p \in Pools : p.kind = "v2"
  PROVE  SwapsSpec => InvariantNeverFalls
<1>1. SwapsInit => V2
  BY DEF SwapsInit, V2
<1>2. PairInv /\ V2 /\ [SwapsNext]_swapVars =>
        /\ V2'
        /\ [InvariantOf(pool') >= InvariantOf(pool)]_swapVars
  <2> SUFFICES ASSUME PairInv, V2, [SwapsNext]_swapVars
               PROVE  V2' /\ [InvariantOf(pool') >= InvariantOf(pool)]_swapVars
    OBVIOUS
  <2>1. CASE UNCHANGED swapVars
    BY <2>1 DEF swapVars, V2
  <2>2. CASE SwapsNext
    <3>1. PICK i, j \in DOMAIN pool.balances, amount \in SwapAmounts : Swap(i, j, amount)
      BY <2>2 DEF SwapsNext
    <3> HIDE DEF V2
    <3>2. V2' /\ i \in 1 .. 2 /\ j \in 1 .. 2 /\ i # j /\ amount \in Nat
      BY <3>1, PairSwaps
    <3>3. PICK out \in Nat : FairlyPaid(i, j, amount, out)
      BY <3>1, PairSwaps
    <3>4. /\ pool'.balances[i] = pool.balances[i] + amount
          /\ pool'.balances[j] = pool.balances[j] - out
      BY <3>2, <3>3, PairAfter DEF FairlyPaid
    <3>5. /\ InvariantOf(pool) = pool.balances[1] * pool.balances[2]
          /\ InvariantOf(pool') = pool'.balances[1] * pool'.balances[2]
      BY <3>2 DEF InvariantOf, V2
    <3> DEFINE X == pool.balances[i]
               Y == pool.balances[j]
               X2 == pool'.balances[i]
               Y2 == pool'.balances[j]
    <3>6. X \in Nat /\ Y \in Nat /\ X2 \in Int /\ Y2 \in Int /\ X * Y <= X2 * Y2
      BY <3>2, <3>3, <3>4 DEF PairInv, PairHolds, FairlyPaid
    <3>7. \/ i = 1 /\ j = 2 /\ InvariantOf(pool) = X * Y /\ InvariantOf(pool') = X2 * Y2
          \/ i = 2 /\ j = 1 /\ InvariantOf(pool) = Y * X /\ InvariantOf(pool') = Y2 * X2
      BY <3>2, <3>5
    <3> HIDE DEF X, Y, X2, Y2
    <3>8. X * Y = Y * X /\ X2 * Y2 = Y2 * X2
      BY <3>6
    <3> QED
      BY <3>2, <3>6, <3>7, <3>8
  <2> QED
    BY <2>1, <2>2
<1> QED
  BY <1>1, <1>2, PairInvHolds, PTL DEF SwapsSpec, InvariantNeverFalls

(* With LastSwapWasFair, what the last two swaps gave is known: the second *)
(* of a way there and back gives no more than the first one took.          *)
ThereAndBack ==
  Len(swaps) >= 2 =>
    LET there == swaps[Len(swaps) - 1]
        back == swaps[Len(swaps)]
    IN  (back.from = there.to /\ back.to = there.from /\ back.in = there.out) => back.out <= there.in

LEMMA ThereAndBackIsKept ==
  PairInv /\ V2 /\ ThereAndBack /\ [SwapsNext]_swapVars => ThereAndBack'
<1> SUFFICES ASSUME PairInv, V2, ThereAndBack, [SwapsNext]_swapVars
             PROVE  ThereAndBack'
  OBVIOUS
<1>1. CASE UNCHANGED swapVars
  BY <1>1 DEF swapVars, ThereAndBack
<1>2. CASE SwapsNext
  <2>1. PICK i, j \in DOMAIN pool.balances, amount \in SwapAmounts : Swap(i, j, amount)
    BY <1>2 DEF SwapsNext
  <2> HIDE DEF V2
  <2>2. V2' /\ i \in 1 .. 2 /\ j \in 1 .. 2 /\ i # j /\ amount \in Nat
    BY <2>1, PairSwaps
  <2>3. PICK out \in Nat : FairlyPaid(i, j, amount, out)
    BY <2>1, PairSwaps
  <2> DEFINE s == [from |-> i, to |-> j, in |-> amount, out |-> out]
             t == swaps[Len(swaps)]
             X == pool.balances[j]
             Y == pool.balances[i]
  <2>4. s \in OneSwap /\ s.from = i /\ s.to = j /\ s.in = amount /\ s.out = out
    BY <2>2 DEF OneSwap
  <2>5. swaps \in Seq(OneSwap) /\ PairHolds /\ LastSwapWasFair
    BY DEF PairInv
  <2>6. swaps' = Append(swaps, s)
    BY <2>3 DEF FairlyPaid
  <2> HIDE DEF s
  <2>7. Len(swaps') = Len(swaps) + 1 /\ swaps'[Len(swaps')] = s /\ Len(swaps) \in Nat
    BY <2>4, <2>5, <2>6
  <2> SUFFICES ASSUME Len(swaps') >= 2,
                      s.from = t.to, s.to = t.from, s.in = t.out
               PROVE  s.out <= t.in
    <3>1. Len(swaps') >= 2 => swaps'[Len(swaps') - 1] = t
      BY <2>4, <2>5, <2>6, <2>7
    <3> HIDE DEF t
    <3> QED
      BY <2>7, <3>1 DEF ThereAndBack
  <2>8. swaps # <<>> /\ t \in OneSwap
    BY <2>5, <2>7
  <2>9. X \in Nat \ {0} /\ Y \in Nat \ {0} /\ Y * X <= (Y + amount) * (X - out)
    BY <2>2, <2>3, <2>5 DEF FairlyPaid, PairHolds
  <2>10. (X - t.in) * (Y + t.out) <= X * Y
    BY <2>4, <2>5, <2>8 DEF LastSwapWasFair
  <2> DEFINE in == t.in
  <2>11. in \in Nat /\ t.out = amount
    BY <2>4, <2>8 DEF OneSwap
  <2>12. (X - in) * (Y + amount) <= X * Y
    BY <2>10, <2>11
  <2> HIDE DEF X, Y, in
  <2>13. out <= in
    BY <2>2, <2>9, <2>11, <2>12, BackIsNoMore
  <2> QED
    BY <2>4, <2>13 DEF in
<1> QED
  BY <1>1, <1>2

(***************************************************************************)
(* There is nothing to gain of pairs on a way there and back, whatever     *)
(* they hold, whatever is swapped and however often.                       *)
(***************************************************************************)
THEOREM PairsGiveNothingAway ==
  ASSUME \A p \in Pools : p.kind = "v2"
  PROVE  SwapsSpec => []NoGain
<1>1. SwapsInit => V2 /\ ThereAndBack
  BY DEF SwapsInit, V2, ThereAndBack
<1>2. PairInv /\ V2 /\ [SwapsNext]_swapVars => V2'
  <2>1. CASE UNCHANGED swapVars
    BY <2>1 DEF swapVars, V2
  <2>2. CASE SwapsNext
    BY <2>2, PairSwaps DEF SwapsNext
  <2> QED
    BY <2>1, <2>2
<1>3. PairInv /\ V2 /\ ThereAndBack => NoGain
  BY DEF PairInv, ThereAndBack, NoGain, NothingBackAndForth, NothingThroughTheBase, Last
<1> QED
  BY <1>1, <1>2, <1>3, ThereAndBackIsKept, PairInvHolds, PTL DEF SwapsSpec

-----------------------------------------------------------------------------
(* Sums over finite sets.                                                  *)

LEMMA SetInduction ==
  ASSUME NEW S, IsFiniteSet(S), NEW K \in SUBSET SUBSET S, {} \in K,
         \A T \in SUBSET S : (T # {} /\ \A x \in T : T \ {x} \in K) => T \in K
  PROVE  K = SUBSET S
<1> DEFINE Done == {n \in Nat : \A T \in SUBSET S : Cardinality(T) = n => T \in K}
<1>1. 0 \in Done
  BY FS_EmptySet, FS_Subset DEF Done
<1>2. ASSUME NEW n \in Done
      PROVE  n + 1 \in Done
  <2> SUFFICES ASSUME NEW T \in SUBSET S, Cardinality(T) = n + 1
               PROVE  T \in K
    BY DEF Done
  <2>1. n \in Nat /\ IsFiniteSet(T) /\ T # {}
    BY FS_Subset, FS_EmptySet DEF Done
  <2>2. ASSUME NEW x \in T
        PROVE  T \ {x} \in K
    <3>1. Cardinality(T \ {x}) = (n + 1) - 1
      BY <2>1, FS_RemoveElement
    <3>2. Cardinality(T \ {x}) = n /\ T \ {x} \in SUBSET S
      BY <2>1, <3>1
    <3> QED
      BY <3>2 DEF Done
  <2> QED
    BY <2>1, <2>2
<1>3. Done = Nat
  <2>1. Done \in SUBSET Nat
    BY DEF Done
  <2> HIDE DEF Done
  <2> QED
    BY <1>1, <1>2, <2>1, Induction
<1>4. ASSUME NEW T \in SUBSET S
      PROVE  T \in K
  <2>1. Cardinality(T) \in Nat
    BY FS_Subset, FS_CardinalityType
  <2> QED
    BY <1>3, <2>1 DEF Done
<1> QED
  BY <1>4

(* A sum over a set, by the sums over its subsets.                         *)
Chosen(s) == CHOOSE p \in s : TRUE

SumsOf(S, g) ==
  [s \in SUBSET S |-> IF s = {} THEN 0 ELSE Chosen(s).liquidity + g[s \ {Chosen(s)}]]

LEMMA ChosenIsOne ==
  ASSUME NEW s, s # {}
  PROVE  Chosen(s) \in s
BY DEF Chosen

LEMMA LiquidityIs ==
  ASSUME NEW S
  PROVE  Liquidity(S) = (CHOOSE g : g = SumsOf(S, g))[S]
BY DEF Liquidity, MapThenSumSet, MapThenFoldSet, SumsOf, Chosen

LEMMA SumsExist ==
  ASSUME NEW S, IsFiniteSet(S)
  PROVE  \E g : g = SumsOf(S, g)
<1> DEFINE Upto(n) == {s \in SUBSET S : Cardinality(s) <= n}
           Sums(n, g) ==
             [s \in Upto(n) |-> IF s = {} THEN 0 ELSE Chosen(s).liquidity + g[s \ {Chosen(s)}]]
           Done == {n \in Nat : \E g : g = Sums(n, g)}
<1>1. \A s \in SUBSET S : IsFiniteSet(s) /\ Cardinality(s) \in Nat
  BY FS_Subset, FS_CardinalityType
<1>2. \A s \in SUBSET S : s # {} =>
        s \ {Chosen(s)} \in SUBSET S /\ Cardinality(s \ {Chosen(s)}) = Cardinality(s) - 1
  BY <1>1, ChosenIsOne, FS_RemoveElement
<1>3. 0 \in Done
  <2>1. Upto(0) = {{}}
    BY <1>1, FS_EmptySet
  <2> DEFINE g == [s \in Upto(0) |-> 0]
  <2>2. g = Sums(0, g)
    BY <2>1
  <2> HIDE DEF g, Sums
  <2> QED
    BY <2>2
<1>4. ASSUME NEW n \in Done
      PROVE  n + 1 \in Done
  <2>1. n \in Nat
    OBVIOUS
  <2>2. PICK g : g = Sums(n, g)
    OBVIOUS
  <2> DEFINE h == Sums(n + 1, g)
  <2>3. \A s \in Upto(n + 1) : s # {} => s \ {Chosen(s)} \in Upto(n)
    BY <1>1, <1>2, <2>1
  <2>4. Upto(n) \subseteq Upto(n + 1)
    BY <1>1, <2>1
  <2>5. \A s \in Upto(n) : h[s] = g[s]
    BY <2>2, <2>4
  <2>6. h = Sums(n + 1, h)
    <3>1. \A s \in Upto(n + 1) : s # {} => h[s \ {Chosen(s)}] = g[s \ {Chosen(s)}]
      BY <2>3, <2>5
    <3> QED
      BY <3>1
  <2> HIDE DEF h, Sums
  <2> QED
    BY <2>1, <2>6
<1>5. Done = Nat
  <2>1. Done \in SUBSET Nat
    OBVIOUS
  <2> HIDE DEF Done
  <2> QED
    BY <1>3, <1>4, <2>1, Induction
<1>6. Upto(Cardinality(S)) = SUBSET S
  BY FS_Subset
<1>7. Cardinality(S) \in Nat
  BY FS_CardinalityType
<1>8. PICK g : g = Sums(Cardinality(S), g)
  BY <1>5, <1>7
<1>9. g = SumsOf(S, g)
  BY <1>6, <1>8 DEF SumsOf
<1> QED
  BY <1>9

LEMMA SumsAgree ==
  ASSUME NEW S, IsFiniteSet(S), NEW R \in SUBSET S,
         NEW g, g = SumsOf(S, g), NEW h, h = SumsOf(R, h)
  PROVE  \A s \in SUBSET R : g[s] = h[s]
<1> DEFINE K == {s \in SUBSET R : g[s] = h[s]}
<1>1. IsFiniteSet(R)
  BY FS_Subset
<1>2. {} \in K
  BY DEF SumsOf
<1>3. ASSUME NEW T \in SUBSET R, T # {}, \A x \in T : T \ {x} \in K
      PROVE  T \in K
  <2>1. g[T \ {Chosen(T)}] = h[T \ {Chosen(T)}]
    BY <1>3, ChosenIsOne
  <2>2. /\ g[T] = Chosen(T).liquidity + g[T \ {Chosen(T)}]
        /\ h[T] = Chosen(T).liquidity + h[T \ {Chosen(T)}]
    BY <1>3 DEF SumsOf
  <2> QED
    BY <2>1, <2>2
<1>4. K = SUBSET R
  <2>1. K \in SUBSET SUBSET R
    OBVIOUS
  <2> HIDE DEF K
  <2> QED
    BY <1>1, <1>2, <1>3, <2>1, SetInduction
<1> QED
  BY <1>4

LEMMA LiquidityOfNone == Liquidity({}) = 0
<1>1. \E g : g = SumsOf({}, g)
  BY SumsExist, FS_EmptySet
<1> QED
  BY <1>1, LiquidityIs DEF SumsOf

LEMMA LiquidityOfSome ==
  ASSUME NEW S, IsFiniteSet(S), S # {}
  PROVE  Liquidity(S) = Chosen(S).liquidity + Liquidity(S \ {Chosen(S)})
<1> DEFINE R == S \ {Chosen(S)}
           g == CHOOSE f : f = SumsOf(S, f)
           h == CHOOSE f : f = SumsOf(R, f)
<1>1. IsFiniteSet(R) /\ R \in SUBSET S
  BY FS_Subset
<1>2. g = SumsOf(S, g)
  BY SumsExist
<1>3. h = SumsOf(R, h)
  BY <1>1, SumsExist
<1>4. Liquidity(S) = g[S] /\ Liquidity(R) = h[R]
  BY LiquidityIs
<1> HIDE DEF g, h
<1>5. g[R] = h[R]
  BY <1>1, <1>2, <1>3, SumsAgree
<1>6. g[S] = Chosen(S).liquidity + g[R]
  BY <1>2 DEF SumsOf
<1> QED
  BY <1>4, <1>5, <1>6

LEMMA LiquidityIsNatural ==
  ASSUME NEW S \in SUBSET Positions
  PROVE  IsFiniteSet(S) /\ Liquidity(S) \in Nat
<1>1. \A T \in SUBSET Positions : IsFiniteSet(T)
  BY WalkAssumption, FS_Subset
<1> DEFINE K == {T \in SUBSET S : Liquidity(T) \in Nat}
<1>2. {} \in K
  BY LiquidityOfNone
<1>3. ASSUME NEW T \in SUBSET S, T # {}, \A x \in T : T \ {x} \in K
      PROVE  T \in K
  <2>1. Chosen(T) \in Positions /\ Liquidity(T \ {Chosen(T)}) \in Nat
    BY <1>3, ChosenIsOne
  <2>2. Chosen(T).liquidity \in Nat
    BY <2>1, WalkAssumption
  <2>3. Liquidity(T) = Chosen(T).liquidity + Liquidity(T \ {Chosen(T)})
    BY <1>1, <1>3, LiquidityOfSome
  <2> QED
    BY <2>1, <2>2, <2>3
<1>4. K = SUBSET S
  <2>1. K \in SUBSET SUBSET S
    OBVIOUS
  <2> HIDE DEF K
  <2> QED
    BY <1>1, <1>2, <1>3, <2>1, SetInduction
<1> QED
  BY <1>1, <1>4

(* It does not matter which is added first.                                *)
LEMMA LiquidityWith ==
  ASSUME NEW S \in SUBSET Positions, NEW x \in S
  PROVE  Liquidity(S) = x.liquidity + Liquidity(S \ {x})
<1>1. \A T \in SUBSET Positions : IsFiniteSet(T) /\ Liquidity(T) \in Nat
  BY LiquidityIsNatural
<1> DEFINE K == {T \in SUBSET S : \A y \in T : Liquidity(T) = y.liquidity + Liquidity(T \ {y})}
<1>2. {} \in K
  OBVIOUS
<1>3. ASSUME NEW T \in SUBSET S, T # {}, \A y \in T : T \ {y} \in K
      PROVE  T \in K
  <2> SUFFICES ASSUME NEW y \in T
               PROVE  Liquidity(T) = y.liquidity + Liquidity(T \ {y})
    OBVIOUS
  <2> DEFINE c == Chosen(T)
  <2>1. c \in T
    BY <1>3, ChosenIsOne
  <2>2. Liquidity(T) = c.liquidity + Liquidity(T \ {c})
    BY <1>1, <1>3, LiquidityOfSome
  <2>3. y.liquidity \in Nat /\ c.liquidity \in Nat
    BY <2>1, WalkAssumption
  <2> HIDE DEF c
  <2>4. CASE y = c
    BY <2>2, <2>4
  <2>5. CASE y # c
    <3>1. Liquidity(T \ {c}) = y.liquidity + Liquidity((T \ {c}) \ {y})
      <4>1. T \ {c} \in K /\ y \in T \ {c}
        BY <1>3, <2>1, <2>5
      <4> QED
        BY <4>1
    <3>2. Liquidity(T \ {y}) = c.liquidity + Liquidity((T \ {y}) \ {c})
      <4>1. T \ {y} \in K /\ c \in T \ {y}
        BY <1>3, <2>1, <2>5
      <4> QED
        BY <4>1
    <3>3. (T \ {c}) \ {y} = (T \ {y}) \ {c}
      OBVIOUS
    <3>4. Liquidity((T \ {y}) \ {c}) \in Nat
      BY <1>1
    <3> DEFINE l == Liquidity((T \ {y}) \ {c})
               m == c.liquidity
               n == y.liquidity
    <3>5. Liquidity(T) = m + (n + l) /\ n + Liquidity(T \ {y}) = n + (m + l)
      BY <2>2, <3>1, <3>2, <3>3
    <3>6. l \in Nat /\ m \in Nat /\ n \in Nat
      BY <2>3, <3>4
    <3> HIDE DEF l, m, n
    <3>7. Liquidity(T) = n + Liquidity(T \ {y})
      BY <3>5, <3>6
    <3> QED
      BY <3>7 DEF n
  <2> QED
    BY <2>4, <2>5
<1>4. K = SUBSET S
  <2>1. K \in SUBSET SUBSET S
    OBVIOUS
  <2> HIDE DEF K
  <2> QED
    BY <1>1, <1>2, <1>3, <2>1, SetInduction
<1> QED
  BY <1>4

LEMMA LiquidityOfBoth ==
  ASSUME NEW A \in SUBSET Positions, NEW B \in SUBSET Positions, A \cap B = {}
  PROVE  Liquidity(A \cup B) = Liquidity(A) + Liquidity(B)
<1>1. \A T \in SUBSET Positions : IsFiniteSet(T) /\ Liquidity(T) \in Nat
  BY LiquidityIsNatural
<1> DEFINE K == {T \in SUBSET B : Liquidity(A \cup T) = Liquidity(A) + Liquidity(T)}
<1>2. {} \in K
  BY <1>1, LiquidityOfNone
<1>3. ASSUME NEW T \in SUBSET B, T # {}, \A y \in T : T \ {y} \in K
      PROVE  T \in K
  <2>1. PICK y \in T : TRUE
    BY <1>3
  <2> DEFINE R == T \ {y}
  <2>2. Liquidity(A \cup R) = Liquidity(A) + Liquidity(R)
    BY <1>3
  <2>3. Liquidity(T) = y.liquidity + Liquidity(R)
    BY LiquidityWith
  <2>4. Liquidity(A \cup T) = y.liquidity + Liquidity((A \cup T) \ {y})
    BY LiquidityWith
  <2>5. (A \cup T) \ {y} = A \cup R
    OBVIOUS
  <2>6. y.liquidity \in Nat /\ Liquidity(A) \in Nat /\ Liquidity(R) \in Nat
    BY <1>1, WalkAssumption
  <2> DEFINE a == Liquidity(A)
             r == Liquidity(R)
             l == y.liquidity
  <2>7. Liquidity(A \cup T) = l + (a + r) /\ a + Liquidity(T) = a + (l + r)
    BY <2>2, <2>3, <2>4, <2>5
  <2>8. a \in Nat /\ r \in Nat /\ l \in Nat
    BY <2>6
  <2> HIDE DEF a, r, l
  <2>9. Liquidity(A \cup T) = a + Liquidity(T)
    BY <2>7, <2>8
  <2> QED
    BY <2>9 DEF a
<1>4. K = SUBSET B
  <2>1. K \in SUBSET SUBSET B
    OBVIOUS
  <2> HIDE DEF K
  <2> QED
    BY <1>1, <1>2, <1>3, <2>1, SetInduction
<1> QED
  BY <1>4

-----------------------------------------------------------------------------
(* The liquidity at two ticks.                                             *)

LEMMA LiquidityTypes ==
  ASSUME Minted, NEW t \in Int
  PROVE  LiquidityAt(t) \in Nat /\ LiquidityNet(t) \in Int
<1>1. \A T \in SUBSET Positions : Liquidity(T) \in Nat
  BY LiquidityIsNatural
<1> QED
  BY <1>1 DEF LiquidityAt, LiquidityNet, Minted

LEMMA LiquidityUp ==
  ASSUME Minted, NEW t \in Int, NEW u \in Int, t < u,
         \A v \in t + 1 .. u - 1 : ~IsInitialized(v)
  PROVE  LiquidityAt(u) = LiquidityAt(t) + LiquidityNet(u)
<1> DEFINE AtT == {p \in minted : p.lower <= t /\ t < p.upper}
           AtU == {p \in minted : p.lower <= u /\ u < p.upper}
           Low == {p \in minted : p.lower = u}
           Up == {p \in minted : p.upper = u}
<1>1. \A p \in minted : p.lower \in Int /\ p.upper \in Int /\ p.lower < p.upper
  <2>1. MinTick .. MaxTick \subseteq Int
    OBVIOUS
  <2> QED
    BY <2>1, WalkAssumption DEF Minted
<1>2. \A p \in minted : p.lower \notin t + 1 .. u - 1 /\ p.upper \notin t + 1 .. u - 1
  BY DEF IsInitialized
<1>3. AtU \cup Up = AtT \cup Low
  <2>1. ASSUME NEW p \in minted
        PROVE  (p \in AtU \/ p \in Up) <=> (p \in AtT \/ p \in Low)
    <3> DEFINE l == p.lower
               h == p.upper
    <3>1. l \in Int /\ h \in Int /\ l < h /\ l \notin t + 1 .. u - 1 /\ h \notin t + 1 .. u - 1
      BY <1>1, <1>2
    <3> HIDE DEF l, h
    <3>2. ((l <= u /\ u < h) \/ h = u) <=> ((l <= t /\ t < h) \/ l = u)
      BY <3>1
    <3> QED
      BY <3>2 DEF l, h
  <2> QED
    BY <2>1
<1>4. AtU \cap Up = {} /\ AtT \cap Low = {}
  BY <1>1
<1>5. /\ AtU \in SUBSET Positions /\ Up \in SUBSET Positions
      /\ AtT \in SUBSET Positions /\ Low \in SUBSET Positions
  BY DEF Minted
<1>6. /\ LiquidityAt(u) = Liquidity(AtU) /\ LiquidityAt(t) = Liquidity(AtT)
      /\ LiquidityNet(u) = Liquidity(Low) - Liquidity(Up)
  <2>1. LiquidityAt(u) = Liquidity(AtU) /\ LiquidityAt(t) = Liquidity(AtT)
    BY DEF LiquidityAt
  <2>2. LiquidityNet(u) = Liquidity(Low) - Liquidity(Up)
    BY DEF LiquidityNet
  <2> HIDE DEF AtT, AtU, Low, Up
  <2> QED
    BY <2>1, <2>2
<1> HIDE DEF AtT, AtU, Low, Up
<1>7. Liquidity(AtU) + Liquidity(Up) = Liquidity(AtT) + Liquidity(Low)
  <2>1. Liquidity(AtU \cup Up) = Liquidity(AtU) + Liquidity(Up)
    BY <1>4, <1>5, LiquidityOfBoth
  <2>2. Liquidity(AtT \cup Low) = Liquidity(AtT) + Liquidity(Low)
    BY <1>4, <1>5, LiquidityOfBoth
  <2> QED
    BY <1>3, <2>1, <2>2
<1>8. /\ Liquidity(AtU) \in Nat /\ Liquidity(Up) \in Nat
      /\ Liquidity(AtT) \in Nat /\ Liquidity(Low) \in Nat
  BY <1>5, LiquidityIsNatural
<1> QED
  BY <1>6, <1>7, <1>8

LEMMA LiquidityAlong ==
  ASSUME Minted, NEW t \in Int, NEW u \in Int, t <= u,
         \A v \in t + 1 .. u : ~IsInitialized(v)
  PROVE  LiquidityAt(u) = LiquidityAt(t)
<1> DEFINE AtT == {p \in minted : p.lower <= t /\ t < p.upper}
           AtU == {p \in minted : p.lower <= u /\ u < p.upper}
<1>1. \A p \in minted : p.lower \in Int /\ p.upper \in Int /\ p.lower < p.upper
  <2>1. MinTick .. MaxTick \subseteq Int
    OBVIOUS
  <2> QED
    BY <2>1, WalkAssumption DEF Minted
<1>2. \A p \in minted : p.lower \notin t + 1 .. u /\ p.upper \notin t + 1 .. u
  BY DEF IsInitialized
<1>3. ASSUME NEW p \in minted
      PROVE  p \in AtU <=> p \in AtT
  <2> DEFINE l == p.lower
             h == p.upper
  <2>1. l \in Int /\ h \in Int /\ l < h /\ l \notin t + 1 .. u /\ h \notin t + 1 .. u
    BY <1>1, <1>2
  <2> HIDE DEF l, h
  <2>2. (l <= u /\ u < h) <=> (l <= t /\ t < h)
    BY <2>1
  <2> QED
    BY <2>2 DEF l, h
<1>4. AtU = AtT
  BY <1>3
<1> QED
  BY <1>4 DEF LiquidityAt

-----------------------------------------------------------------------------
(* The arithmetic of a step.                                               *)

LEMMA RoundsUp ==
  ASSUME NEW n \in Int, NEW d \in Nat \ {0}
  PROVE  LET q == n \div d + (IF n % d > 0 THEN 1 ELSE 0)
         IN  /\ q \in Int /\ n <= d * q /\ d * q < n + d
<1> DEFINE q == n \div d + (IF n % d > 0 THEN 1 ELSE 0)
           k == n \div d
           r == n % d
<1>1. k \in Int /\ r \in 0 .. d - 1 /\ n = d * k + r
  BY Z3
<1>2. q = k + (IF r > 0 THEN 1 ELSE 0)
  OBVIOUS
<1> HIDE DEF q, k, r
<1>3. CASE r > 0
  <2>1. q = k + 1 /\ d * q = d * k + d
    BY <1>1, <1>2, <1>3
  <2> QED
    BY <1>1, <1>3, <2>1 DEF q
<1>4. CASE r = 0
  <2>1. q = k
    BY <1>1, <1>2, <1>4
  <2> QED
    BY <1>1, <1>4, <2>1 DEF q
<1> QED
  BY <1>1, <1>3, <1>4

LEMMA DivUpIs ==
  ASSUME NEW n \in Int, NEW d \in Nat \ {0}
  PROVE  DivUp(n, d) \in Int /\ n <= d * DivUp(n, d) /\ d * DivUp(n, d) < n + d
<1>1. DivUp(n, d) = n \div d + (IF n % d > 0 THEN 1 ELSE 0)
  BY DEF DivUp
<1> DEFINE q == n \div d + (IF n % d > 0 THEN 1 ELSE 0)
<1>2. q \in Int /\ n <= d * q /\ d * q < n + d
  BY RoundsUp
<1> HIDE DEF q
<1>3. DivUp(n, d) = q
  BY <1>1 DEF q
<1> QED
  BY <1>2, <1>3

LEMMA MulDivUpIs ==
  ASSUME NEW a \in Int, NEW b \in Int, NEW d \in Nat \ {0},
         NEW n, n = a * b, NEW q, q = MulDivUp(a, b, d)
  PROVE  n \in Int /\ q \in Int /\ n <= d * q /\ d * q < n + d
<1> DEFINE k == n \div d + (IF n % d > 0 THEN 1 ELSE 0)
<1>1. q = k
  BY DEF MulDivUp
<1>2. n \in Int
  OBVIOUS
<1>3. k \in Int /\ n <= d * k /\ d * k < n + d
  BY <1>2, RoundsUp
<1> HIDE DEF k
<1> QED
  BY <1>1, <1>2, <1>3

(* A product says on which side a factor is.                               *)
LEMMA FactorIsLess ==
  ASSUME NEW d \in Nat \ {0}, NEW x \in Int, NEW y \in Int, d * x < d * y
  PROVE  x < y
OBVIOUS

LEMMA FactorIsNoMore ==
  ASSUME NEW d \in Nat \ {0}, NEW x \in Int, NEW y \in Int, d * x <= d * y
  PROVE  x <= y
OBVIOUS

LEMMA RoundedUpSign ==
  ASSUME NEW n \in Int, NEW d \in Nat \ {0}, NEW q \in Int, n <= d * q, d * q < n + d
  PROVE  (n >= 0 => q >= 0) /\ (n <= 0 => q <= 0)
<1>1. ASSUME n >= 0 PROVE q >= 0
  <2>1. d * 0 <= d * q
    BY <1>1
  <2> QED
    BY <2>1, FactorIsNoMore
<1>2. ASSUME n <= 0 PROVE q <= 0
  <2>1. d * q < d * 1
    BY <1>2
  <2>2. q < 1
    BY <2>1, FactorIsLess
  <2> QED
    BY <2>2
<1> QED
  BY <1>1, <1>2

LEMMA RoundedDownSign ==
  ASSUME NEW n \in Int, NEW d \in Nat \ {0}
  PROVE  /\ n \div d \in Int
         /\ n >= 0 => n \div d >= 0
         /\ n <= 0 => n \div d <= 0
<1> DEFINE q == n \div d
<1>1. q \in Int /\ d * q <= n /\ n < d * q + d
  BY DivisionRounds
<1> HIDE DEF q
<1>2. ASSUME n >= 0 PROVE q >= 0
  <2>1. d * (0 - 1) < d * q
    BY <1>1, <1>2
  <2>2. 0 - 1 < q
    BY <1>1, <2>1, FactorIsLess
  <2> QED
    BY <1>1, <2>2
<1>3. ASSUME n <= 0 PROVE q <= 0
  <2>1. d * q <= d * 0
    BY <1>1, <1>3
  <2> QED
    BY <1>1, <2>1, FactorIsNoMore
<1> QED
  BY <1>1, <1>2, <1>3 DEF q

Signed(n, liquidity) == n \in Int /\ (liquidity >= 0 => n >= 0) /\ (liquidity <= 0 => n <= 0)

Prices == Nat \ {0}

LEMMA BetweenPrices ==
  ASSUME NEW p \in Prices, NEW q \in Prices
  PROVE  /\ Lower(p, q) \in Prices /\ Upper(p, q) \in Prices
         /\ Upper(p, q) - Lower(p, q) \in Nat
BY DEF Lower, Upper, Prices

LEMMA ProductSign ==
  ASSUME NEW a \in Int, NEW b \in Nat, NEW n, n = a * b
  PROVE  Signed(n, a)
BY DEF Signed

LEMMA Amount0Is ==
  ASSUME NEW p \in Prices, NEW q \in Prices, NEW liquidity \in Int, NEW up \in BOOLEAN
  PROVE  Signed(Amount0Delta(p, q, liquidity, up), liquidity)
<1> DEFINE low == Lower(p, q)
           high == Upper(p, q)
           distance == high - low
           one == 2 ^ Resolution
           scaled == liquidity * one
           n == scaled * distance
           m == MulDivUp(scaled, distance, high)
<1>1. low \in Nat \ {0} /\ high \in Nat \ {0} /\ distance \in Nat
  BY BetweenPrices DEF Prices
<1>2. one \in Nat
  BY TickMathAssumption
<1>7. /\ Amount0Delta(p, q, liquidity, TRUE) = DivUp(m, low)
      /\ Amount0Delta(p, q, liquidity, FALSE) = (n \div high) \div low
  BY DEF Amount0Delta
<1> HIDE DEF low, high, distance, one
<1>3. Signed(scaled, liquidity)
  BY <1>2, ProductSign
<1>13. scaled \in Int
  BY <1>3 DEF Signed
<1> HIDE DEF scaled
<1>4. Signed(n, scaled)
  BY <1>1, <1>13, ProductSign
<1>5. Signed(n, liquidity)
  BY <1>3, <1>4 DEF Signed
<1>6. m \in Int /\ n <= high * m /\ high * m < n + high
  BY <1>1, <1>13, MulDivUpIs
<1> HIDE DEF n, m
<1>8. Signed(m, liquidity)
  BY <1>1, <1>4, <1>5, <1>6, RoundedUpSign DEF Signed
<1>9. Signed(DivUp(m, low), liquidity)
  <2> DEFINE d == DivUp(m, low)
  <2>1. d \in Int /\ m <= low * d /\ low * d < m + low
    BY <1>1, <1>6, DivUpIs
  <2> HIDE DEF d
  <2>2. Signed(d, liquidity)
    BY <1>1, <1>6, <1>8, <2>1, RoundedUpSign DEF Signed
  <2> QED
    BY <2>2 DEF d
<1>10. Signed((n \div high) \div low, liquidity)
  <2> DEFINE k == n \div high
             d == k \div low
  <2>1. Signed(k, liquidity)
    BY <1>1, <1>4, <1>5, RoundedDownSign DEF Signed
  <2> HIDE DEF k
  <2>2. Signed(d, liquidity)
    BY <1>1, <2>1, RoundedDownSign DEF Signed
  <2> QED
    BY <2>2 DEF k
<1>11. CASE up
  BY <1>7, <1>9, <1>11
<1>12. CASE ~up
  <2>1. up = FALSE
    BY <1>12
  <2> QED
    BY <1>7, <1>10, <2>1
<1> QED
  BY <1>11, <1>12

LEMMA Amount1Is ==
  ASSUME NEW p \in Prices, NEW q \in Prices, NEW liquidity \in Int, NEW up \in BOOLEAN
  PROVE  Signed(Amount1Delta(p, q, liquidity, up), liquidity)
<1> DEFINE distance == Upper(p, q) - Lower(p, q)
           one == 2 ^ Resolution
           n == liquidity * distance
           m == MulDivUp(liquidity, distance, one)
           k == n \div one
<1>1. distance \in Nat /\ one \in Nat \ {0}
  BY BetweenPrices, TickMathAssumption
<1>2. /\ Amount1Delta(p, q, liquidity, TRUE) = m
      /\ Amount1Delta(p, q, liquidity, FALSE) = k
  BY DEF Amount1Delta
<1> HIDE DEF distance, one
<1>3. Signed(n, liquidity)
  BY <1>1, ProductSign
<1>4. m \in Int /\ n <= one * m /\ one * m < n + one
  BY <1>1, MulDivUpIs
<1> HIDE DEF n, m
<1>5. Signed(m, liquidity)
  <2>1. n \in Int
    BY <1>3 DEF Signed
  <2> QED
    BY <1>1, <1>3, <1>4, <2>1, RoundedUpSign DEF Signed
<1>6. Signed(k, liquidity)
  <2>1. n \in Int
    BY <1>3 DEF Signed
  <2> QED
    BY <1>1, <1>3, <2>1, RoundedDownSign DEF Signed
<1>7. CASE up
  BY <1>2, <1>5, <1>7
<1>8. CASE ~up
  <2>1. up = FALSE
    BY <1>8
  <2> QED
    BY <1>2, <1>6, <2>1
<1> QED
  BY <1>7, <1>8

LEMMA PaidIs ==
  ASSUME NEW p \in Prices, NEW q \in Prices, NEW liquidity \in Int, NEW zeroForOne \in BOOLEAN
  PROVE  /\ Signed(Paid(zeroForOne, p, q, liquidity), liquidity)
         /\ Signed(Received(zeroForOne, p, q, liquidity), liquidity)
BY Amount0Is, Amount1Is DEF Paid, Received

(* A price that an amount short of the whole way leads to is short of the  *)
(* target.                                                                 *)
LEMMA ShortOfLower ==
  ASSUME NEW from \in Prices, NEW to \in Prices, to < from,
         NEW liquidity \in Nat \ {0}, NEW m \in Nat, m < Amount0Delta(from, to, liquidity, TRUE)
  PROVE  LET p == PriceAfterAmount0(from, liquidity, m) IN p \in Int /\ to < p /\ p <= from
<1> DEFINE one == 2 ^ Resolution
           s == liquidity * one
           way == from - to
           c == MulDivUp(s, way, from)
           n == DivUp(c, to)
           d == s + m * from
           q == MulDivUp(s, from, d)
           p == PriceAfterAmount0(from, liquidity, m)
<1>1. from \in Nat \ {0} /\ to \in Nat \ {0} /\ way \in Nat /\ way = from - to
  BY DEF Prices
<1>2. s \in Nat \ {0}
  <2>1. one \in Nat \ {0}
    BY TickMathAssumption
  <2> HIDE DEF one
  <2> QED
    BY <2>1
<1>3. Amount0Delta(from, to, liquidity, TRUE) = n
  <2>1. Lower(from, to) = to /\ Upper(from, to) = from
    BY <1>1 DEF Lower, Upper
  <2> QED
    BY <2>1 DEF Amount0Delta
<1>4. p = IF m = 0 THEN from ELSE q
  BY DEF PriceAfterAmount0
<1> HIDE DEF one, s, p, way
<1>5. c \in Int /\ from * c < s * way + from
  <2> DEFINE a == s * way
  <2>1. a = s * way /\ c = MulDivUp(s, way, from)
    OBVIOUS
  <2> HIDE DEF a, c
  <2>2. c \in Int /\ from * c < a + from
    BY <1>1, <1>2, <2>1, MulDivUpIs
  <2> QED
    BY <2>1, <2>2
<1> HIDE DEF c
<1>6. n \in Int /\ to * n < c + to
  BY <1>1, <1>5, DivUpIs
<1> HIDE DEF n
<1>7. to * m < c
  <2>1. m < n
    BY <1>3, Zenon
  <2>4. m + 1 <= n
    BY <1>6, <2>1
  <2>2. to * (m + 1) <= to * n /\ to * (m + 1) = to * m + to
    BY <1>1, <1>6, <2>4
  <2>3. to * m \in Int /\ to * n \in Int
    BY <1>1, <1>6
  <2> QED
    BY <1>1, <1>5, <1>6, <2>2, <2>3
<1>8. from * (to * m) + from <= from * c
  <2> DEFINE k == to * m
  <2>1. k \in Int /\ k + 1 <= c
    BY <1>1, <1>5, <1>7
  <2> HIDE DEF k
  <2>2. from * (k + 1) <= from * c /\ from * (k + 1) = from * k + from
    BY <1>1, <1>5, <2>1
  <2> QED
    BY <2>2 DEF k
<1>9. d \in Nat \ {0} /\ to * d < s * from
  <2>1. m * from \in Nat
    BY <1>1
  <2>2. to * d = to * s + from * (to * m)
    BY <1>1, <1>2
  <2>3. s * way = s * from - to * s
    BY <1>1, <1>2
  <2>4. /\ to * s \in Int /\ s * from \in Int /\ from * (to * m) \in Int
        /\ from * c \in Int /\ s * way \in Int
    BY <1>1, <1>2, <1>5
  <2>5. from * (to * m) < s * way
    BY <1>1, <1>5, <1>8, <2>4
  <2> QED
    BY <1>2, <2>1, <2>2, <2>3, <2>4, <2>5
<1>10. s * from <= d * from
  <2>1. m * from \in Nat
    BY <1>1
  <2>2. s <= d
    BY <1>2, <2>1
  <2> HIDE DEF d
  <2> QED
    BY <1>1, <1>2, <1>9, <2>2
<1> HIDE DEF d
<1>11. q \in Int /\ s * from <= d * q /\ d * q < s * from + d
  <2> DEFINE a == s * from
  <2>1. a = s * from /\ q = MulDivUp(s, from, d)
    OBVIOUS
  <2> HIDE DEF a, q
  <2>2. q \in Int /\ a <= d * q /\ d * q < a + d
    BY <1>1, <1>2, <1>9, <2>1, MulDivUpIs
  <2> QED
    BY <2>1, <2>2
<1> HIDE DEF q
<1>12. to < q
  <2>1. d * to < d * q
    BY <1>1, <1>2, <1>9, <1>11
  <2> QED
    BY <1>1, <1>9, <1>11, <2>1, FactorIsLess
<1>13. q <= from
  <2>1. d * q < d * (from + 1)
    BY <1>1, <1>2, <1>9, <1>10, <1>11
  <2>2. q < from + 1
    BY <1>1, <1>9, <1>11, <2>1, FactorIsLess
  <2> QED
    BY <1>1, <1>11, <2>2
<1>14. p \in Int /\ to < p /\ p <= from
  BY <1>1, <1>4, <1>11, <1>12, <1>13
<1> QED
  BY <1>14 DEF p

LEMMA ShortOfUpper ==
  ASSUME NEW from \in Prices, NEW to \in Prices, from < to,
         NEW liquidity \in Nat \ {0}, NEW m \in Nat, m < Amount1Delta(from, to, liquidity, TRUE)
  PROVE  LET p == PriceAfterAmount1(from, liquidity, m) IN p \in Int /\ from <= p /\ p < to
<1> DEFINE one == 2 ^ Resolution
           way == to - from
           c == MulDivUp(liquidity, way, one)
           k == (m * one) \div liquidity
<1>1. from \in Nat \ {0} /\ to \in Nat \ {0} /\ way \in Nat /\ one \in Nat \ {0}
  BY TickMathAssumption DEF Prices
<1>2. Amount1Delta(from, to, liquidity, TRUE) = c
  <2>1. Lower(from, to) = from /\ Upper(from, to) = to
    BY <1>1 DEF Lower, Upper
  <2> QED
    BY <2>1 DEF Amount1Delta
<1>3. PriceAfterAmount1(from, liquidity, m) = from + k
  BY DEF PriceAfterAmount1
<1> HIDE DEF one, way
<1>4. c \in Int /\ one * c < liquidity * way + one
  <2> DEFINE a == liquidity * way
  <2>1. a = liquidity * way /\ c = MulDivUp(liquidity, way, one)
    OBVIOUS
  <2> HIDE DEF a, c
  <2>2. c \in Int /\ one * c < a + one
    BY <1>1, <2>1, MulDivUpIs
  <2> QED
    BY <2>1, <2>2
<1> HIDE DEF c
<1>5. m * one \in Nat
  BY <1>1
<1>6. k \in Int /\ k >= 0 /\ liquidity * k <= m * one
  BY <1>5, DivisionRounds, RoundedDownSign
<1> HIDE DEF k
<1>7. m * one + one <= one * c
  <2>3. m < c
    BY <1>2, Zenon
  <2>1. m + 1 <= c
    BY <1>4, <2>3
  <2>2. one * (m + 1) <= one * c /\ one * (m + 1) = m * one + one
    BY <1>1, <1>4, <2>1
  <2> QED
    BY <2>2
<1>8. liquidity * k < liquidity * way
  <2>1. liquidity * k \in Int /\ liquidity * way \in Int /\ one * c \in Int
    BY <1>1, <1>4, <1>6
  <2> QED
    BY <1>1, <1>4, <1>5, <1>6, <1>7, <2>1
<1>9. k < way
  BY <1>1, <1>6, <1>8, FactorIsLess
<1>10. from + k \in Int /\ from <= from + k /\ from + k < to
  BY <1>1, <1>6, <1>9 DEF way
<1> QED
  BY <1>3, <1>10

-----------------------------------------------------------------------------
(* A step.                                                                 *)

FeeShares == 0 .. FeeUnit - 1

Moves(remaining, fee) ==
  IF remaining >= 0 THEN (remaining * (FeeUnit - fee)) \div FeeUnit ELSE -remaining

Needed(from, target, liquidity, remaining) ==
  IF remaining >= 0 THEN Paid(from >= target, from, target, liquidity)
  ELSE Received(from >= target, from, target, liquidity)

LEMMA MovesAre ==
  ASSUME NEW remaining \in Int, NEW fee \in FeeShares
  PROVE  /\ Moves(remaining, fee) \in Nat
         /\ remaining >= 0 => FeeUnit * Moves(remaining, fee) <= remaining * (FeeUnit - fee)
<1>1. FeeUnit \in Nat \ {0} /\ FeeUnit - fee \in Nat
  BY TickMathAssumption DEF FeeShares
<1> DEFINE n == remaining * (FeeUnit - fee)
<1>2. CASE remaining >= 0
  <2>1. n \in Nat
    BY <1>1, <1>2
  <2> HIDE DEF n
  <2>2. n \div FeeUnit \in Nat /\ FeeUnit * (n \div FeeUnit) <= n
    BY <1>1, <2>1, RoundedDownSign, DivisionRounds
  <2>3. Moves(remaining, fee) = n \div FeeUnit
    BY <1>2 DEF Moves, n
  <2>4. FeeUnit * Moves(remaining, fee) <= n
    BY <2>2, <2>3
  <2> QED
    BY <2>2, <2>3, <2>4 DEF n
<1>3. CASE ~(remaining >= 0)
  BY <1>3 DEF Moves
<1> QED
  BY <1>2, <1>3

LEMMA NeededIs ==
  ASSUME NEW from \in Prices, NEW target \in Prices, NEW liquidity \in Int, NEW remaining \in Int
  PROVE  Signed(Needed(from, target, liquidity, remaining), liquidity)
<1> DEFINE z == from >= target
<1>1. z \in BOOLEAN
  OBVIOUS
<1> HIDE DEF z
<1>2. Signed(Paid(z, from, target, liquidity), liquidity)
  BY <1>1, PaidIs
<1>3. Signed(Received(z, from, target, liquidity), liquidity)
  BY <1>1, PaidIs
<1> QED
  BY <1>2, <1>3 DEF Needed, z

LEMMA NextPriceIs ==
  ASSUME NEW from \in Prices, NEW liquidity \in Nat \ {0}, NEW m \in Nat, NEW z \in BOOLEAN
  PROVE  NextSqrtPrice(from, liquidity, m, z) \in Prices
<1> DEFINE one == 2 ^ Resolution
           s == liquidity * one
           d == s + m * from
           q == MulDivUp(s, from, d)
           n == s * from
           k == (m * one) \div liquidity
<1>1. one \in Nat \ {0} /\ from \in Nat \ {0}
  BY TickMathAssumption DEF Prices
<1>2. /\ PriceAfterAmount0(from, liquidity, m) = IF m = 0 THEN from ELSE q
      /\ PriceAfterAmount1(from, liquidity, m) = from + k
  BY DEF PriceAfterAmount0, PriceAfterAmount1
<1> HIDE DEF one
<1>3. k \in Nat
  <2>1. m * one \in Nat
    BY <1>1
  <2> QED
    BY <2>1, RoundedDownSign
<1>4. q \in Nat \ {0}
  <2>1. s \in Nat \ {0} /\ m * from \in Nat
    BY <1>1
  <2>2. d \in Nat \ {0} /\ n \in Nat \ {0}
    BY <1>1, <2>1
  <2>3. n = s * from /\ q = MulDivUp(s, from, d)
    OBVIOUS
  <2> HIDE DEF s, d, q, n
  <2>4. q \in Int /\ n <= d * q
    BY <1>1, <2>1, <2>2, <2>3, MulDivUpIs
  <2>5. d * 0 < d * q
    BY <2>2, <2>4
  <2> QED
    BY <2>2, <2>4, <2>5, FactorIsLess
<1> HIDE DEF q, k
<1>5. PriceAfterAmount0(from, liquidity, m) \in Prices /\ PriceAfterAmount1(from, liquidity, m) \in Prices
  BY <1>1, <1>2, <1>3, <1>4 DEF Prices
<1> QED
  BY <1>5 DEF NextSqrtPrice

LEMMA SwapStepIs ==
  ASSUME NEW from, NEW target, NEW liquidity, NEW remaining, NEW fee,
         NEW s, s = SwapStep(from, target, liquidity, remaining, fee)
  PROVE  /\ s.price = IF Moves(remaining, fee) >= Needed(from, target, liquidity, remaining) THEN target
                      ELSE NextSqrtPrice(from, liquidity, Moves(remaining, fee), from >= target)
         /\ s.in = Paid(from >= target, from, s.price, liquidity)
         /\ s.out \in {Received(from >= target, from, s.price, liquidity), -remaining}
         /\ remaining >= 0 => s.out = Received(from >= target, from, s.price, liquidity)
         /\ s.fee = IF remaining >= 0 /\ s.price # target THEN remaining - s.in
                    ELSE MulDivUp(s.in, fee, FeeUnit - fee)
BY DEF SwapStep, Moves, Needed

LEMMA StepPrice ==
  ASSUME NEW from \in Prices, NEW target \in Prices, NEW liquidity \in Int,
         NEW remaining \in Int, NEW fee \in FeeShares,
         NEW s, s = SwapStep(from, target, liquidity, remaining, fee)
  PROVE  /\ s.price \in Prices
         /\ \/ /\ s.price = target
               /\ Moves(remaining, fee) >= Needed(from, target, liquidity, remaining)
            \/ /\ liquidity > 0
               /\ Moves(remaining, fee) < Needed(from, target, liquidity, remaining)
               /\ s.price = NextSqrtPrice(from, liquidity, Moves(remaining, fee), from >= target)
<1> DEFINE m == Moves(remaining, fee)
           n == Needed(from, target, liquidity, remaining)
           z == from >= target
<1>1. m \in Nat /\ Signed(n, liquidity)
  BY MovesAre, NeededIs
<1>2. s.price = IF m >= n THEN target ELSE NextSqrtPrice(from, liquidity, m, z)
  BY SwapStepIs
<1>3. z \in BOOLEAN
  OBVIOUS
<1> HIDE DEF m, n, z
<1>4. CASE m >= n
  BY <1>1, <1>2, <1>4 DEF m, n
<1>5. CASE m < n
  <2>1. liquidity > 0
    BY <1>1, <1>5 DEF Signed
  <2>2. s.price = NextSqrtPrice(from, liquidity, m, z)
    BY <1>1, <1>2, <1>5 DEF Signed
  <2>3. liquidity \in Nat \ {0}
    BY <2>1
  <2>4. s.price \in Prices
    BY <1>1, <1>3, <2>2, <2>3, NextPriceIs
  <2> QED
    BY <1>5, <2>1, <2>2, <2>4 DEF m, n, z
<1> QED
  BY <1>1, <1>4, <1>5 DEF Signed

LEMMA StepTypes ==
  ASSUME NEW from \in Prices, NEW target \in Prices, NEW liquidity \in Int,
         NEW remaining \in Int, NEW fee \in FeeShares,
         NEW s, s = SwapStep(from, target, liquidity, remaining, fee)
  PROVE  s.price \in Prices /\ s.in \in Int /\ s.out \in Int /\ s.fee \in Int
<1> DEFINE p == s.price
           z == from >= target
           i == s.in
           g == FeeUnit - fee
           q == MulDivUp(i, fee, g)
           n == i * fee
<1>1. p \in Prices
  BY StepPrice
<1>2. z \in BOOLEAN /\ g \in Nat \ {0} /\ fee \in Int
  BY TickMathAssumption DEF FeeShares
<1>3. /\ i = Paid(z, from, p, liquidity)
      /\ s.out \in {Received(z, from, p, liquidity), -remaining}
      /\ s.fee = IF remaining >= 0 /\ p # target THEN remaining - i ELSE q
  BY SwapStepIs
<1> HIDE DEF p, z, i, g
<1>4. i \in Int /\ Received(z, from, p, liquidity) \in Int
  BY <1>1, <1>2, <1>3, PaidIs DEF Signed
<1>5. q \in Int
  <2>1. n = i * fee /\ q = MulDivUp(i, fee, g)
    OBVIOUS
  <2> HIDE DEF n, q
  <2> QED
    BY <1>2, <1>4, <2>1, MulDivUpIs
<1> HIDE DEF q
<1>6. s.out \in Int /\ s.fee \in Int
  BY <1>3, <1>4, <1>5
<1> QED
  BY <1>1, <1>4, <1>6 DEF p, i

(* What is paid on the way to a target, with the fee, is no more than what *)
(* there is to pay.                                                        *)
LEMMA PaidWithFee ==
  ASSUME NEW remaining \in Nat, NEW fee \in FeeShares, NEW i \in Int, i <= Moves(remaining, fee)
  PROVE  i + MulDivUp(i, fee, FeeUnit - fee) <= remaining
<1> DEFINE g == FeeUnit - fee
           u == FeeUnit
           m == Moves(remaining, fee)
           n == i * fee
           q == MulDivUp(i, fee, g)
<1>1. u \in Nat \ {0} /\ g \in Nat \ {0} /\ fee \in Nat /\ fee = u - g
  BY TickMathAssumption DEF FeeShares
<1>2. m \in Nat /\ u * m <= remaining * g /\ i <= m
  BY MovesAre
<1>3. n = i * fee /\ q = MulDivUp(i, fee, g)
  OBVIOUS
<1> HIDE DEF g, u, m, n, q
<1>4. q \in Int /\ n \in Int /\ g * q < n + g
  BY <1>1, <1>3, MulDivUpIs
<1>5. u * i <= u * m
  BY <1>1, <1>2
<1>6. n = u * i - g * i
  BY <1>1, <1>3
<1>7. g * (i + q) = g * i + g * q
  BY <1>1, <1>4
<1>8. remaining * g + g = g * (remaining + 1)
  BY <1>1
<1>9. /\ u * i \in Int /\ u * m \in Int /\ g * i \in Int /\ g * q \in Int /\ remaining * g \in Int
  BY <1>1, <1>2, <1>4
<1>10. g * (i + q) < g * (remaining + 1)
  BY <1>1, <1>2, <1>4, <1>5, <1>6, <1>7, <1>8, <1>9
<1>11. i + q < remaining + 1
  <2>1. i + q \in Int /\ remaining + 1 \in Int
    BY <1>4
  <2> DEFINE x == i + q
             y == remaining + 1
  <2>2. g * x < g * y
    BY <1>10
  <2>3. x \in Int /\ y \in Int
    BY <2>1
  <2> HIDE DEF x, y
  <2>4. x < y
    BY <1>1, <2>2, <2>3, FactorIsLess
  <2> QED
    BY <2>4 DEF x, y
<1> QED
  BY <1>4, <1>11 DEF q, g

LEMMA NothingOnTheSpot ==
  ASSUME NEW from \in Prices, NEW liquidity \in Int
  PROVE  Paid(TRUE, from, from, liquidity) = 0
<1> DEFINE one == 2 ^ Resolution
           s == liquidity * one
           n == s * 0
           m == MulDivUp(s, 0, from)
           d == DivUp(m, from)
<1>1. from \in Nat \ {0} /\ one \in Int
  BY TickMathAssumption DEF Prices
<1>2. Paid(TRUE, from, from, liquidity) = d
  <2>1. Lower(from, from) = from /\ Upper(from, from) = from /\ from - from = 0
    BY <1>1 DEF Lower, Upper
  <2> QED
    BY <2>1 DEF Paid, Amount0Delta
<1> HIDE DEF one
<1>3. s \in Int /\ n = 0
  BY <1>1
<1>4. n = s * 0 /\ m = MulDivUp(s, 0, from)
  OBVIOUS
<1> HIDE DEF s, n, m
<1>5. m \in Int /\ n <= from * m /\ from * m < n + from
  BY <1>1, <1>3, <1>4, MulDivUpIs
<1>6. m = 0
  <2>1. from * m < from * 1
    BY <1>1, <1>3, <1>5
  <2>2. m < 1
    BY <1>1, <1>5, <2>1, FactorIsLess
  <2>3. m >= 0
    BY <1>1, <1>3, <1>5, RoundedUpSign
  <2> QED
    BY <1>5, <2>2, <2>3
<1>7. d = 0
  <2>1. d \in Int /\ from * d < m + from /\ m <= from * d
    BY <1>1, <1>5, DivUpIs
  <2> HIDE DEF d
  <2>2. from * d < from * 1
    BY <1>1, <1>6, <2>1
  <2>3. d < 1
    BY <1>1, <2>1, <2>2, FactorIsLess
  <2>4. d >= 0
    BY <1>1, <1>6, <2>1, RoundedUpSign
  <2> QED
    BY <2>1, <2>3, <2>4
<1> QED
  BY <1>2, <1>7

Towards(from, target, p) == (target < p /\ p <= from) \/ (from <= p /\ p < target)

LEMMA StepIn ==
  ASSUME NEW from \in Prices, NEW target \in Prices, NEW liquidity \in Nat,
         NEW remaining \in Nat, NEW fee \in FeeShares,
         NEW s, s = SwapStep(from, target, liquidity, remaining, fee)
  PROVE  /\ s.price = target \/ Towards(from, target, s.price)
         /\ s.out \in Nat
         /\ s.in + s.fee <= remaining
<1> DEFINE m == Moves(remaining, fee)
           n == Needed(from, target, liquidity, remaining)
           z == from >= target
           p == s.price
           i == s.in
<1>1. /\ p \in Prices /\ i \in Int /\ s.out \in Int /\ s.fee \in Int
      /\ m \in Nat /\ n = Paid(z, from, target, liquidity)
  BY StepTypes, MovesAre DEF Needed
<1>2. /\ i = Paid(z, from, p, liquidity)
      /\ s.out = Received(z, from, p, liquidity)
      /\ s.fee = IF p # target THEN remaining - i ELSE MulDivUp(i, fee, FeeUnit - fee)
  BY SwapStepIs
<1>3. \/ p = target /\ m >= n
      \/ liquidity > 0 /\ m < n /\ p = NextSqrtPrice(from, liquidity, m, z)
  BY StepPrice
<1>4. z \in BOOLEAN /\ from \in Nat \ {0} /\ target \in Nat \ {0} /\ (z <=> from >= target)
  BY DEF Prices
<1> HIDE DEF m, n, z, p, i
<1>5. s.out \in Nat
  BY <1>1, <1>2, <1>4, PaidIs DEF Signed
<1>6. CASE p = target /\ m >= n
  <2>1. i = n
    BY <1>1, <1>2, <1>6
  <2>2. i <= Moves(remaining, fee)
    BY <1>1, <1>6, <2>1 DEF m
  <2>3. i + MulDivUp(i, fee, FeeUnit - fee) <= remaining
    BY <1>1, <2>2, PaidWithFee
  <2>4. s.in + s.fee <= remaining
    BY <1>2, <1>6, <2>3 DEF i
  <2> QED
    BY <1>5, <1>6, <2>4 DEF p
<1>7. CASE liquidity > 0 /\ m < n /\ p = NextSqrtPrice(from, liquidity, m, z)
  <2>1. liquidity \in Nat \ {0}
    BY <1>7
  <2>2. from # target
    <3> SUFFICES ASSUME from = target
                 PROVE  FALSE
      OBVIOUS
    <3>1. z = TRUE
      BY <1>4
    <3>2. Paid(TRUE, from, from, liquidity) = 0
      <4>1. liquidity \in Int
        OBVIOUS
      <4> QED
        BY <4>1, NothingOnTheSpot, Zenon
    <3>3. n = 0
      BY <1>1, <3>1, <3>2, Zenon
    <3> QED
      BY <1>1, <1>7, <3>3
  <2>3. ASSUME target < from
        PROVE  Towards(from, target, p)
    <3>1. z = TRUE
      BY <1>4, <2>3
    <3>2. n = Amount0Delta(from, target, liquidity, TRUE) /\ p = PriceAfterAmount0(from, liquidity, m)
      BY <1>1, <1>7, <3>1 DEF Paid, NextSqrtPrice
    <3>3. m < Amount0Delta(from, target, liquidity, TRUE)
      BY <1>7, <3>2, Zenon
    <3>4. target < p /\ p <= from
      BY <1>1, <2>1, <2>3, <3>2, <3>3, ShortOfLower
    <3> QED
      BY <1>1, <1>4, <3>4 DEF Towards
  <2>4. ASSUME from < target
        PROVE  Towards(from, target, p)
    <3>1. z = FALSE
      BY <1>4, <2>4
    <3>2. n = Amount1Delta(from, target, liquidity, TRUE) /\ p = PriceAfterAmount1(from, liquidity, m)
      BY <1>1, <1>7, <3>1 DEF Paid, NextSqrtPrice
    <3>3. m < Amount1Delta(from, target, liquidity, TRUE)
      BY <1>7, <3>2, Zenon
    <3>4. from <= p /\ p < target
      BY <1>1, <2>1, <2>4, <3>2, <3>3, ShortOfUpper
    <3> QED
      BY <1>1, <1>4, <3>4 DEF Towards
  <2>5. Towards(from, target, p)
    BY <1>4, <2>2, <2>3, <2>4
  <2>6. p # target
    BY <1>1, <1>4, <2>5 DEF Towards, Prices
  <2>7. i + s.fee = remaining
    BY <1>1, <1>2, <2>6
  <2> QED
    BY <1>5, <2>5, <2>7 DEF p, i
<1> QED
  BY <1>3, <1>6, <1>7

-----------------------------------------------------------------------------
(* Ticks and their prices.                                                 *)

LEMMA PriceRises ==
  ASSUME NEW low \in MinTick .. MaxTick, NEW high \in MinTick .. MaxTick
  PROVE  /\ PriceAt[low] \in Prices
         /\ PriceAt[low] < PriceAt[high] => low < high
         /\ PriceAt[low] = PriceAt[high] => low = high
         /\ low <= high => PriceAt[low] <= PriceAt[high]
<1>1. low \in Int /\ high \in Int
  OBVIOUS
<1>2. PriceAt[low] \in Prices /\ PriceAt[high] \in Prices
  BY PricesIncrease DEF Prices
<1>3. (low < high => PriceAt[low] < PriceAt[high]) /\ (high < low => PriceAt[high] < PriceAt[low])
  BY PricesIncrease
<1> DEFINE p == PriceAt[low]
           q == PriceAt[high]
<1>4. p \in Int /\ q \in Int /\ (low < high => p < q) /\ (high < low => q < p) /\ (low = high => p = q)
  BY <1>2, <1>3 DEF Prices
<1> HIDE DEF p, q
<1>5. (p < q => low < high) /\ (p = q => low = high) /\ (low <= high => p <= q)
  BY <1>1, <1>4
<1> QED
  BY <1>2, <1>5 DEF p, q

(* Between the lowest and the highest price there is a tick of the price.  *)
LEMMA TickExists ==
  ASSUME NEW price \in Int, MinSqrtRatio <= price, price < MaxSqrtRatio
  PROVE  \E tick \in MinTick .. MaxTick - 1 : PriceAt[tick] <= price /\ price < PriceAt[tick + 1]
<1> DEFINE D == {n \in Nat : MinTick + n <= MaxTick => PriceAt[MinTick + n] <= price}
<1>1. MaxTick \in Nat \ {0} /\ MinTick = 0 - MaxTick
  BY TickMathAssumption DEF MinTick
<1>2. 0 \in D
  <2>1. MinTick + 0 = MinTick
    BY <1>1
  <2> QED
    BY <2>1 DEF MinSqrtRatio
<1>3. D # Nat
  <2>1. MinTick + 2 * MaxTick = MaxTick /\ 2 * MaxTick \in Nat
    BY <1>1
  <2>2. PriceAt[MaxTick] \in Int
    BY <1>1, PricesIncrease
  <2>3. 2 * MaxTick \notin D
    BY <1>1, <2>1, <2>2 DEF MaxSqrtRatio
  <2> QED
    BY <2>1, <2>3
<1>4. PICK n \in D : n + 1 \notin D
  <2>1. D \in SUBSET Nat
    OBVIOUS
  <2> HIDE DEF D
  <2> QED
    BY <1>2, <1>3, <2>1, Induction
<1> DEFINE t == MinTick + n
<1>5. n \in Nat /\ n + 1 \in Nat /\ MinTick + (n + 1) = t + 1
  BY <1>1
<1>6. t + 1 <= MaxTick /\ ~(PriceAt[t + 1] <= price)
  BY <1>4, <1>5
<1>7. t \in MinTick .. MaxTick - 1 /\ t + 1 \in MinTick .. MaxTick /\ t \in MinTick .. MaxTick
  BY <1>1, <1>5, <1>6
<1>8. PriceAt[t] <= price
  BY <1>1, <1>4, <1>5, <1>7
<1>9. PriceAt[t + 1] \in Int
  BY <1>7, PricesIncrease
<1>10. price < PriceAt[t + 1]
  BY <1>6, <1>9
<1> QED
  BY <1>7, <1>8, <1>10

(* The code finds it.                                                      *)
LEMMA TickAtSqrtRatioIs ==
  ASSUME NEW price \in Int, MinSqrtRatio <= price, price < MaxSqrtRatio
  PROVE  LET t == TickAtSqrtRatio(price)
         IN  t \in MinTick .. MaxTick - 1 /\ PriceAt[t] <= price /\ price < PriceAt[t + 1]
<1>1. PICK t \in MinTick .. MaxTick - 1 : PriceAt[t] <= price /\ price < PriceAt[t + 1]
  BY TickExists
<1> DEFINE low == LowTick(price)
           high == HighTick(price)
<1>2. MaxTick \in Nat \ {0} /\ MinTick = 0 - MaxTick
  BY TickMathAssumption DEF MinTick
<1>3. /\ t \in MinTick .. MaxTick /\ t + 1 \in MinTick .. MaxTick
      /\ PriceAt[t] \in Int /\ PriceAt[t + 1] \in Int
  <2>1. t \in MinTick .. MaxTick /\ t + 1 \in MinTick .. MaxTick
    BY <1>2
  <2> QED
    BY <2>1, PricesIncrease
<1>4. price \in PriceAt[t] .. PriceAt[t + 1] - 1
  BY <1>1, <1>3
<1>5. low \in Int /\ low <= t /\ high \in {t, low + 1} /\ t <= high
  BY <1>4, LogIsClose
<1>6. SqrtRatioAtTick(t) = PriceAt[t] /\ SqrtRatioAtTick(t + 1) = PriceAt[t + 1]
  BY <1>3 DEF PriceAt
<1>7. TickAtSqrtRatio(price) = IF low = high \/ SqrtRatioAtTick(high) > price THEN low ELSE high
  BY DEF TickAtSqrtRatio
<1> HIDE DEF low, high
<1>8. CASE low = high
  BY <1>2, <1>5, <1>7, <1>1, <1>8
<1>9. CASE low # high /\ high = t
  <2>1. ~(SqrtRatioAtTick(high) > price)
    BY <1>1, <1>3, <1>6, <1>9
  <2> QED
    BY <1>1, <1>7, <1>9, <2>1
<1>10. CASE low # high /\ high # t
  <2>1. high = t + 1 /\ low = t
    BY <1>2, <1>5, <1>10
  <2>2. SqrtRatioAtTick(high) > price
    BY <1>1, <1>3, <1>6, <2>1
  <2> QED
    BY <1>1, <1>7, <2>1, <2>2
<1> QED
  BY <1>8, <1>9, <1>10

-----------------------------------------------------------------------------
(* The bits of a word.                                                     *)

LEMMA MostSignificantBitIs ==
  ASSUME NEW n \in Nat, NEW S \in SUBSET (0 .. n), S # {}
  PROVE  MostSignificantBit(S) \in S /\ \A y \in S : y <= MostSignificantBit(S)
<1> DEFINE D == {k \in Nat : \A T \in SUBSET (0 .. k) : T # {} => \E x \in T : \A y \in T : x >= y}
<1>1. 0 \in D
  <2>1. ASSUME NEW T \in SUBSET (0 .. 0), T # {}
        PROVE  0 \in T /\ \A y \in T : y = 0
    <3>1. \A y \in T : y \in 0 .. 0
      BY Zenon
    <3>2. \A y \in T : y = 0
      BY <3>1
    <3>3. PICK y \in T : TRUE
      BY <2>1
    <3> QED
      BY <3>2, <3>3
  <2> QED
    BY <2>1
<1>2. ASSUME NEW k \in D
      PROVE  k + 1 \in D
  <2> SUFFICES ASSUME NEW T \in SUBSET (0 .. k + 1), T # {}
               PROVE  \E x \in T : \A y \in T : x >= y
    OBVIOUS
  <2>1. CASE k + 1 \in T
    BY <2>1
  <2>2. CASE k + 1 \notin T
    <3>1. T \in SUBSET (0 .. k)
      BY <2>2
    <3> QED
      BY <3>1
  <2> QED
    BY <2>1, <2>2
<1>3. D = Nat
  <2>1. D \in SUBSET Nat
    OBVIOUS
  <2> HIDE DEF D
  <2> QED
    BY <1>1, <1>2, <2>1, Induction
<1>4. \E x \in S : \A y \in S : x >= y
  BY <1>3
<1>5. Max(S) \in S /\ \A y \in S : Max(S) >= y
  BY <1>4 DEF Max
<1> DEFINE m == Max(S)
<1>6. m \in S /\ \A y \in S : m >= y
  BY <1>5
<1> HIDE DEF m
<1>7. \A y \in S : y <= m
  BY <1>6
<1> QED
  BY <1>6, <1>7 DEF m, MostSignificantBit

LEMMA LeastSignificantBitIs ==
  ASSUME NEW n \in Nat, NEW S \in SUBSET (0 .. n), S # {}
  PROVE  LeastSignificantBit(S) \in S /\ \A y \in S : LeastSignificantBit(S) <= y
<1> DEFINE D == {k \in Nat : \A T \in SUBSET (0 .. k) : T # {} => \E x \in T : \A y \in T : x <= y}
<1>1. 0 \in D
  <2>1. ASSUME NEW T \in SUBSET (0 .. 0), T # {}
        PROVE  0 \in T /\ \A y \in T : y = 0
    <3>1. \A y \in T : y \in 0 .. 0
      BY Zenon
    <3>2. \A y \in T : y = 0
      BY <3>1
    <3>3. PICK y \in T : TRUE
      BY <2>1
    <3> QED
      BY <3>2, <3>3
  <2> QED
    BY <2>1
<1>2. ASSUME NEW k \in D
      PROVE  k + 1 \in D
  <2> SUFFICES ASSUME NEW T \in SUBSET (0 .. k + 1), T # {}
               PROVE  \E x \in T : \A y \in T : x <= y
    OBVIOUS
  <2>1. CASE T \ {k + 1} = {}
    BY <2>1
  <2>2. CASE T \ {k + 1} # {}
    <3>1. T \ {k + 1} \in SUBSET (0 .. k)
      OBVIOUS
    <3>2. PICK x \in T \ {k + 1} : \A y \in T \ {k + 1} : x <= y
      BY <2>2, <3>1
    <3>3. x <= k + 1 /\ x \in T
      BY <3>1
    <3> QED
      BY <3>2, <3>3
  <2> QED
    BY <2>1, <2>2
<1>3. D = Nat
  <2>1. D \in SUBSET Nat
    OBVIOUS
  <2> HIDE DEF D
  <2> QED
    BY <1>1, <1>2, <2>1, Induction
<1>4. \E x \in S : \A y \in S : x <= y
  BY <1>3
<1>5. Min(S) \in S /\ \A y \in S : Min(S) <= y
  BY <1>4 DEF Min
<1> QED
  BY <1>5 DEF LeastSignificantBit

LEMMA NextTickIs ==
  ASSUME NEW w, w.tick \in Int, NEW bits \in SUBSET (0 .. WordSize - 1)
  PROVE  \E bit \in 0 .. WordSize - 1 :
           /\ NextTick(w, bits) = (WordOf(First(w)) * WordSize + bit) * TickSpacing
           /\ Masked(w, bits) # {} => bit \in Masked(w, bits)
           /\ Masked(w, bits) = {} => bit = IF w.reverse THEN WordSize - 1 ELSE 0
           /\ w.reverse => /\ BitOf(First(w)) <= bit
                           /\ \A b \in bits : BitOf(First(w)) <= b => bit <= b
           /\ ~w.reverse => /\ bit <= BitOf(First(w))
                            /\ \A b \in bits : b <= BitOf(First(w)) => b <= bit
<1> DEFINE c == First(w)
           f == BitOf(c)
           masked == Masked(w, bits)
           bit == IF w.reverse
                  THEN IF masked # {} THEN LeastSignificantBit(masked) ELSE WordSize - 1
                  ELSE IF masked # {} THEN MostSignificantBit(masked) ELSE 0
<1>1. WordSize \in Nat \ {0} /\ TickSpacing \in Nat \ {0}
  BY WalkAssumption
<1>2. c \in Int
  <2> DEFINE t == w.tick
  <2>1. c = IF w.reverse THEN t \div TickSpacing + 1 ELSE t \div TickSpacing
    BY DEF First
  <2> HIDE DEF t, c
  <2>2. t \div TickSpacing \in Int
    BY <1>1, DivisionRounds DEF t
  <2> QED
    BY <2>1, <2>2
<1>3. masked = {b \in bits : IF w.reverse THEN b >= f ELSE b <= f}
  BY DEF Masked
<1>4. NextTick(w, bits) = (c + (bit - f)) * TickSpacing
  BY DEF NextTick
<1> HIDE DEF c, masked
<1>5. /\ WordOf(c) \in Int /\ f \in 0 .. WordSize - 1
      /\ c = WordOf(c) * WordSize + f
  BY <1>1, <1>2, Z3 DEF WordOf, BitOf
<1> HIDE DEF f
<1>15. masked \subseteq bits
  BY <1>3
<1>6. WordSize - 1 \in Nat /\ masked \in SUBSET (0 .. WordSize - 1)
  <2>1. masked \in SUBSET (0 .. WordSize - 1)
    BY <1>15, Zenon
  <2> QED
    BY <1>1, <2>1
<1>7. masked # {} => bit \in masked
  BY <1>6, LeastSignificantBitIs, MostSignificantBitIs
<1>8. masked = {} => bit = IF w.reverse THEN WordSize - 1 ELSE 0
  OBVIOUS
<1>9. w.reverse => \A b \in masked : bit <= b
  BY <1>6, LeastSignificantBitIs
<1>10. ~w.reverse => \A b \in masked : b <= bit
  BY <1>6, MostSignificantBitIs
<1> HIDE DEF bit
<1>11. bit \in 0 .. WordSize - 1
  <2>1. WordSize - 1 \in 0 .. WordSize - 1 /\ 0 \in 0 .. WordSize - 1
    BY <1>1
  <2>2. \A b \in masked : b \in 0 .. WordSize - 1
    BY <1>6, Zenon
  <2> QED
    BY <1>7, <1>8, <2>1, <2>2
<1>12. w.reverse => f <= bit /\ \A b \in bits : f <= b => bit <= b
  <2> SUFFICES ASSUME w.reverse
               PROVE  f <= bit /\ \A b \in bits : f <= b => bit <= b
    OBVIOUS
  <2>1. \A b \in bits : b \in masked <=> f <= b
    BY <1>3, <1>5
  <2>2. f <= bit
    BY <1>1, <1>3, <1>5, <1>7, <1>8
  <2> QED
    BY <1>9, <2>1, <2>2
<1>13. ~w.reverse => bit <= f /\ \A b \in bits : b <= f => b <= bit
  <2> SUFFICES ASSUME ~w.reverse
               PROVE  bit <= f /\ \A b \in bits : b <= f => b <= bit
    OBVIOUS
  <2>1. \A b \in bits : b \in masked <=> b <= f
    BY <1>3
  <2>2. bit <= f
    BY <1>1, <1>3, <1>5, <1>7, <1>8
  <2> QED
    BY <1>10, <2>1, <2>2
<1>14. NextTick(w, bits) = (WordOf(c) * WordSize + bit) * TickSpacing
  <2>1. c + (bit - f) = WordOf(c) * WordSize + bit
    BY <1>1, <1>5, <1>11
  <2> QED
    BY <1>4, <2>1
<1> QED
  BY <1>7, <1>8, <1>11, <1>12, <1>13, <1>14 DEF c, f, masked

(* It lies in the direction of the walk.                                   *)
LEMMA NextTickIsBeyond ==
  ASSUME NEW w, w.tick \in Int, NEW bits \in SUBSET (0 .. WordSize - 1),
         NEW next, next = NextTick(w, bits)
  PROVE  next \in Int /\ (w.reverse => w.tick < next) /\ (~w.reverse => next <= w.tick)
<1> DEFINE t == w.tick
           c == First(w)
           d == t \div TickSpacing
           word == WordOf(c)
           f == BitOf(c)
           W == WordSize
           S == TickSpacing
<1>1. W \in Nat \ {0} /\ S \in Nat \ {0} /\ t \in Int
  BY WalkAssumption
<1>2. c = IF w.reverse THEN d + 1 ELSE d
  BY DEF First
<1>3. PICK bit \in 0 .. W - 1 :
           /\ next = (word * W + bit) * S
           /\ w.reverse => f <= bit
           /\ ~w.reverse => bit <= f
  BY NextTickIs
<1>4. d = t \div S
  OBVIOUS
<1> HIDE DEF c, d, t, W, S
<1>5. d \in Int /\ S * d <= t /\ t < S * d + S
  BY <1>1, <1>4, DivisionRounds
<1>6. c \in Int
  BY <1>2, <1>5
<1>7. word \in Int /\ f \in 0 .. W - 1 /\ c = word * W + f
  BY <1>1, <1>6, Z3 DEF WordOf, BitOf, W
<1> HIDE DEF word, f
<1> DEFINE n == word * W + bit
<1>8. n \in Int /\ n = c + (bit - f)
  <2>1. word * W \in Int
    BY <1>1, <1>7
  <2> QED
    BY <1>1, <1>3, <1>7, <2>1
<1>9. next = n * S
  BY <1>3
<1> HIDE DEF n
<1>10. next \in Int /\ S * n = next
  BY <1>1, <1>8, <1>9
<1>11. ASSUME w.reverse
       PROVE  t < next
  <2>1. c = d + 1 /\ n >= c
    BY <1>1, <1>2, <1>3, <1>7, <1>8, <1>11
  <2>2. S * c <= S * n
    BY <1>1, <1>6, <1>8, <2>1
  <2>3. S * c = S * d + S
    BY <1>1, <1>5, <2>1
  <2> QED
    BY <1>1, <1>5, <1>6, <1>10, <2>2, <2>3
<1>12. ASSUME ~w.reverse
       PROVE  next <= t
  <2>1. c = d /\ n <= c
    BY <1>1, <1>2, <1>3, <1>7, <1>8, <1>12
  <2>2. S * n <= S * d
    BY <1>1, <1>6, <1>8, <2>1
  <2> QED
    BY <1>1, <1>5, <1>6, <1>10, <2>2
<1> QED
  BY <1>10, <1>11, <1>12 DEF t

(* An end of a position is a multiple of the spacing.                      *)
LEMMA EndIs ==
  ASSUME NEW t \in Ends
  PROVE  t \in MinTick .. MaxTick /\ t \div TickSpacing \in Int
         /\ t = (t \div TickSpacing) * TickSpacing
<1>1. t \in MinTick .. MaxTick /\ t % TickSpacing = 0 /\ TickSpacing \in Nat \ {0}
  BY WalkAssumption DEF Ends
<1>2. t \in Int
  BY <1>1
<1> QED
  BY <1>1, <1>2, Z3

LEMMA InitializedIsEnd ==
  ASSUME Minted, NEW t, IsInitialized(t)
  PROVE  t \in Ends
BY DEF Minted, IsInitialized, Ends

LEMMA BitIsSet ==
  ASSUME Minted, NEW e \in Int, IsInitialized(e * TickSpacing), NEW word \in Int,
         NEW b \in 0 .. WordSize - 1, e = word * WordSize + b
  PROVE  b \in BitsOnChain(word)
BY DEF BitsOnChain

(* No initialized tick is passed over.                                     *)
LEMMA NoTickIsMissed ==
  ASSUME Minted, NEW w, w.tick \in Int,
         NEW bits, bits = BitsOnChain(WordOf(First(w))), NEW next, next = NextTick(w, bits)
  PROVE  /\ next \in Int
         /\ w.reverse => /\ w.tick < next
                         /\ \A v \in w.tick + 1 .. next - 1 : ~IsInitialized(v)
         /\ ~w.reverse => /\ next <= w.tick
                          /\ \A v \in next + 1 .. w.tick : ~IsInitialized(v)
         /\ Masked(w, bits) # {} <=> IsInitialized(next)
<1> DEFINE t == w.tick
           c == First(w)
           d == t \div TickSpacing
           word == WordOf(c)
           f == BitOf(c)
           W == WordSize
           S == TickSpacing
<1>1. W \in Nat \ {0} /\ S \in Nat \ {0} /\ t \in Int
  BY WalkAssumption
<1>2. c = IF w.reverse THEN d + 1 ELSE d
  BY DEF First
<1>3. bits \in SUBSET (0 .. W - 1)
  BY DEF BitsOnChain
<1>4. PICK bit \in 0 .. W - 1 :
           /\ next = (word * W + bit) * S
           /\ Masked(w, bits) # {} => bit \in Masked(w, bits)
           /\ Masked(w, bits) = {} => bit = IF w.reverse THEN W - 1 ELSE 0
           /\ w.reverse => f <= bit /\ \A b \in bits : f <= b => bit <= b
           /\ ~w.reverse => bit <= f /\ \A b \in bits : b <= f => b <= bit
  BY <1>1, <1>3, NextTickIs
<1>5. Masked(w, bits) \subseteq bits
  BY DEF Masked
<1>6. bit \in bits => IsInitialized(next)
  BY <1>4 DEF BitsOnChain
<1>20. \A b \in bits : (IF w.reverse THEN b >= f ELSE b <= f) => b \in Masked(w, bits)
  BY DEF Masked
<1>7. \A b \in 0 .. W - 1 : IsInitialized((word * W + b) * S) => b \in bits
  BY DEF BitsOnChain
<1>21. d = t \div S
  OBVIOUS
<1> HIDE DEF c, d, t, W, S
<1>8. d \in Int /\ S * d <= t /\ t < S * d + S
  BY <1>1, <1>21, DivisionRounds
<1>9. c \in Int
  BY <1>2, <1>8
<1>10. word \in Int /\ f \in 0 .. W - 1 /\ c = word * W + f
  BY <1>1, <1>9, Z3 DEF WordOf, BitOf, W
<1> HIDE DEF word, f
<1> DEFINE n == word * W + bit
<1>11. n \in Int /\ next = n * S /\ next \in Int /\ n = c + (bit - f)
  <2>1. word * W \in Int
    BY <1>1, <1>10
  <2>2. n \in Int /\ n = c + (bit - f)
    BY <1>1, <1>4, <1>10, <2>1
  <2> HIDE DEF n
  <2>3. n * S \in Int
    BY <1>1, <2>2
  <2> QED
    BY <1>4, <2>2, <2>3 DEF n
(* Any initialized tick is some place times the spacing.                   *)
<1>12. ASSUME NEW v \in Int, IsInitialized(v)
       PROVE  \E e \in Int : v = e * S /\ (e - word * W \in 0 .. W - 1 => e - word * W \in bits)
  <2> DEFINE e == v \div S
  <2>1. v \in Ends
    BY <1>12, InitializedIsEnd
  <2>2. e \in Int /\ v = e * S
    BY <2>1, EndIs DEF S
  <2> HIDE DEF e
  <2>3. e - word * W \in 0 .. W - 1 => e - word * W \in bits
    <3>1. word * W \in Int
      BY <1>1, <1>10
    <3> DEFINE b == e - word * W
    <3>2. e = word * W + b
      BY <2>2, <3>1
    <3> HIDE DEF b
    <3>3. b \in 0 .. W - 1 => b \in bits
      BY <1>7, <1>12, <2>2, <3>2
    <3> QED
      BY <3>3 DEF b
  <2> QED
    BY <2>2, <2>3
<1> HIDE DEF n
<1>13. Masked(w, bits) # {} => IsInitialized(next)
  BY <1>4, <1>5, <1>6
<1>14. IsInitialized(next) => Masked(w, bits) # {}
  <2> SUFFICES ASSUME IsInitialized(next)
               PROVE  bit \in Masked(w, bits)
    OBVIOUS
  <2>1. bit \in bits
    BY <1>4, <1>7
  <2> QED
    BY <1>4, <1>10, <1>20, <2>1
<1>15. ASSUME w.reverse
       PROVE  t < next /\ \A v \in t + 1 .. next - 1 : ~IsInitialized(v)
  <2>1. c = d + 1 /\ n >= c
    BY <1>2, <1>4, <1>10, <1>11, <1>15
  <2>2. t < next
    <3>1. S * c <= S * n
      BY <1>1, <1>9, <1>11, <2>1
    <3>2. S * c = S * d + S
      BY <1>1, <1>8, <2>1
    <3>3. S * n = next
      BY <1>1, <1>11
    <3> QED
      BY <1>1, <1>8, <1>9, <1>11, <3>1, <3>2, <3>3
  <2>3. ASSUME NEW v \in t + 1 .. next - 1, IsInitialized(v)
        PROVE  FALSE
    <3>1. v \in Int /\ t < v /\ v < next
      BY <1>1, <1>11, <2>3
    <3>2. PICK e \in Int : v = e * S /\ (e - word * W \in 0 .. W - 1 => e - word * W \in bits)
      BY <1>12, <2>3, <3>1
    <3>3. c <= e
      <4>1. S * d < S * e
        BY <1>1, <1>8, <3>1, <3>2
      <4>2. d < e
        BY <1>1, <1>8, <4>1, FactorIsLess
      <4> QED
        BY <1>8, <2>1, <4>2
    <3>4. e < n
      <4>1. S * e < S * n
        BY <1>1, <1>11, <3>1, <3>2
      <4> QED
        BY <1>1, <1>11, <4>1, FactorIsLess
    <3> DEFINE b == e - word * W
    <3>5. b \in Int /\ f <= b /\ b < bit
      <4>1. word * W \in Int
        BY <1>1, <1>10
      <4> QED
        BY <1>10, <3>3, <3>4, <4>1 DEF n
    <3>6. b \in 0 .. W - 1 => b \in bits
      BY <3>2
    <3> HIDE DEF b
    <3>7. b \in bits
      BY <1>1, <1>10, <3>5, <3>6
    <3> QED
      BY <1>4, <1>15, <3>5, <3>7
  <2> QED
    BY <2>2, <2>3
<1>16. ASSUME ~w.reverse
       PROVE  next <= t /\ \A v \in next + 1 .. t : ~IsInitialized(v)
  <2>1. c = d /\ n <= c
    BY <1>2, <1>4, <1>10, <1>11, <1>16
  <2>2. next <= t
    <3>1. S * n <= S * d
      BY <1>1, <1>9, <1>11, <2>1
    <3>3. S * n = next
      BY <1>1, <1>11
    <3> QED
      BY <1>1, <1>8, <1>9, <1>11, <3>1, <3>3
  <2>3. ASSUME NEW v \in next + 1 .. t, IsInitialized(v)
        PROVE  FALSE
    <3>1. v \in Int /\ next < v /\ v <= t
      BY <1>1, <1>11, <2>3
    <3>2. PICK e \in Int : v = e * S /\ (e - word * W \in 0 .. W - 1 => e - word * W \in bits)
      BY <1>12, <2>3, <3>1
    <3>3. e <= c
      <4>1. S * e < S * (d + 1)
        BY <1>1, <1>8, <3>1, <3>2
      <4>2. d + 1 \in Int
        BY <1>8
      <4>3. e < d + 1
        BY <1>1, <4>1, <4>2, FactorIsLess
      <4> QED
        BY <1>8, <2>1, <4>3
    <3>4. n < e
      <4>1. S * n < S * e
        BY <1>1, <1>11, <3>1, <3>2
      <4> QED
        BY <1>1, <1>11, <4>1, FactorIsLess
    <3> DEFINE b == e - word * W
    <3>5. b \in Int /\ b <= f /\ bit < b
      <4>1. word * W \in Int
        BY <1>1, <1>10
      <4> QED
        BY <1>10, <3>3, <3>4, <4>1 DEF n
    <3>6. b \in 0 .. W - 1 => b \in bits
      BY <3>2
    <3> HIDE DEF b
    <3>7. b \in bits
      BY <1>1, <1>4, <1>10, <3>5, <3>6
    <3> QED
      BY <1>4, <1>16, <3>5, <3>7
  <2> QED
    BY <2>2, <2>3
<1> QED
  BY <1>11, <1>13, <1>14, <1>15, <1>16 DEF t

-----------------------------------------------------------------------------
(* What is kept of the chain's last block is what the chain has.           *)

(* A word's bits that ends of positions have lead to an end.               *)
LEMMA NextTickIsEnd ==
  ASSUME NEW w, w.tick \in Int, NEW bits \in SUBSET EndBits(WordOf(First(w))),
         Masked(w, bits) # {}
  PROVE  NextTick(w, bits) \in Ends
<1>1. bits \in SUBSET (0 .. WordSize - 1)
  BY DEF EndBits
<1>2. PICK bit \in 0 .. WordSize - 1 :
        /\ NextTick(w, bits) = (WordOf(First(w)) * WordSize + bit) * TickSpacing
        /\ bit \in Masked(w, bits)
  BY <1>1, NextTickIs
<1>3. bit \in bits
  BY <1>2 DEF Masked
<1> QED
  BY <1>2, <1>3 DEF EndBits

LEMMA ClampedIs ==
  ASSUME NEW n \in Int
  PROVE  /\ Clamped(n) \in MinTick .. MaxTick
         /\ n \in MinTick .. MaxTick => Clamped(n) = n
         /\ \A u \in Int : (n <= u /\ MinTick <= u) => Clamped(n) <= u
         /\ \A u \in Int : (u < n /\ u < MaxTick) => u < Clamped(n)
         /\ n < Clamped(n) => Clamped(n) = MinTick
         /\ Clamped(n) < n => Clamped(n) = MaxTick
<1>1. MaxTick \in Nat \ {0} /\ MinTick = 0 - MaxTick
  BY TickMathAssumption DEF MinTick
<1> QED
  BY <1>1 DEF Clamped

(* What changing some fields of a walk makes of it.                        *)
LEMMA AmountsAndPrice ==
  ASSUME NEW r, NEW l, NEW o, NEW p, NEW q, NEW t, NEW y,
         NEW w, w = [reverse |-> r, left |-> l, out |-> o, paid |-> p, price |-> q,
                     tick |-> t, liquidity |-> y],
         NEW a, NEW b, NEW c, NEW m,
         m = [w EXCEPT !.price = c, !.left = @ - a, !.out = @ + b]
  PROVE  m = [reverse |-> r, left |-> l - a, out |-> o + b, paid |-> p, price |-> c,
              tick |-> t, liquidity |-> y]
  OBVIOUS

LEMMA TickAndLiquidity ==
  ASSUME NEW r, NEW l, NEW o, NEW p, NEW q, NEW t, NEW y,
         NEW w, w = [reverse |-> r, left |-> l, out |-> o, paid |-> p, price |-> q,
                     tick |-> t, liquidity |-> y],
         NEW a, NEW b, NEW m, m = [w EXCEPT !.liquidity = b, !.tick = a]
  PROVE  m = [reverse |-> r, left |-> l, out |-> o, paid |-> p, price |-> q,
              tick |-> a, liquidity |-> b]
  OBVIOUS

(* What a step of the walk leaves behind.                                  *)
LEMMA StepToIs ==
  ASSUME WalkTypes, NEW next, NEW initialized, StepTo(next, initialized),
         NEW s, s = SwapStep(walk.price, PriceAt[next], walk.liquidity, walk.left, Fee)
  PROVE  \/ pc' = "raised" /\ walk' = Idle /\ initialized /\ tickData[next] = Unset
         \/ /\ pc' = "loop"
            /\ ~(s.price = PriceAt[next] /\ initialized /\ tickData[next] = Unset)
            /\ walk' = [reverse |-> walk.reverse,
                        left |-> walk.left - (s.in + s.fee),
                        out |-> walk.out + s.out,
                        paid |-> walk.paid,
                        price |-> s.price,
                        tick |-> IF s.price = PriceAt[next] THEN TickBeyond(walk, next)
                                 ELSE IF s.price # walk.price THEN TickAtSqrtRatio(s.price)
                                 ELSE walk.tick,
                        liquidity |-> IF s.price = PriceAt[next] /\ initialized
                                      THEN Crossed(walk, tickData[next]) ELSE walk.liquidity]
<1> DEFINE reached == s.price = PriceAt[next]
           unknown == tickData[next] = Unset
           moved == [walk EXCEPT !.price = s.price, !.left = @ - (s.in + s.fee), !.out = @ + s.out]
           tick == IF reached THEN TickBeyond(walk, next)
                   ELSE IF s.price # walk.price THEN TickAtSqrtRatio(s.price) ELSE walk.tick
           liquidity == IF reached /\ initialized THEN Crossed(walk, tickData[next])
                        ELSE walk.liquidity
<1>1. \/ reached /\ initialized /\ unknown /\ pc' = "raised" /\ walk' = Idle
      \/ /\ ~(reached /\ initialized /\ unknown) /\ pc' = "loop"
         /\ walk' = [moved EXCEPT !.liquidity = IF reached /\ initialized
                                                THEN Crossed(walk, tickData[next]) ELSE @,
                                  !.tick = IF reached THEN TickBeyond(walk, next)
                                           ELSE IF s.price # walk.price
                                                THEN TickAtSqrtRatio(s.price) ELSE @]
  BY DEF StepTo
<1>2. walk = [reverse |-> walk.reverse, left |-> walk.left, out |-> walk.out,
              paid |-> walk.paid, price |-> walk.price, tick |-> walk.tick,
              liquidity |-> walk.liquidity]
  BY DEF WalkTypes
<1>3. moved = [reverse |-> walk.reverse, left |-> walk.left - (s.in + s.fee),
               out |-> walk.out + s.out, paid |-> walk.paid, price |-> s.price,
               tick |-> walk.tick, liquidity |-> walk.liquidity]
  <2> DEFINE m == moved
             a == s.in + s.fee
             b == s.out
             c == s.price
  <2>1. m = [walk EXCEPT !.price = c, !.left = @ - a, !.out = @ + b]
    OBVIOUS
  <2> HIDE DEF m, a, b, c
  <2>2. m = [reverse |-> walk.reverse, left |-> walk.left - a, out |-> walk.out + b,
             paid |-> walk.paid, price |-> c, tick |-> walk.tick,
             liquidity |-> walk.liquidity]
    BY <1>2, <2>1, AmountsAndPrice
  <2> QED
    BY <2>2 DEF m, a, b, c
<1> HIDE DEF moved
<1>4. moved.tick = walk.tick /\ moved.liquidity = walk.liquidity
  BY <1>3
<1>5. ~(reached /\ initialized /\ unknown) /\ pc' = "loop"
        => walk' = [moved EXCEPT !.liquidity = liquidity, !.tick = tick]
  BY <1>1, <1>4
<1> HIDE DEF tick, liquidity
<1>6. ASSUME walk' = [moved EXCEPT !.liquidity = liquidity, !.tick = tick]
      PROVE  walk' = [reverse |-> walk.reverse, left |-> walk.left - (s.in + s.fee),
                      out |-> walk.out + s.out, paid |-> walk.paid, price |-> s.price,
                      tick |-> tick, liquidity |-> liquidity]
  BY <1>3, <1>6, TickAndLiquidity
<1>7. \/ pc' = "raised" /\ walk' = Idle /\ initialized /\ unknown
      \/ /\ ~(reached /\ initialized /\ unknown) /\ pc' = "loop"
         /\ walk' = [reverse |-> walk.reverse, left |-> walk.left - (s.in + s.fee),
                     out |-> walk.out + s.out, paid |-> walk.paid, price |-> s.price,
                     tick |-> tick, liquidity |-> liquidity]
  BY <1>1, <1>5, <1>6
<1> QED
  BY <1>7 DEF tick, liquidity

LEMMA WordIsThere ==
  ASSUME NEW w, w.tick \in MinTick .. MaxTick - 1
  PROVE  WordOf(First(w)) \in Words
<1> DEFINE t == w.tick
           S == TickSpacing
           c == First(w)
           low == MinTick \div S
           high == MaxTick \div S
           d == t \div S
<1>1. /\ MaxTick \in Nat \ {0} /\ MinTick = 0 - MaxTick /\ S \in Nat \ {0}
      /\ t \in Int /\ MinTick <= t /\ t < MaxTick
  BY TickMathAssumption, WalkAssumption DEF MinTick
<1>2. c = d \/ c = d + 1
  BY DEF First
<1>3. d = t \div S /\ low = MinTick \div S /\ high = MaxTick \div S
  OBVIOUS
<1>4. Words = {WordOf(x) : x \in low .. high + 1}
  BY DEF Words
<1> HIDE DEF t, S, c, low, high, d
<1>5. d \in Int /\ low \in Int /\ high \in Int /\ S * d <= t /\ S * low <= MinTick
  BY <1>1, <1>3, DivisionRounds
<1>6. low <= d
  <2>1. S * low <= t
    BY <1>1, <1>5
  <2> QED
    BY <1>1, <1>3, <1>5, <2>1, QuotientIsNoLess
<1>7. d <= high
  <2>1. S * d <= MaxTick
    BY <1>1, <1>5
  <2>2. MaxTick \in Int
    BY <1>1
  <2> QED
    BY <1>1, <1>3, <1>5, <2>1, <2>2, QuotientIsNoLess
<1>8. c \in low .. high + 1
  BY <1>2, <1>5, <1>6, <1>7
<1> QED
  BY <1>4, <1>8 DEF c

(* Where the next step goes.                                               *)
LEMMA StepTarget ==
  ASSUME TickInv, pc = "step", NEW bits, bits = bitmap[WordOfWalk].bits,
         NEW next, next = Clamped(NextTick(walk, bits))
  PROVE  /\ walk.tick \in MinTick .. MaxTick - 1 /\ WordOfWalk \in Words
         /\ walk.price \in Prices
         /\ PriceAt[walk.tick] <= walk.price /\ walk.price <= PriceAt[walk.tick + 1]
         /\ bits \in SUBSET EndBits(WordOfWalk)
         /\ next \in MinTick .. MaxTick
         /\ walk.reverse => walk.tick < next
         /\ ~walk.reverse => next <= walk.tick
         /\ Masked(walk, bits) # {} => next \in Ends /\ next = NextTick(walk, bits)
<1>1. MaxTick \in Nat \ {0} /\ MinTick = 0 - MaxTick
  BY TickMathAssumption DEF MinTick
<1>2. /\ Continues(walk) /\ Walking
      /\ bitmap[WordOfWalk] # Unset
  BY DEF TickInv, ReadingIsTheWalks, Walking
<1>3. walk.price \in Int
  BY DEF TickInv, WalkTypes
<1>4. InRange(walk.price)
  BY <1>2 DEF Continues
<1>5. /\ walk.tick \in MinTick .. MaxTick - 1
      /\ PriceAt[walk.tick] <= walk.price /\ walk.price <= PriceAt[walk.tick + 1]
  BY <1>2, <1>4 DEF TickInv, Placed
<1>15. walk.tick \in Int
  BY <1>1, <1>5
<1>6. walk.price \in Prices
  <2>1. PriceAt[MinTick] \in Nat \ {0}
    BY <1>1, PricesIncrease
  <2> QED
    BY <1>3, <1>4, <2>1 DEF InRange, MinSqrtRatio, Prices
<1>7. WordOfWalk \in Words
  BY <1>5, WordIsThere DEF WordOfWalk
<1>8. bits \in SUBSET EndBits(WordOfWalk)
  <2>1. bitmap[WordOfWalk] \in [bits : SUBSET EndBits(WordOfWalk), block : Nat]
    BY <1>2, <1>7 DEF TickInv, WalkTypes
  <2> QED
    BY <2>1
<1>9. bits \in SUBSET (0 .. WordSize - 1)
  <2>1. EndBits(WordOfWalk) \in SUBSET (0 .. WordSize - 1)
    BY DEF EndBits
  <2> QED
    BY <1>8, <2>1
<1> DEFINE n == NextTick(walk, bits)
           t == walk.tick
<1>10. n \in Int /\ (walk.reverse => t < n) /\ (~walk.reverse => n <= t)
  BY <1>9, <1>15, NextTickIsBeyond
<1>11. Masked(walk, bits) # {} => n \in Ends
  BY <1>8, <1>15, NextTickIsEnd DEF WordOfWalk
<1>12. next = Clamped(n) /\ t \in Int /\ t < MaxTick /\ MinTick <= t
  BY <1>1, <1>5
<1> HIDE DEF n, t
<1>13. /\ next \in MinTick .. MaxTick
       /\ walk.reverse => t < next
       /\ ~walk.reverse => next <= t
  BY <1>10, <1>12, ClampedIs
<1>14. Masked(walk, bits) # {} => next \in Ends /\ next = n
  <2>1. n \in Ends => n \in MinTick .. MaxTick
    BY EndIs
  <2> QED
    BY <1>10, <1>11, <1>12, <2>1, ClampedIs
<1> QED
  BY <1>5, <1>6, <1>7, <1>8, <1>13, <1>14 DEF n, t

(* Which way the walk goes is which way the price goes.                    *)
LEMMA TargetIsAhead ==
  ASSUME NEW t \in MinTick .. MaxTick - 1, NEW next \in MinTick .. MaxTick, NEW p \in Prices,
         PriceAt[t] <= p, p <= PriceAt[t + 1]
  PROVE  /\ PriceAt[next] \in Prices
         /\ t < next => p <= PriceAt[next]
         /\ next <= t => PriceAt[next] <= p
<1>1. MaxTick \in Nat \ {0} /\ MinTick = 0 - MaxTick
  BY TickMathAssumption DEF MinTick
<1>2. t \in MinTick .. MaxTick /\ t + 1 \in MinTick .. MaxTick /\ t \in Int /\ next \in Int
  BY <1>1
<1> DEFINE u == t + 1
           from == PriceAt[t]
           to == PriceAt[u]
           target == PriceAt[next]
<1>3. u \in MinTick .. MaxTick /\ u \in Int /\ (t < next => u <= next)
  BY <1>2
<1>4. from <= p /\ p <= to
  OBVIOUS
<1> HIDE DEF u
<1>5. /\ from \in Prices /\ to \in Prices /\ target \in Prices
      /\ u <= next => to <= target
      /\ next <= t => target <= from
  BY <1>2, <1>3, PriceRises
<1> HIDE DEF from, to, target
<1>6. (t < next => p <= target) /\ (next <= t => target <= p)
  BY <1>3, <1>4, <1>5 DEF Prices
<1> QED
  BY <1>5, <1>6 DEF target

(* The ticks beside one that is not at an end.                             *)
LEMMA Beside ==
  ASSUME NEW next \in MinTick .. MaxTick, InRange(PriceAt[next])
  PROVE  next \in MinTick + 1 .. MaxTick - 1
<1>1. MaxTick \in Nat \ {0} /\ MinTick = 0 - MaxTick
  BY TickMathAssumption DEF MinTick
<1>2. MinTick \in MinTick .. MaxTick /\ MaxTick \in MinTick .. MaxTick
  BY <1>1
<1>3. PriceAt[MinTick] < PriceAt[next] /\ PriceAt[next] < PriceAt[MaxTick]
  BY DEF InRange, MinSqrtRatio, MaxSqrtRatio
<1>4. MinTick < next /\ next < MaxTick
  BY <1>2, <1>3, PriceRises
<1> QED
  BY <1>1, <1>4

(* A step leaves the walk at the tick of its price.                        *)
LEMMA StepIsPlaced ==
  ASSUME NEW t \in MinTick .. MaxTick - 1, NEW next \in MinTick .. MaxTick,
         NEW from \in Prices, PriceAt[t] <= from, from <= PriceAt[t + 1],
         NEW p \in Prices, NEW reverse \in BOOLEAN, NEW b, b.price = p,
         b.tick = IF p = PriceAt[next] THEN (IF reverse THEN next ELSE next - 1)
                  ELSE IF p # from THEN TickAtSqrtRatio(p) ELSE t
  PROVE  Placed(b)
<1> SUFFICES ASSUME InRange(p)
             PROVE  /\ b.tick \in MinTick .. MaxTick - 1
                    /\ PriceAt[b.tick] <= p /\ p <= PriceAt[b.tick + 1]
  BY DEF Placed
<1>1. MaxTick \in Nat \ {0} /\ MinTick = 0 - MaxTick
  BY TickMathAssumption DEF MinTick
<1>2. CASE p = PriceAt[next]
  <2>1. next \in MinTick + 1 .. MaxTick - 1
    BY <1>2, Beside
  <2>2. CASE reverse
    <3>1. b.tick = next
      BY <1>2, <2>2
    <3>2. next + 1 \in MinTick .. MaxTick /\ next <= next + 1
      BY <1>1, <2>1
    <3>3. PriceAt[next] <= PriceAt[next + 1]
      <4> DEFINE u == next + 1
      <4>1. u \in MinTick .. MaxTick /\ next <= u
        BY <3>2
      <4> HIDE DEF u
      <4>2. PriceAt[next] <= PriceAt[u]
        BY <4>1, PriceRises
      <4> QED
        BY <4>2 DEF u
    <3> QED
      BY <1>1, <1>2, <2>1, <3>1, <3>3 DEF Prices
  <2>3. CASE ~reverse
    <3>1. b.tick = next - 1 /\ b.tick + 1 = next
      BY <1>1, <1>2, <2>1, <2>3
    <3>2. next - 1 \in MinTick .. MaxTick /\ next - 1 <= next
      BY <1>1, <2>1
    <3>3. PriceAt[next - 1] <= PriceAt[next]
      <4> DEFINE u == next - 1
      <4>1. u \in MinTick .. MaxTick /\ u <= next
        BY <3>2
      <4> HIDE DEF u
      <4>2. PriceAt[u] <= PriceAt[next]
        BY <4>1, PriceRises
      <4> QED
        BY <4>2 DEF u
    <3> QED
      BY <1>1, <1>2, <2>1, <3>1, <3>3 DEF Prices
  <2> QED
    BY <2>2, <2>3
<1>3. CASE p # PriceAt[next] /\ p # from
  <2>1. b.tick = TickAtSqrtRatio(p)
    BY <1>3
  <2>2. p \in Int /\ MinSqrtRatio <= p /\ p < MaxSqrtRatio
    <3>1. PriceAt[MinTick] \in Int
      BY <1>1, PricesIncrease
    <3> QED
      BY <3>1 DEF InRange, Prices, MinSqrtRatio
  <2> DEFINE u == TickAtSqrtRatio(p)
  <2>3. u \in MinTick .. MaxTick - 1 /\ PriceAt[u] <= p /\ p < PriceAt[u + 1]
    BY <2>2, TickAtSqrtRatioIs
  <2> HIDE DEF u
  <2>4. PriceAt[u + 1] \in Int
    <3>1. u + 1 \in MinTick .. MaxTick
      BY <1>1, <2>3
    <3> QED
      BY <3>1, PricesIncrease
  <2> QED
    BY <2>1, <2>2, <2>3, <2>4 DEF u
<1>4. CASE p # PriceAt[next] /\ p = from
  BY <1>1, <1>4
<1> QED
  BY <1>2, <1>3, <1>4

LEMMA TickInit ==
  ASSUME Init
  PROVE  TickInv
<1>1. Starts \subseteq MinTick .. MaxTick - 1
  BY WalkAssumption
<1>2. WalkTypes
  <2>1. walk = Idle /\ Idle \in [reverse : BOOLEAN, left : Int, out : Int, paid : Int,
                                price : Int, tick : {Idle.tick}, liquidity : Int]
    BY DEF Init, Idle
  <2> QED
    BY <1>1, <2>1 DEF Init, WalkTypes, Minted
<1> QED
  BY <1>2 DEF Init, TickInv, Walking, ReadingIsTheWalks

LEMMA TickMine ==
  ASSUME TickInv, Mine
  PROVE  TickInv'
<1>1. height' = height + 1 /\ UNCHANGED <<start, info, infoAt, cacheVars, pc, walk, reading, quotes>>
  BY DEF Mine
<1>2. minted' \in SUBSET Positions
  BY DEF Mine, TickInv, WalkTypes, Minted
<1>3. WalkTypes'
  BY <1>1, <1>2 DEF TickInv, WalkTypes, Minted, cacheVars
<1>4. ReadingIsTheWalks'
  BY <1>1 DEF TickInv, WalkTypes, ReadingIsTheWalks, WordOfWalk, cacheVars
<1> QED
  BY <1>1, <1>3, <1>4 DEF TickInv, Walking

LEMMA TickFetch ==
  ASSUME TickInv, FetchInfo
  PROVE  TickInv'
<1>1. /\ pc = "idle" /\ info'.price = PriceAt[start] /\ info'.tick = start
      /\ info'.liquidity = LiquidityAt(start)
      /\ infoAt' = height /\ quotes' = <<>> /\ UNCHANGED <<chainVars, cacheVars, pc, walk, reading>>
  BY DEF FetchInfo
<1>2. /\ MaxTick \in Nat \ {0} /\ MinTick = 0 - MaxTick
      /\ start \in MinTick .. MaxTick - 1 /\ start \in Int
  <2>1. MaxTick \in Nat \ {0} /\ MinTick = 0 - MaxTick
    BY TickMathAssumption DEF MinTick
  <2>2. start \in MinTick .. MaxTick - 1
    BY DEF TickInv, WalkTypes
  <2> QED
    BY <2>1, <2>2
<1>3. start \in MinTick .. MaxTick /\ start + 1 \in MinTick .. MaxTick
  BY <1>2
<1>4. PriceAt[start] \in Int /\ PriceAt[start] <= PriceAt[start + 1]
  <2> DEFINE u == start + 1
  <2>1. u \in MinTick .. MaxTick /\ start <= u
    BY <1>2, <1>3
  <2> HIDE DEF u
  <2>2. PriceAt[start] \in Prices /\ PriceAt[start] <= PriceAt[u]
    BY <1>3, <2>1, PriceRises
  <2> QED
    BY <2>2 DEF u, Prices
<1>5. LiquidityAt(start) \in Int
  BY <1>2, LiquidityTypes DEF TickInv, WalkTypes
<1>6. Placed(info')
  BY <1>1, <1>2, <1>4 DEF Placed
<1>7. WalkTypes'
  BY <1>1, <1>4, <1>5 DEF TickInv, WalkTypes, Minted, chainVars, cacheVars
<1> QED
  BY <1>1, <1>6, <1>7 DEF TickInv, Walking, ReadingIsTheWalks

LEMMA TickBegin ==
  ASSUME TickInv, NEW amount \in Int, NEW reverse \in BOOLEAN, Begin(amount, reverse)
  PROVE  TickInv'
<1>1. /\ pc = "idle" /\ info # Unset /\ pc' = "loop"
      /\ walk' = [reverse |-> reverse, left |-> amount, out |-> 0, paid |-> amount,
                  price |-> info.price, tick |-> info.tick, liquidity |-> info.liquidity]
      /\ UNCHANGED <<chainVars, info, infoAt, cacheVars, reading, quotes>>
  BY DEF Begin
<1>2. info.price \in Int /\ info.liquidity \in Int /\ Placed(info)
  BY <1>1 DEF TickInv, WalkTypes
<1>3. walk' \in [reverse : BOOLEAN, left : Int, out : Int, paid : Int,
                 price : Int, tick : {walk'.tick}, liquidity : Int]
  BY <1>1, <1>2
<1>4. WalkTypes'
  BY <1>1, <1>3 DEF TickInv, WalkTypes, Minted, chainVars, cacheVars
<1>5. Placed(walk')
  BY <1>1, <1>2 DEF Placed
<1> QED
  BY <1>1, <1>4, <1>5 DEF TickInv, Walking, ReadingIsTheWalks

LEMMA TickQuote ==
  ASSUME TickInv, Quote
  PROVE  TickInv'
<1>1. CASE \E amount \in Amounts, reverse \in BOOLEAN : Begin(amount, reverse)
  <2>1. Amounts \subseteq Int
    BY WalkAssumption
  <2> QED
    BY <1>1, <2>1, TickBegin
<1>2. CASE quotes # <<>> /\ \E reverse \in BOOLEAN : Begin(quotes[1].out, reverse)
  <2>1. quotes[1].out \in Int
    <3> DEFINE Q == [in : Int, out : Int, reverse : BOOLEAN]
    <3>1. quotes \in Seq(Q)
      BY DEF TickInv, WalkTypes
    <3> HIDE DEF Q
    <3>2. quotes[1] \in Q
      BY <1>2, <3>1
    <3> QED
      BY <3>2 DEF Q
  <2> DEFINE amount == quotes[1].out
  <2>2. \E reverse \in BOOLEAN : Begin(amount, reverse)
    BY <1>2
  <2> HIDE DEF amount
  <2> QED
    BY <2>1, <2>2, TickBegin DEF amount
<1> QED
  BY <1>1, <1>2 DEF Quote

LEMMA TickLookup ==
  ASSUME TickInv, Lookup
  PROVE  TickInv'
<1>1. /\ pc = "loop" /\ Continues(walk)
      /\ UNCHANGED <<chainVars, info, infoAt, cacheVars, walk, quotes>>
      /\ \/ pc' = "bitmap" /\ reading' = [block |-> height, word |-> WordOfWalk]
         \/ pc' = "step" /\ ~IsMissingOrOld(WordOfWalk)
  BY DEF Lookup, WordOfWalk
<1>2. WalkTypes'
  BY <1>1 DEF TickInv, WalkTypes, Minted, chainVars, cacheVars
<1>3. Placed(walk) /\ InRange(walk.price)
  BY <1>1 DEF TickInv, Walking, Continues
<1>4. WordOfWalk \in Words
  BY <1>3, WordIsThere DEF WordOfWalk, Placed
<1>5. ReadingIsTheWalks'
  <2>1. WordOfWalk' = WordOfWalk /\ Continues(walk)'
    BY <1>1 DEF WordOfWalk
  <2>2. CASE pc' = "bitmap" /\ reading' = [block |-> height, word |-> WordOfWalk]
    BY <1>1, <2>1, <2>2 DEF TickInv, WalkTypes, ReadingIsTheWalks, chainVars
  <2>3. CASE pc' = "step" /\ ~IsMissingOrOld(WordOfWalk)
    <3>1. bitmap[WordOfWalk] # Unset /\ ~(bitmap[WordOfWalk].block < infoAt)
      BY <2>3 DEF IsMissingOrOld
    <3>2. bitmap[WordOfWalk].block \in Nat /\ infoAt \in Nat
      BY <1>4, <3>1 DEF TickInv, WalkTypes
    <3>3. infoAt <= bitmap[WordOfWalk].block
      BY <3>1, <3>2
    <3> QED
      BY <1>1, <2>1, <2>3, <3>1, <3>3 DEF ReadingIsTheWalks, chainVars, cacheVars
  <2> QED
    BY <1>1, <2>2, <2>3
<1> QED
  BY <1>1, <1>2, <1>3, <1>5 DEF TickInv, Walking

LEMMA TickReadBitmap ==
  ASSUME TickInv, ReadBitmap
  PROVE  TickInv'
<1>1. /\ pc = "bitmap" /\ pc' = "ticks"
      /\ bitmap' = [w \in Words |->
                      IF w \in WordsRead THEN [bits |-> BitsOnChain(w), block |-> reading.block]
                      ELSE bitmap[w]]
      /\ UNCHANGED <<chainVars, info, infoAt, tickData, walk, reading, quotes>>
  BY DEF ReadBitmap
<1>2. /\ Continues(walk) /\ Placed(walk) /\ reading.word = WordOfWalk
      /\ reading.block \in Nat /\ infoAt <= reading.block /\ reading.block <= height
  BY <1>1 DEF TickInv, ReadingIsTheWalks, Walking
<1>3. WordOfWalk \in Words
  BY <1>2, WordIsThere DEF WordOfWalk, Placed, Continues
<1>4. \A w \in Words : [bits |-> BitsOnChain(w), block |-> reading.block]
                         \in [bits : SUBSET EndBits(w), block : Nat]
  <2>1. \A w \in Words : BitsOnChain(w) \in SUBSET EndBits(w)
    BY InitializedIsEnd DEF BitsOnChain, EndBits, TickInv, WalkTypes
  <2> QED
    BY <1>2, <2>1
<1>5. WalkTypes'
  <2>1. \A w \in Words : bitmap'[w] \in [bits : SUBSET EndBits(w), block : Nat] \union {Unset}
    BY <1>1, <1>4 DEF TickInv, WalkTypes
  <2> QED
    BY <1>1, <2>1 DEF TickInv, WalkTypes, Minted, chainVars
<1>6. WordOfWalk \in WordsRead
  <2>1. WordOfWalk - WordOfWalk = 0
    <3>1. walk.tick \in Int /\ TickSpacing \in Nat \ {0} /\ WordSize \in Nat \ {0}
      BY <1>2, WalkAssumption, TickMathAssumption DEF Placed, Continues, MinTick
    <3> DEFINE t == walk.tick
               c == First(walk)
    <3>2. t \in Int
      BY <3>1
    <3>3. c = t \div TickSpacing \/ c = t \div TickSpacing + 1
      BY DEF First
    <3> HIDE DEF t, c
    <3>4. t \div TickSpacing \in Int
      BY <3>1, <3>2, DivisionRounds
    <3>5. c \in Int
      BY <3>3, <3>4
    <3>6. c \div WordSize \in Int
      BY <3>1, <3>5, DivisionRounds
    <3>7. WordOfWalk = c \div WordSize
      BY DEF WordOfWalk, WordOf, c
    <3> QED
      BY <3>6, <3>7
  <2>2. WordCache \in Nat \ {0}
    BY WalkAssumption
  <2> QED
    BY <1>2, <1>3, <2>1, <2>2 DEF WordsRead
<1>7. ReadingIsTheWalks'
  <2>1. WordOfWalk' = WordOfWalk /\ Continues(walk)'
    BY <1>1, <1>2 DEF WordOfWalk
  <2>2. bitmap'[WordOfWalk] = [bits |-> BitsOnChain(WordOfWalk), block |-> reading.block]
    BY <1>1, <1>3, <1>6
  <2>3. bitmap'[WordOfWalk] # Unset
    <3>1. EndBits(WordOfWalk) \subseteq 0 .. WordSize - 1
      BY DEF EndBits
    <3>2. bitmap'[WordOfWalk] \in [bits : SUBSET (0 .. WordSize - 1), block : Nat]
      BY <1>3, <1>4, <2>2, <3>1
    <3> QED
      BY <3>2, WalkAssumption
  <2>4. bitmap'[WordOfWalk].block = reading.block
    BY <2>2
  <2> QED
    BY <1>1, <1>2, <2>1, <2>3, <2>4 DEF ReadingIsTheWalks, chainVars
<1> QED
  BY <1>1, <1>2, <1>5, <1>7 DEF TickInv, Walking

LEMMA TickReadTicks ==
  ASSUME TickInv, ReadTicks
  PROVE  TickInv'
<1>1. /\ pc = "ticks" /\ pc' = "step"
      /\ tickData' = [t \in Ends |->
                        IF \E w \in WordsRead : bitmap[w].bits # {} /\ t \in TicksOnChain(w)
                        THEN LiquidityNet(t) ELSE tickData[t]]
      /\ UNCHANGED <<chainVars, info, infoAt, bitmap, walk, quotes>>
  BY DEF ReadTicks
<1>2. \A t \in Ends : LiquidityNet(t) \in Int
  <2>1. \A t \in Ends : t \in Int
    BY EndIs
  <2> QED
    BY <2>1, LiquidityTypes DEF TickInv, WalkTypes
<1>3. \A t \in Ends : tickData'[t] \in Int \union {Unset}
  BY <1>1, <1>2 DEF TickInv, WalkTypes
<1>4. WalkTypes'
  BY <1>1, <1>3 DEF TickInv, WalkTypes, Minted, chainVars
<1>5. ReadingIsTheWalks'
  <2>1. WordOfWalk' = WordOfWalk
    BY <1>1 DEF WordOfWalk
  <2> QED
    BY <1>1, <2>1 DEF TickInv, ReadingIsTheWalks
<1> QED
  BY <1>1, <1>4, <1>5 DEF TickInv, Walking

LEMMA TickWalks ==
  ASSUME TickInv, Step
  PROVE  TickInv'
<1> DEFINE bits == bitmap[WordOfWalk].bits
           next == Clamped(NextTick(walk, bits))
           initialized == Masked(walk, bits) # {}
<1>1. /\ pc = "step" /\ StepTo(next, initialized)
      /\ UNCHANGED <<chainVars, info, infoAt, cacheVars, reading, quotes>>
  BY DEF Step, WordOfWalk
<1> DEFINE s == SwapStep(walk.price, PriceAt[next], walk.liquidity, walk.left, Fee)
           t == walk.tick
           from == walk.price
           liquidity == walk.liquidity
           left == walk.left
<1>2. /\ t \in MinTick .. MaxTick - 1
      /\ from \in Prices
      /\ PriceAt[t] <= from /\ from <= PriceAt[t + 1]
      /\ next \in MinTick .. MaxTick
      /\ initialized => next \in Ends
  BY <1>1, StepTarget
<1>3. /\ liquidity \in Int /\ left \in Int /\ walk.out \in Int /\ walk.paid \in Int
      /\ walk.reverse \in BOOLEAN
  BY DEF TickInv, WalkTypes
<1>4. s = SwapStep(from, PriceAt[next], liquidity, left, Fee)
  OBVIOUS
<1>5. \/ pc' = "raised" /\ walk' = Idle
      \/ /\ pc' = "loop"
         /\ ~(s.price = PriceAt[next] /\ initialized /\ tickData[next] = Unset)
         /\ walk' = [reverse |-> walk.reverse,
                        left |-> left - (s.in + s.fee),
                        out |-> walk.out + s.out,
                        paid |-> walk.paid,
                        price |-> s.price,
                        tick |-> IF s.price = PriceAt[next] THEN TickBeyond(walk, next)
                                 ELSE IF s.price # from THEN TickAtSqrtRatio(s.price)
                                 ELSE t,
                        liquidity |-> IF s.price = PriceAt[next] /\ initialized
                                      THEN Crossed(walk, tickData[next]) ELSE liquidity]
  <2> HIDE DEF bits, next, initialized, s
  <2>1. s = SwapStep(walk.price, PriceAt[next], walk.liquidity, walk.left, Fee)
    BY DEF s
  <2>2. WalkTypes
    BY DEF TickInv
  <2> QED
    BY <1>1, <2>1, <2>2, StepToIs
<1> HIDE DEF bits, next, initialized, s, t, from, liquidity, left
<1>6. PriceAt[next] \in Prices /\ Fee \in FeeShares
  BY <1>2, PriceRises, WalkAssumption DEF FeeShares
<1>7. s.price \in Prices /\ s.in \in Int /\ s.out \in Int /\ s.fee \in Int
  BY <1>2, <1>3, <1>4, <1>6, StepTypes
<1>8. ASSUME pc' = "loop"
      PROVE  /\ Placed(walk')
             /\ walk' \in [reverse : BOOLEAN, left : Int, out : Int, paid : Int,
                           price : Int, tick : {walk'.tick}, liquidity : Int]
  <2>1. initialized /\ s.price = PriceAt[next] => Crossed(walk, tickData[next]) \in Int
    <3> SUFFICES ASSUME initialized, s.price = PriceAt[next]
                 PROVE  Crossed(walk, tickData[next]) \in Int
      OBVIOUS
    <3> DEFINE net == tickData[next]
    <3>1. net \in Int
      BY <1>2, <1>5, <1>8 DEF TickInv, WalkTypes
    <3> HIDE DEF net
    <3> QED
      BY <1>3, <3>1 DEF Crossed, net, liquidity
  <2>2. /\ walk'.price = s.price
        /\ walk'.tick = IF s.price = PriceAt[next] THEN (IF walk.reverse THEN next ELSE next - 1)
                        ELSE IF s.price # from THEN TickAtSqrtRatio(s.price) ELSE t
    BY <1>5, <1>8 DEF TickBeyond
  <2> DEFINE p == s.price
             b == walk'
             reverse == walk.reverse
  <2>3. /\ b.price = p /\ p \in Prices /\ reverse \in BOOLEAN
        /\ b.tick = IF p = PriceAt[next] THEN (IF reverse THEN next ELSE next - 1)
                    ELSE IF p # from THEN TickAtSqrtRatio(p) ELSE t
    BY <1>3, <1>7, <2>2
  <2> HIDE DEF p, b, reverse
  <2>4. Placed(b)
    BY <1>2, <2>3, StepIsPlaced
  <2>5. /\ walk'.reverse \in BOOLEAN /\ walk'.left \in Int /\ walk'.out \in Int /\ walk'.paid \in Int
        /\ walk'.price \in Int /\ walk'.liquidity \in Int
    BY <1>3, <1>5, <1>7, <1>8, <2>1 DEF Prices
  <2>6. walk' \in [reverse : BOOLEAN, left : Int, out : Int, paid : Int,
                   price : Int, tick : {walk'.tick}, liquidity : Int]
    BY <1>5, <1>8, <2>5
  <2> QED
    BY <2>4, <2>6 DEF b
<1>9. walk' \in [reverse : BOOLEAN, left : Int, out : Int, paid : Int,
                 price : Int, tick : {walk'.tick}, liquidity : Int]
  <2>1. Idle \in [reverse : BOOLEAN, left : Int, out : Int, paid : Int,
                  price : Int, tick : {Idle.tick}, liquidity : Int]
    BY DEF Idle
  <2> QED
    BY <1>5, <1>8, <2>1
<1>10. WalkTypes'
  BY <1>1, <1>5, <1>9 DEF TickInv, WalkTypes, Minted, chainVars, cacheVars
<1>11. Walking' => Placed(walk')
  BY <1>5, <1>8 DEF Walking
<1>12. ReadingIsTheWalks'
  BY <1>5 DEF ReadingIsTheWalks
<1> QED
  BY <1>1, <1>10, <1>11, <1>12 DEF TickInv

LEMMA TickReturn ==
  ASSUME TickInv, NEW timedOut, Return(timedOut)
  PROVE  TickInv'
<1>1. /\ pc = "loop" /\ pc' = "idle" /\ walk' = Idle
      /\ info'.price = walk.price /\ info'.tick = walk.tick /\ info'.liquidity = walk.liquidity
      /\ quotes' = Append(quotes, [in |-> walk.paid, out |-> walk.out, reverse |-> walk.reverse])
      /\ UNCHANGED <<chainVars, infoAt, cacheVars, reading>>
  BY DEF Return
<1>2. /\ walk.paid \in Int /\ walk.out \in Int /\ walk.reverse \in BOOLEAN
      /\ walk.price \in Int /\ walk.liquidity \in Int
  BY DEF TickInv, WalkTypes
<1>3. quotes' \in Seq([in : Int, out : Int, reverse : BOOLEAN])
  BY <1>1, <1>2 DEF TickInv, WalkTypes
<1>4. Placed(info')
  BY <1>1 DEF TickInv, Walking, Placed
<1>5. Idle \in [reverse : BOOLEAN, left : Int, out : Int, paid : Int,
                price : Int, tick : {Idle.tick}, liquidity : Int]
  BY DEF Idle
<1>6. WalkTypes'
  BY <1>1, <1>2, <1>3, <1>5 DEF TickInv, WalkTypes, Minted, chainVars, cacheVars
<1> QED
  BY <1>1, <1>4, <1>6 DEF TickInv, Walking, ReadingIsTheWalks

LEMMA TickRestart ==
  ASSUME TickInv, Restart
  PROVE  TickInv'
<1>1. /\ pc = "raised" /\ pc' = "idle" /\ info' = Unset /\ quotes' = <<>>
      /\ UNCHANGED <<chainVars, infoAt, cacheVars, walk, reading>>
  BY DEF Restart
<1>2. WalkTypes'
  BY <1>1 DEF TickInv, WalkTypes, Minted, chainVars, cacheVars
<1> QED
  BY <1>1, <1>2 DEF TickInv, Walking, ReadingIsTheWalks

LEMMA TickStep ==
  ASSUME TickInv, [Next]_vars
  PROVE  TickInv'
<1>1. CASE UNCHANGED vars
  <2>1. WalkTypes'
    BY <1>1 DEF TickInv, WalkTypes, Minted, vars, chainVars, cacheVars
  <2>2. ReadingIsTheWalks'
    BY <1>1 DEF TickInv, ReadingIsTheWalks, WordOfWalk, vars, chainVars, cacheVars
  <2> QED
    BY <1>1, <2>1, <2>2 DEF TickInv, Walking, vars
<1> QED
  BY <1>1, TickMine, TickFetch, TickQuote, TickLookup, TickReadBitmap, TickReadTicks,
     TickWalks, TickReturn, TickRestart DEF Next, Walk

(***************************************************************************)
(* Wherever a quote has got to, and wherever it leaves the pool's          *)
(* information, the tick is the last one whose price is not above the      *)
(* price, or the price is that of the tick after it: for any positions,    *)
(* amounts and spacing, at any height, with words and ticks of any age.    *)
(***************************************************************************)
THEOREM TicksAreAtPrices == Spec => []TickIsAtThePrice
<1>1. Init => TickInv
  BY TickInit
<1>2. TickInv /\ [Next]_vars => TickInv'
  BY TickStep
<1>3. TickInv => TickIsAtThePrice
  <2> SUFFICES ASSUME TickInv, info # Unset, pc # "raised", InRange(Belief.price)
               PROVE  \/ /\ PriceAt[Belief.tick] <= Belief.price
                         /\ Belief.price < PriceAt[Belief.tick + 1]
                      \/ Belief.price = PriceAt[Belief.tick + 1]
    BY DEF TickIsAtThePrice
  <2> DEFINE b == Belief
             p == b.price
             t == b.tick
  <2>1. Placed(b) /\ p \in Int
    BY DEF TickInv, WalkTypes, Walking, Belief
  <2>2. t \in MinTick .. MaxTick - 1 /\ PriceAt[t] <= p /\ p <= PriceAt[t + 1]
    BY <2>1 DEF Placed
  <2>3. PriceAt[t + 1] \in Int
    <3>1. MaxTick \in Nat \ {0} /\ MinTick = 0 - MaxTick
      BY TickMathAssumption DEF MinTick
    <3>2. t + 1 \in MinTick .. MaxTick
      BY <2>2, <3>1
    <3> QED
      BY <3>2, PricesIncrease
  <2> HIDE DEF b, p, t
  <2>4. p < PriceAt[t + 1] \/ p = PriceAt[t + 1]
    BY <2>1, <2>2, <2>3
  <2> QED
    BY <2>2, <2>4 DEF b, p, t
<1> QED
  BY <1>1, <1>2, <1>3, PTL DEF Spec

LEMMA ChainStands ==
  ASSUME minted' = minted
  PROVE  /\ \A w : BitsOnChain(w)' = BitsOnChain(w) /\ TicksOnChain(w)' = TicksOnChain(w)
         /\ \A t : LiquidityNet(t)' = LiquidityNet(t) /\ LiquidityAt(t)' = LiquidityAt(t)
BY DEF BitsOnChain, TicksOnChain, IsInitialized, LiquidityNet, LiquidityAt

LEMMA QuotientOf ==
  ASSUME NEW d \in Nat \ {0}, NEW k \in Int, NEW r \in 0 .. d - 1, NEW n, n = k * d + r
  PROVE  n \div d = k
<1> DEFINE q == n \div d
<1>1. d * k \in Int /\ k * d = d * k
  OBVIOUS
<1>2. n \in Int /\ d * k <= n /\ n < d * k + d
  BY <1>1
<1>3. q \in Int /\ d * q <= n /\ n < d * q + d
  BY <1>2, DivisionRounds
<1> HIDE DEF q
<1>4. d * q \in Int
  BY <1>3
<1>5. d * q < d * (k + 1) /\ d * k < d * (q + 1)
  BY <1>1, <1>2, <1>3, <1>4
<1>6. q < k + 1 /\ k < q + 1
  <2> DEFINE x == k + 1
             y == q + 1
  <2>1. x \in Int /\ y \in Int /\ d * q < d * x /\ d * k < d * y
    BY <1>3, <1>5
  <2> HIDE DEF x, y
  <2>2. q < x /\ k < y
    BY <1>3, <2>1, FactorIsLess
  <2> QED
    BY <2>2 DEF x, y
<1>7. q = k
  BY <1>3, <1>6
<1> QED
  BY <1>7 DEF q

(* A word with ticks has bits.                                             *)
LEMMA TickHasBit ==
  ASSUME Minted, NEW word \in Int, NEW t \in TicksOnChain(word)
  PROVE  t \in Ends /\ BitsOnChain(word) # {}
<1> DEFINE e == t \div TickSpacing
           b == e % WordSize
<1>1. t \in Ends /\ IsInitialized(t) /\ e \div WordSize = word
  BY DEF TicksOnChain, WordOf
<1>2. e \in Int /\ t = e * TickSpacing
  BY <1>1, EndIs
<1> HIDE DEF e
<1>3. b \in 0 .. WordSize - 1 /\ e = (e \div WordSize) * WordSize + b
  BY <1>2, WalkAssumption, Z3
<1> HIDE DEF b
<1>4. e = word * WordSize + b /\ IsInitialized(e * TickSpacing)
  BY <1>1, <1>2, <1>3
<1>5. b \in BitsOnChain(word)
  BY <1>2, <1>3, <1>4, BitIsSet
<1> QED
  BY <1>1, <1>5

(* A tick that a bit leads to is one of its word's.                        *)
LEMMA NextTickIsRead ==
  ASSUME Minted, NEW w, w.tick \in Int, NEW word \in Int, word = WordOf(First(w)),
         NEW bits, bits = BitsOnChain(word), Masked(w, bits) # {}
  PROVE  NextTick(w, bits) \in TicksOnChain(word)
<1> DEFINE n == NextTick(w, bits)
           W == WordSize
           S == TickSpacing
<1>1. bits \in SUBSET (0 .. WordSize - 1) /\ W \in Nat \ {0} /\ S \in Nat \ {0}
  BY WalkAssumption DEF BitsOnChain
<1>2. PICK bit \in 0 .. W - 1 : n = (word * W + bit) * S /\ bit \in Masked(w, bits)
  BY <1>1, NextTickIs
<1>3. IsInitialized(n)
  <2>1. bit \in bits
    BY <1>2 DEF Masked
  <2> QED
    BY <1>2, <2>1 DEF BitsOnChain
<1>4. n \in Ends
  BY <1>3, InitializedIsEnd
<1> HIDE DEF n, W, S
<1> DEFINE e == word * W + bit
<1>5. e \in Int /\ e = word * W + bit /\ n = e * S + 0
  <2>1. word * W \in Int
    BY <1>1
  <2>2. e \in Int /\ n = e * S
    BY <1>1, <1>2, <2>1
  <2> HIDE DEF e
  <2>3. e * S \in Int
    BY <1>1, <2>2
  <2> QED
    BY <2>2, <2>3 DEF e
<1> HIDE DEF e
<1>6. n \div S = e
  <2>1. 0 \in 0 .. S - 1
    BY <1>1
  <2> QED
    BY <1>1, <1>5, <2>1, QuotientOf
<1>7. e \div W = word
  BY <1>1, <1>5, QuotientOf
<1>8. WordOf(n \div TickSpacing) = word
  BY <1>6, <1>7 DEF WordOf, W, S
<1> QED
  BY <1>3, <1>4, <1>8 DEF TicksOnChain, n

LEMMA WordsAreNumbers == Words \subseteq Int
<1>1. TickSpacing \in Nat \ {0} /\ WordSize \in Nat \ {0}
  BY WalkAssumption
<1>2. \A c \in Int : WordOf(c) \in Int
  BY <1>1, DivisionRounds DEF WordOf
<1> QED
  BY <1>2 DEF Words

LEMMA CacheInit ==
  ASSUME Init
  PROVE  CacheInv
<1>1. \A w \in Words : bitmap[w] = Unset
  BY DEF Init
<1>2. pc = "idle" /\ info = Unset /\ quotes = <<>>
  BY DEF Init
<1> QED
  BY <1>1, <1>2, TickInit DEF CacheInv, WordsAreTheChains, TicksAreTheChains, LiquidityIsKnown, Walking

(* Nothing is forgotten or read.                                           *)
LEMMA CacheKept ==
  ASSUME CacheInv, pc # "ticks", UNCHANGED <<height, minted, bitmap, tickData>>
  PROVE  WordsAreTheChains' /\ TicksAreTheChains'
<1>1. WordsAreTheChains'
  BY ChainStands DEF CacheInv, WordsAreTheChains
<1>2. \A w \in Words : (bitmap[w] # Unset /\ bitmap[w].block = height) =>
        \A t \in TicksOnChain(w) : tickData[t] = LiquidityNet(t)
  BY DEF CacheInv, TicksAreTheChains
<1>3. TicksAreTheChains'
  BY <1>2, ChainStands DEF TicksAreTheChains
<1> QED
  BY <1>1, <1>3

LEMMA SolventKept ==
  ASSUME CacheInv, Walking' => Walking,
         UNCHANGED <<height, minted, info, infoAt, walk, quotes>>
  PROVE  LiquidityIsKnown'
BY ChainStands DEF CacheInv, LiquidityIsKnown

LEMMA CacheMine ==
  ASSUME CacheInv, Mine
  PROVE  WordsAreTheChains' /\ TicksAreTheChains' /\ LiquidityIsKnown'
<1>1. height \in Nat /\ infoAt \in Nat /\ infoAt <= height
      /\ \A w \in Words : bitmap[w] # Unset => bitmap[w].block \in Nat /\ bitmap[w].block <= height
  <2>1. \A w \in Words : bitmap[w] # Unset => bitmap[w].block \in Nat
    BY DEF CacheInv, TickInv, WalkTypes
  <2> QED
    BY <2>1 DEF CacheInv, TickInv, WalkTypes, WordsAreTheChains
<1>2. height' = height + 1 /\ bitmap' = bitmap /\ infoAt' = infoAt
  BY DEF Mine, cacheVars
<1>3. \A w \in Words : bitmap'[w] # Unset => bitmap'[w].block <= height' /\ bitmap'[w].block # height'
  BY <1>1, <1>2
<1>4. infoAt' # height'
  BY <1>1, <1>2
<1> QED
  BY <1>3, <1>4 DEF WordsAreTheChains, TicksAreTheChains, LiquidityIsKnown

LEMMA CacheFetch ==
  ASSUME CacheInv, FetchInfo
  PROVE  WordsAreTheChains' /\ TicksAreTheChains' /\ LiquidityIsKnown'
<1>1. /\ pc = "idle" /\ pc' = "idle" /\ info'.tick = start /\ info'.liquidity = LiquidityAt(start)
      /\ quotes' = <<>> /\ UNCHANGED <<height, minted, bitmap, tickData>>
  BY DEF FetchInfo, chainVars, cacheVars
<1>2. LiquidityIsKnown'
  BY <1>1, ChainStands DEF LiquidityIsKnown, Walking
<1> QED
  BY <1>1, <1>2, CacheKept

LEMMA CacheBegin ==
  ASSUME CacheInv, NEW amount, infoAt = height => amount \in Nat,
         NEW reverse, Begin(amount, reverse)
  PROVE  WordsAreTheChains' /\ TicksAreTheChains' /\ LiquidityIsKnown'
<1>1. /\ pc = "idle" /\ info # Unset
      /\ walk' = [reverse |-> reverse, left |-> amount, out |-> 0, paid |-> amount,
                  price |-> info.price, tick |-> info.tick, liquidity |-> info.liquidity]
      /\ UNCHANGED <<height, minted, info, infoAt, bitmap, tickData, quotes>>
  BY DEF Begin, chainVars, cacheVars
<1>2. infoAt = height => info.liquidity = LiquidityAt(info.tick)
  BY <1>1 DEF CacheInv, LiquidityIsKnown
<1>3. LiquidityIsKnown'
  BY <1>1, <1>2, ChainStands DEF CacheInv, LiquidityIsKnown
<1> QED
  BY <1>1, <1>3, CacheKept

LEMMA CacheQuote ==
  ASSUME CacheInv, Quote
  PROVE  WordsAreTheChains' /\ TicksAreTheChains' /\ LiquidityIsKnown'
<1>1. CASE \E amount \in Amounts, reverse \in BOOLEAN : Begin(amount, reverse)
  <2>1. Amounts \subseteq Nat
    BY WalkAssumption
  <2> QED
    BY <1>1, <2>1, CacheBegin
<1>2. CASE quotes # <<>> /\ \E reverse \in BOOLEAN : Begin(quotes[1].out, reverse)
  <2> DEFINE amount == quotes[1].out
  <2>1. 1 \in DOMAIN quotes
    BY <1>2 DEF CacheInv, TickInv, WalkTypes
  <2>2. infoAt = height => amount \in Nat
    BY <2>1 DEF CacheInv, LiquidityIsKnown
  <2>3. \E reverse \in BOOLEAN : Begin(amount, reverse)
    BY <1>2
  <2> HIDE DEF amount
  <2> QED
    BY <2>2, <2>3, CacheBegin
<1> QED
  BY <1>1, <1>2 DEF Quote

LEMMA CacheLookup ==
  ASSUME CacheInv, Lookup
  PROVE  WordsAreTheChains' /\ TicksAreTheChains' /\ LiquidityIsKnown'
<1>1. /\ pc = "loop"
      /\ UNCHANGED <<height, minted, info, infoAt, bitmap, tickData, walk, quotes>>
  BY DEF Lookup, chainVars, cacheVars
<1> QED
  BY <1>1, CacheKept, SolventKept DEF Walking

LEMMA CacheReadBitmap ==
  ASSUME CacheInv, ReadBitmap
  PROVE  WordsAreTheChains' /\ TicksAreTheChains' /\ LiquidityIsKnown'
<1>1. /\ pc = "bitmap" /\ pc' = "ticks"
      /\ bitmap' = [w \in Words |->
                      IF w \in WordsRead THEN [bits |-> BitsOnChain(w), block |-> reading.block]
                      ELSE bitmap[w]]
      /\ UNCHANGED <<height, minted, info, infoAt, tickData, walk, reading, quotes>>
  BY DEF ReadBitmap, chainVars
<1>2. WordsRead' = WordsRead
  BY <1>1 DEF WordsRead
<1>3. reading.block <= height
  BY <1>1 DEF CacheInv, TickInv, ReadingIsTheWalks
<1>4. WordsAreTheChains'
  <2> SUFFICES ASSUME NEW w \in Words, bitmap'[w] # Unset
               PROVE  /\ bitmap'[w].block <= height
                      /\ bitmap'[w].block = height => bitmap'[w].bits = BitsOnChain(w)
    BY <1>1, ChainStands DEF WordsAreTheChains
  <2>1. CASE w \in WordsRead
    BY <1>1, <1>3, <2>1
  <2>2. CASE w \notin WordsRead
    <3>1. bitmap'[w] = bitmap[w]
      BY <1>1, <2>2
    <3> QED
      BY <3>1 DEF CacheInv, WordsAreTheChains
  <2> QED
    BY <2>1, <2>2
<1>5. TicksAreTheChains'
  <2> SUFFICES ASSUME NEW w \in Words, bitmap'[w] # Unset, bitmap'[w].block = height,
                      w \notin WordsRead
               PROVE  \A t \in TicksOnChain(w) : tickData[t] = LiquidityNet(t)
    BY <1>1, <1>2, ChainStands DEF TicksAreTheChains
  <2>1. bitmap'[w] = bitmap[w]
    BY <1>1
  <2> QED
    BY <1>1, <2>1 DEF CacheInv, TicksAreTheChains
<1> QED
  BY <1>1, <1>4, <1>5, SolventKept DEF Walking

LEMMA CacheReadTicks ==
  ASSUME CacheInv, ReadTicks
  PROVE  WordsAreTheChains' /\ TicksAreTheChains' /\ LiquidityIsKnown'
<1>1. /\ pc = "ticks" /\ pc' = "step"
      /\ tickData' = [t \in Ends |->
                        IF \E w \in WordsRead : bitmap[w].bits # {} /\ t \in TicksOnChain(w)
                        THEN LiquidityNet(t) ELSE tickData[t]]
      /\ UNCHANGED <<height, minted, info, infoAt, bitmap, walk, quotes>>
  BY DEF ReadTicks, chainVars
<1>2. WordsAreTheChains'
  BY <1>1, ChainStands DEF CacheInv, WordsAreTheChains
<1>3. TicksAreTheChains'
  <2> SUFFICES ASSUME NEW w \in Words, bitmap[w] # Unset, bitmap[w].block = height,
                      NEW t \in TicksOnChain(w)
               PROVE  tickData'[t] = LiquidityNet(t)
    BY <1>1, ChainStands DEF TicksAreTheChains
  <2>1. w \in Int
    BY WordsAreNumbers
  <2>2. t \in Ends /\ BitsOnChain(w) # {}
    BY <2>1, TickHasBit DEF CacheInv, TickInv, WalkTypes
  <2>3. CASE w \in WordsRead
    <3>1. bitmap[w].bits = BitsOnChain(w)
      BY DEF CacheInv, WordsAreTheChains
    <3> QED
      BY <1>1, <2>2, <2>3, <3>1
  <2>4. CASE w \notin WordsRead
    <3>1. tickData[t] = LiquidityNet(t)
      BY <2>4 DEF CacheInv, TicksAreTheChains
    <3> QED
      BY <1>1, <2>2, <3>1
  <2> QED
    BY <2>3, <2>4
<1> QED
  BY <1>1, <1>2, <1>3, SolventKept DEF Walking

(* Short of the target no initialized tick is crossed.                     *)
LEMMA LiquidityShort ==
  ASSUME Minted, NEW t \in MinTick .. MaxTick - 1, NEW next \in MinTick .. MaxTick,
         NEW from \in Prices, PriceAt[t] <= from, from <= PriceAt[t + 1], InRange(from),
         NEW p \in Prices, p # from, Towards(from, PriceAt[next], p),
         t < next => \A v \in t + 1 .. next - 1 : ~IsInitialized(v),
         next <= t => \A v \in next + 1 .. t : ~IsInitialized(v)
  PROVE  LiquidityAt(TickAtSqrtRatio(p)) = LiquidityAt(t)
<1> DEFINE target == PriceAt[next]
           u == TickAtSqrtRatio(p)
           above == t + 1
           beyond == u + 1
<1>1. MaxTick \in Nat \ {0} /\ MinTick = 0 - MaxTick
  BY TickMathAssumption DEF MinTick
<1>2. /\ t \in Int /\ next \in Int /\ t \in MinTick .. MaxTick /\ above \in MinTick .. MaxTick
      /\ MinTick \in MinTick .. MaxTick /\ MaxTick \in MinTick .. MaxTick
  BY <1>1
<1>3. /\ target \in Prices
      /\ t < next => from <= target
      /\ next <= t => target <= from
  BY TargetIsAhead
<1>4. PriceAt[MinTick] <= target /\ target <= PriceAt[MaxTick]
  <2>1. MinTick <= next /\ next <= MaxTick
    OBVIOUS
  <2> QED
    BY <1>2, <2>1, PriceRises
<1>5. /\ PriceAt[MinTick] \in Prices /\ PriceAt[MaxTick] \in Prices
      /\ PriceAt[t] \in Prices /\ PriceAt[above] \in Prices
  BY <1>2, PriceRises
<1>6. /\ PriceAt[MinTick] < from /\ from < PriceAt[MaxTick]
      /\ (target < p /\ p <= from) \/ (from <= p /\ p < target)
  BY DEF InRange, MinSqrtRatio, MaxSqrtRatio, Towards
<1>7. MinSqrtRatio <= p /\ p < MaxSqrtRatio /\ p \in Int
  BY <1>3, <1>4, <1>5, <1>6 DEF Prices, MinSqrtRatio, MaxSqrtRatio
<1>8. u \in MinTick .. MaxTick - 1 /\ PriceAt[u] <= p /\ p < PriceAt[beyond]
  BY <1>7, TickAtSqrtRatioIs
<1>14. PriceAt[t] <= from /\ from <= PriceAt[above]
  OBVIOUS
<1> HIDE DEF u
<1>9. u \in Int /\ u \in MinTick .. MaxTick /\ beyond \in MinTick .. MaxTick
  BY <1>1, <1>8
<1>15. t < above /\ above <= t + 1 /\ u < beyond /\ beyond <= u + 1 /\ above \in Int /\ beyond \in Int
  BY <1>2, <1>9
<1> HIDE DEF above, beyond
<1>10. PriceAt[u] \in Prices /\ PriceAt[beyond] \in Prices
  BY <1>9, PriceRises
<1>11. CASE t < next
  <2>1. from <= p /\ p < target
    BY <1>3, <1>6, <1>11 DEF Prices
  <2>2. PriceAt[t] < PriceAt[beyond]
    BY <1>5, <1>8, <1>10, <1>14, <2>1 DEF Prices
  <2>3. PriceAt[u] < PriceAt[next]
    BY <1>3, <1>8, <1>10, <2>1 DEF Prices
  <2>4. t < beyond /\ u < next
    BY <1>2, <1>9, <2>2, <2>3, PriceRises
  <2>5. t <= u /\ u < next
    BY <1>2, <1>9, <1>15, <2>4
  <2>6. \A v \in t + 1 .. u : ~IsInitialized(v)
    <3>1. t + 1 .. u \subseteq t + 1 .. next - 1
      BY <1>2, <1>9, <2>5
    <3> QED
      BY <1>11, <3>1
  <2> QED
    BY <1>2, <1>9, <2>5, <2>6, LiquidityAlong DEF u
<1>12. CASE next <= t
  <2>1. target < p /\ p <= from
    BY <1>3, <1>6, <1>12 DEF Prices
  <2>2. PriceAt[next] < PriceAt[beyond]
    BY <1>3, <1>8, <1>10, <2>1 DEF Prices
  <2>3. PriceAt[u] < PriceAt[above]
    BY <1>5, <1>8, <1>10, <1>14, <2>1 DEF Prices
  <2>4. next < beyond /\ u < above
    BY <1>2, <1>9, <2>2, <2>3, PriceRises
  <2>5. next <= u /\ u <= t
    BY <1>2, <1>9, <1>15, <2>4
  <2>6. \A v \in u + 1 .. t : ~IsInitialized(v)
    <3>1. u + 1 .. t \subseteq next + 1 .. t
      BY <1>2, <1>9, <2>5
    <3> QED
      BY <1>12, <3>1
  <2>7. LiquidityAt(t) = LiquidityAt(u)
    BY <1>2, <1>9, <2>5, <2>6, LiquidityAlong
  <2> QED
    BY <2>7 DEF u
<1> QED
  BY <1>2, <1>11, <1>12

(* At the target the one that is reached is, if it is initialized.         *)
LEMMA LiquidityCrossed ==
  ASSUME Minted, NEW t \in Int, NEW next \in Int, NEW reverse \in BOOLEAN,
         NEW initialized \in BOOLEAN, initialized <=> IsInitialized(next),
         reverse => t < next /\ \A v \in t + 1 .. next - 1 : ~IsInitialized(v),
         ~reverse => next <= t /\ \A v \in next + 1 .. t : ~IsInitialized(v)
  PROVE  LiquidityAt(IF reverse THEN next ELSE next - 1) =
           LiquidityAt(t) + (IF initialized
                             THEN IF reverse THEN LiquidityNet(next) ELSE -LiquidityNet(next)
                             ELSE 0)
<1>1. LiquidityAt(t) \in Nat /\ LiquidityNet(next) \in Int
  BY LiquidityTypes
<1>2. CASE reverse /\ initialized
  <2>1. LiquidityAt(next) = LiquidityAt(t) + LiquidityNet(next)
    BY <1>2, LiquidityUp
  <2> QED
    BY <1>2, <2>1
<1>3. CASE reverse /\ ~initialized
  <2>1. \A v \in t + 1 .. next : ~IsInitialized(v)
    BY <1>3
  <2>2. LiquidityAt(next) = LiquidityAt(t)
    BY <1>3, <2>1, LiquidityAlong
  <2> QED
    BY <1>1, <1>3, <2>2
<1> DEFINE below == next - 1
<1>4. below \in Int /\ below < next /\ next = below + 1
  OBVIOUS
<1> HIDE DEF below
<1>5. CASE ~reverse /\ initialized
  <2>1. LiquidityAt(t) = LiquidityAt(next)
    BY <1>5, LiquidityAlong
  <2>2. \A v \in below + 1 .. next - 1 : ~IsInitialized(v)
    BY <1>4
  <2>3. LiquidityAt(next) = LiquidityAt(below) + LiquidityNet(next)
    BY <1>4, <2>2, LiquidityUp
  <2>4. LiquidityAt(below) \in Nat
    BY <1>4, LiquidityTypes
  <2>5. LiquidityAt(below) = LiquidityAt(t) + (0 - LiquidityNet(next))
    BY <1>1, <2>1, <2>3, <2>4
  <2>6. LiquidityAt(below) = LiquidityAt(t) + (-LiquidityNet(next))
    BY <1>1, <2>5
  <2> QED
    BY <1>5, <2>6 DEF below
<1>6. CASE ~reverse /\ ~initialized
  <2>1. \A v \in below + 1 .. t : ~IsInitialized(v)
    BY <1>4, <1>6
  <2>2. LiquidityAt(t) = LiquidityAt(below)
    BY <1>4, <1>6, <2>1, LiquidityAlong
  <2> QED
    BY <1>1, <1>6, <2>2 DEF below
<1> QED
  BY <1>2, <1>3, <1>5, <1>6

(* Clamping passes over nothing but the pool's own bounds.                 *)
LEMMA NothingIsClamped ==
  ASSUME Minted, NEW n \in Int, NEW t \in MinTick .. MaxTick - 1, NEW reverse \in BOOLEAN,
         NEW next, next = Clamped(n),
         reverse => t < n /\ \A v \in t + 1 .. n - 1 : ~IsInitialized(v),
         ~reverse => n <= t /\ \A v \in n + 1 .. t : ~IsInitialized(v)
  PROVE  /\ next \in MinTick .. MaxTick
         /\ IsInitialized(next) <=> IsInitialized(n)
         /\ reverse => t < next /\ \A v \in t + 1 .. next - 1 : ~IsInitialized(v)
         /\ ~reverse => next <= t /\ \A v \in next + 1 .. t : ~IsInitialized(v)
<1>1. MaxTick \in Nat \ {0} /\ MinTick = 0 - MaxTick /\ t \in Int /\ MinTick <= t /\ t < MaxTick
  BY TickMathAssumption DEF MinTick
<1>2. next = IF n < MinTick THEN MinTick ELSE IF n > MaxTick THEN MaxTick ELSE n
  BY DEF Clamped
<1>3. IsInitialized(n) => n \in MinTick .. MaxTick
  BY InitializedIsEnd, EndIs
<1>4. next \in MinTick .. MaxTick
  BY <1>1, <1>2
<1>5. reverse => t < next /\ next <= n
  BY <1>1, <1>2
<1>6. ~reverse => next <= t /\ n <= next
  BY <1>1, <1>2
<1>7. reverse => \A v \in t + 1 .. next - 1 : ~IsInitialized(v)
  BY <1>1, <1>4, <1>5
<1>8. ~reverse => \A v \in next + 1 .. t : ~IsInitialized(v)
  BY <1>1, <1>4, <1>6
<1>9. ASSUME next # n
      PROVE  ~IsInitialized(next) /\ ~IsInitialized(n)
  <2>1. n \notin MinTick .. MaxTick
    BY <1>1, <1>2, <1>9
  <2>2. CASE reverse
    <3>1. next \in t + 1 .. n - 1
      BY <1>1, <1>4, <1>5, <1>9, <2>2
    <3> QED
      BY <1>3, <2>1, <2>2, <3>1
  <2>3. CASE ~reverse
    <3>1. next \in n + 1 .. t
      BY <1>1, <1>4, <1>6, <1>9, <2>3
    <3> QED
      BY <1>3, <2>1, <2>3, <3>1
  <2> QED
    BY <2>2, <2>3
<1> QED
  BY <1>4, <1>5, <1>6, <1>7, <1>8, <1>9

(* What a step is, while the chain stands: it goes to the next tick that   *)
(* is initialized, passing none, with the liquidity of where it stands.    *)
LEMMA StepIs ==
  ASSUME CacheInv, Step, infoAt = height, pc' = "loop",
         NEW bits, bits = bitmap[WordOfWalk].bits,
         NEW n, n = NextTick(walk, bits), NEW next, next = Clamped(n),
         NEW initialized \in BOOLEAN, initialized <=> Masked(walk, bits) # {},
         NEW s, s = SwapStep(walk.price, PriceAt[next], walk.liquidity, walk.left, Fee)
  PROVE  /\ Minted /\ Fee \in FeeShares
         /\ walk.reverse \in BOOLEAN /\ walk.left \in Nat /\ walk.out \in Nat
         /\ walk.tick \in MinTick .. MaxTick - 1 /\ walk.tick \in Int
         /\ walk.price \in Prices /\ InRange(walk.price)
         /\ PriceAt[walk.tick] <= walk.price /\ walk.price <= PriceAt[walk.tick + 1]
         /\ walk.liquidity \in Nat /\ walk.liquidity = LiquidityAt(walk.tick)
         /\ next \in MinTick .. MaxTick /\ next \in Int /\ PriceAt[next] \in Prices
         /\ initialized <=> IsInitialized(next)
         /\ initialized => tickData[next] = LiquidityNet(next)
         /\ walk.reverse =>
              walk.tick < next /\ \A v \in walk.tick + 1 .. next - 1 : ~IsInitialized(v)
         /\ ~walk.reverse =>
              next <= walk.tick /\ \A v \in next + 1 .. walk.tick : ~IsInitialized(v)
         /\ walk' = [reverse |-> walk.reverse,
                     left |-> walk.left - (s.in + s.fee),
                     out |-> walk.out + s.out,
                     paid |-> walk.paid,
                     price |-> s.price,
                     tick |-> IF s.price = PriceAt[next] THEN TickBeyond(walk, next)
                              ELSE IF s.price # walk.price THEN TickAtSqrtRatio(s.price)
                              ELSE walk.tick,
                     liquidity |-> IF s.price = PriceAt[next] /\ initialized
                                   THEN Crossed(walk, tickData[next]) ELSE walk.liquidity]
<1>1. /\ pc = "step" /\ StepTo(next, initialized)
      /\ UNCHANGED <<height, minted, info, infoAt, bitmap, tickData, quotes>>
  <2>1. initialized = (Masked(walk, bits) # {})
    OBVIOUS
  <2> QED
    BY <2>1 DEF Step, WordOfWalk, chainVars, cacheVars
<1> DEFINE t == walk.tick
           from == walk.price
           liquidity == walk.liquidity
           left == walk.left
           reverse == walk.reverse
           word == WordOfWalk
<1>5. TickInv /\ Minted /\ Walking
  BY <1>1 DEF CacheInv, TickInv, WalkTypes, Walking
<1>6. /\ t \in MinTick .. MaxTick - 1 /\ word \in Words
      /\ from \in Prices
      /\ PriceAt[t] <= from /\ from <= PriceAt[t + 1]
      /\ next \in MinTick .. MaxTick
      /\ initialized => next = n
  BY <1>1, <1>5, StepTarget
<1>7. InRange(from) /\ bitmap[word] # Unset /\ infoAt <= bitmap[word].block
  BY <1>1, <1>5 DEF TickInv, ReadingIsTheWalks, Continues
<1>8. /\ left \in Nat /\ walk.out \in Nat
      /\ liquidity = LiquidityAt(t)
      /\ reverse \in BOOLEAN
  BY <1>5 DEF CacheInv, LiquidityIsKnown, TickInv, WalkTypes
<1>9. bitmap[word].block = height
  <2>1. bitmap[word].block \in Nat /\ infoAt \in Nat
    BY <1>5, <1>6, <1>7 DEF TickInv, WalkTypes
  <2>2. bitmap[word].block <= height
    BY <1>6, <1>7 DEF CacheInv, WordsAreTheChains
  <2> QED
    BY <1>7, <2>1, <2>2
<1>10. /\ bits = BitsOnChain(word)
       /\ \A v \in TicksOnChain(word) : tickData[v] = LiquidityNet(v)
  BY <1>1, <1>6, <1>7, <1>9 DEF CacheInv, WordsAreTheChains, TicksAreTheChains
<1>11. walk' = [reverse |-> walk.reverse,
                left |-> left - (s.in + s.fee),
                out |-> walk.out + s.out,
                paid |-> walk.paid,
                price |-> s.price,
                tick |-> IF s.price = PriceAt[next] THEN TickBeyond(walk, next)
                         ELSE IF s.price # from THEN TickAtSqrtRatio(s.price) ELSE t,
                liquidity |-> IF s.price = PriceAt[next] /\ initialized
                              THEN Crossed(walk, tickData[next]) ELSE liquidity]
  BY <1>1, <1>5, StepToIs DEF TickInv
<1>13. t \in Int /\ word \in Int
  <2>1. MinTick \in Int
    BY TickMathAssumption DEF MinTick
  <2> QED
    BY <1>6, <2>1, WordsAreNumbers
<1>14. /\ n \in Int
       /\ reverse => t < n /\ \A v \in t + 1 .. n - 1 : ~IsInitialized(v)
       /\ ~reverse => n <= t /\ \A v \in n + 1 .. t : ~IsInitialized(v)
       /\ initialized <=> IsInitialized(n)
  <2>1. bits = BitsOnChain(WordOf(First(walk)))
    BY <1>10 DEF WordOfWalk
  <2> QED
    BY <1>5, <1>13, <2>1, NoTickIsMissed
<1>15. initialized => tickData[n] = LiquidityNet(n)
  <2> SUFFICES ASSUME initialized
               PROVE  n \in TicksOnChain(word)
    BY <1>10
  <2> QED
    BY <1>5, <1>10, <1>13, NextTickIsRead DEF WordOfWalk
<1> HIDE DEF t, from, liquidity, left, reverse, word
<1>17. /\ IsInitialized(next) <=> IsInitialized(n)
       /\ reverse => t < next /\ \A v \in t + 1 .. next - 1 : ~IsInitialized(v)
       /\ ~reverse => next <= t /\ \A v \in next + 1 .. t : ~IsInitialized(v)
  BY <1>5, <1>6, <1>8, <1>14, NothingIsClamped
<1>18. liquidity \in Nat /\ LiquidityAt(t) \in Nat
  BY <1>5, <1>8, <1>13, LiquidityTypes
<1>19. PriceAt[next] \in Prices /\ Fee \in FeeShares
  BY <1>6, PriceRises, WalkAssumption DEF FeeShares
<1>20. next \in Int
  <2>1. MinTick \in Int
    BY TickMathAssumption DEF MinTick
  <2> QED
    BY <1>6, <2>1
<1>21. (initialized <=> IsInitialized(next)) /\ (initialized => tickData[next] = LiquidityNet(next))
  BY <1>6, <1>14, <1>15, <1>17
<1> QED
  BY <1>5, <1>6, <1>7, <1>8, <1>11, <1>13, <1>17, <1>18, <1>19, <1>20, <1>21
     DEF t, from, liquidity, left, reverse

LEMMA CacheStep ==
  ASSUME CacheInv, Step
  PROVE  WordsAreTheChains' /\ TicksAreTheChains' /\ LiquidityIsKnown'
<1> DEFINE bits == bitmap[WordOfWalk].bits
           n == NextTick(walk, bits)
           next == Clamped(n)
           initialized == Masked(walk, bits) # {}
<1>1. /\ pc = "step" /\ StepTo(next, initialized)
      /\ UNCHANGED <<height, minted, info, infoAt, bitmap, tickData, quotes>>
  BY DEF Step, WordOfWalk, chainVars, cacheVars
<1>2. WordsAreTheChains' /\ TicksAreTheChains'
  BY <1>1, CacheKept
<1>3. infoAt = height => /\ \A q \in DOMAIN quotes : quotes[q].out \in Nat
                         /\ info # Unset => info.liquidity = LiquidityAt(info.tick)
  BY DEF CacheInv, LiquidityIsKnown
<1>4. SUFFICES ASSUME infoAt = height, pc' = "loop"
               PROVE  /\ walk'.left \in Nat /\ walk'.out \in Nat
                      /\ walk'.liquidity = LiquidityAt(walk'.tick)
  <2>1. pc' = "loop" \/ pc' = "raised"
    BY <1>1 DEF StepTo
  <2> QED
    BY <1>1, <1>2, <1>3, <2>1, ChainStands DEF LiquidityIsKnown, Walking
<1> DEFINE s == SwapStep(walk.price, PriceAt[next], walk.liquidity, walk.left, Fee)
           t == walk.tick
           from == walk.price
           liquidity == walk.liquidity
           left == walk.left
           reverse == walk.reverse
<1>5. /\ bits = bitmap[WordOfWalk].bits /\ n = NextTick(walk, bits) /\ next = Clamped(n)
      /\ initialized \in BOOLEAN /\ (initialized <=> Masked(walk, bits) # {})
      /\ s = SwapStep(from, PriceAt[next], liquidity, left, Fee)
  OBVIOUS
<1> HIDE DEF bits, n, next, initialized, s
<1>6. /\ Minted /\ Fee \in FeeShares
      /\ t \in MinTick .. MaxTick - 1 /\ t \in Int
      /\ from \in Prices /\ InRange(from) /\ PriceAt[t] <= from /\ from <= PriceAt[t + 1]
      /\ next \in MinTick .. MaxTick /\ next \in Int /\ PriceAt[next] \in Prices
      /\ liquidity \in Nat /\ liquidity = LiquidityAt(t)
      /\ left \in Nat /\ walk.out \in Nat /\ reverse \in BOOLEAN
  BY <1>4, <1>5, StepIs
<1>11. walk' = [reverse |-> walk.reverse,
                left |-> left - (s.in + s.fee),
                out |-> walk.out + s.out,
                paid |-> walk.paid,
                price |-> s.price,
                tick |-> IF s.price = PriceAt[next] THEN TickBeyond(walk, next)
                         ELSE IF s.price # from THEN TickAtSqrtRatio(s.price) ELSE t,
                liquidity |-> IF s.price = PriceAt[next] /\ initialized
                              THEN Crossed(walk, tickData[next]) ELSE liquidity]
  BY <1>4, <1>5, StepIs
<1>17. /\ initialized <=> IsInitialized(next)
       /\ initialized => tickData[next] = LiquidityNet(next)
       /\ reverse => t < next /\ \A v \in t + 1 .. next - 1 : ~IsInitialized(v)
       /\ ~reverse => next <= t /\ \A v \in next + 1 .. t : ~IsInitialized(v)
  BY <1>4, <1>5, StepIs
<1> HIDE DEF t, from, liquidity, left, reverse
<1>20. /\ s.price \in Prices /\ s.in \in Int /\ s.fee \in Int
       /\ s.price = PriceAt[next] \/ Towards(from, PriceAt[next], s.price)
       /\ s.out \in Nat
       /\ s.in + s.fee <= left
  <2>1. liquidity \in Int /\ left \in Int
    BY <1>6
  <2> QED
    BY <1>5, <1>6, <2>1, StepTypes, StepIn
<1>21. walk'.left \in Nat /\ walk'.out \in Nat
  BY <1>6, <1>11, <1>20
<1>22. CASE s.price = PriceAt[next]
  <2>1. next \in Int
    BY <1>6
  <2>2. walk'.tick = IF reverse THEN next ELSE next - 1
    BY <1>11, <1>22 DEF TickBeyond, reverse
  <2>3. LiquidityAt(IF reverse THEN next ELSE next - 1) =
           LiquidityAt(t) + (IF initialized
                             THEN IF reverse THEN LiquidityNet(next) ELSE -LiquidityNet(next)
                             ELSE 0)
    BY <1>5, <1>6, <1>17, <2>1, LiquidityCrossed
  <2>4. CASE initialized
    <3>1. tickData[next] = LiquidityNet(next)
      BY <1>17, <2>4
    <3>2. walk'.liquidity = liquidity + (IF reverse THEN LiquidityNet(next) ELSE -LiquidityNet(next))
      BY <1>11, <1>22, <2>4, <3>1 DEF Crossed, liquidity, reverse
    <3> QED
      BY <1>6, <1>21, <2>2, <2>3, <2>4, <3>2
  <2>5. CASE ~initialized
    <3>1. walk'.liquidity = liquidity
      BY <1>11, <2>5
    <3>2. LiquidityAt(IF reverse THEN next ELSE next - 1) = LiquidityAt(t)
      BY <1>6, <2>3, <2>5
    <3> QED
      BY <1>6, <1>21, <2>2, <3>1, <3>2
  <2> QED
    BY <2>4, <2>5
<1>23. CASE s.price # PriceAt[next]
  <2>1. walk'.liquidity = liquidity
    BY <1>11, <1>23
  <2>2. CASE s.price = from
    <3>1. walk'.tick = t
      BY <1>11, <1>23, <2>2
    <3> QED
      BY <1>6, <1>21, <2>1, <3>1
  <2>3. CASE s.price # from
    <3> DEFINE p == s.price
    <3>1. walk'.tick = TickAtSqrtRatio(p)
      BY <1>11, <1>23, <2>3
    <3>2. p \in Prices /\ p # from /\ Towards(from, PriceAt[next], p)
      BY <1>20, <1>23, <2>3
    <3> HIDE DEF p
    <3>3. next \in Int
      BY <1>6
    <3>4. t < next => \A v \in t + 1 .. next - 1 : ~IsInitialized(v)
      BY <1>6, <1>17, <3>3
    <3>5. next <= t => \A v \in next + 1 .. t : ~IsInitialized(v)
      BY <1>6, <1>17, <3>3
    <3>6. LiquidityAt(TickAtSqrtRatio(p)) = LiquidityAt(t)
      BY <1>6, <3>2, <3>4, <3>5, LiquidityShort
    <3> QED
      BY <1>6, <1>21, <2>1, <3>1, <3>6
  <2> QED
    BY <2>2, <2>3
<1> QED
  BY <1>22, <1>23

LEMMA CacheReturn ==
  ASSUME CacheInv, NEW timedOut, Return(timedOut)
  PROVE  WordsAreTheChains' /\ TicksAreTheChains' /\ LiquidityIsKnown'
<1>1. /\ pc = "loop" /\ pc' = "idle"
      /\ info'.tick = walk.tick /\ info'.liquidity = walk.liquidity
      /\ quotes' = Append(quotes, [in |-> walk.paid, out |-> walk.out, reverse |-> walk.reverse])
      /\ UNCHANGED <<height, minted, infoAt, bitmap, tickData>>
  BY DEF Return, chainVars, cacheVars
<1>2. LiquidityIsKnown'
  <2> SUFFICES ASSUME infoAt = height
               PROVE  /\ \A q \in DOMAIN quotes' : quotes'[q].out \in Nat
                      /\ info'.liquidity = LiquidityAt(info'.tick)
    BY <1>1, ChainStands DEF LiquidityIsKnown, Walking
  <2>1. /\ \A q \in DOMAIN quotes : quotes[q].out \in Nat
        /\ walk.out \in Nat /\ walk.liquidity = LiquidityAt(walk.tick)
    BY <1>1 DEF CacheInv, LiquidityIsKnown, Walking
  <2>2. \A q \in DOMAIN quotes' : quotes'[q].out \in Nat
    <3> DEFINE Q == [in : Int, out : Int, reverse : BOOLEAN]
               e == [in |-> walk.paid, out |-> walk.out, reverse |-> walk.reverse]
    <3>1. quotes \in Seq(Q) /\ e \in Q /\ e.out \in Nat
      BY <2>1 DEF CacheInv, TickInv, WalkTypes
    <3>2. quotes' = Append(quotes, e)
      BY <1>1
    <3> HIDE DEF Q, e
    <3>3. \A q \in DOMAIN quotes' : quotes'[q] = e \/ (q \in DOMAIN quotes /\ quotes'[q] = quotes[q])
      BY <3>1, <3>2
    <3> QED
      BY <2>1, <3>1, <3>3
  <2> QED
    BY <1>1, <2>1, <2>2
<1> QED
  BY <1>1, <1>2, CacheKept

LEMMA CacheRestart ==
  ASSUME CacheInv, Restart
  PROVE  WordsAreTheChains' /\ TicksAreTheChains' /\ LiquidityIsKnown'
<1>1. /\ pc = "raised" /\ pc' = "idle" /\ info' = Unset /\ quotes' = <<>>
      /\ UNCHANGED <<height, minted, bitmap, tickData>>
  BY DEF Restart, chainVars, cacheVars
<1> QED
  BY <1>1, CacheKept DEF LiquidityIsKnown, Walking

LEMMA CacheNext ==
  ASSUME CacheInv, [Next]_vars
  PROVE  CacheInv'
<1>1. TickInv'
  BY TickStep DEF CacheInv
<1>2. CASE UNCHANGED vars
  <2>1. /\ UNCHANGED <<height, minted, info, infoAt, walk, quotes, bitmap, tickData, pc, reading>>
    BY <1>2 DEF vars, chainVars, cacheVars
  <2>2. LiquidityIsKnown'
    BY <2>1, SolventKept DEF Walking
  <2>3. WordsRead' = WordsRead
    BY <2>1 DEF WordsRead
  <2>4. WordsAreTheChains' /\ TicksAreTheChains'
    BY <2>1, <2>3, ChainStands DEF CacheInv, WordsAreTheChains, TicksAreTheChains
  <2> QED
    BY <1>1, <2>2, <2>4 DEF CacheInv
<1>3. CASE Next
  <2>1. WordsAreTheChains' /\ TicksAreTheChains' /\ LiquidityIsKnown'
    BY <1>3, CacheMine, CacheFetch, CacheQuote, CacheLookup, CacheReadBitmap, CacheReadTicks,
       CacheStep, CacheReturn, CacheRestart DEF Next, Walk
  <2> QED
    BY <1>1, <2>1 DEF CacheInv
<1> QED
  BY <1>2, <1>3

(***************************************************************************)
(* While the chain is where the pool was fetched, the liquidity a quote    *)
(* reckons with is that of the positions its tick is in: what is left in   *)
(* the cache of earlier blocks, and of ticks that are gone, is never what  *)
(* it is taken from.                                                       *)
(***************************************************************************)
THEOREM StaleWordsDoNoHarm == Spec => []LiquidityIsThePositions
<1>1. Init => CacheInv
  BY CacheInit
<1>2. CacheInv /\ [Next]_vars => CacheInv'
  BY CacheNext
<1>3. CacheInv => LiquidityIsThePositions
  <2> SUFFICES ASSUME CacheInv, infoAt = height, info # Unset, pc # "raised"
               PROVE  Belief.liquidity = LiquidityAt(Belief.tick)
    BY DEF LiquidityIsThePositions
  <2>1. pc = "idle" => Belief = info
    BY DEF Belief
  <2>2. pc # "idle" => Walking /\ Belief = walk
    BY DEF Belief, Walking
  <2> QED
    BY <2>1, <2>2 DEF CacheInv, LiquidityIsKnown
<1> QED
  BY <1>1, <1>2, <1>3, PTL DEF Spec

-----------------------------------------------------------------------------
(* There and back through a concentrated pool.                             *)

LEMMA ShownAreFinite == IsFiniteSet(Shown) /\ MaxSqrtRatio \in Prices /\ Shown \subseteq Prices
<1>1. MaxTick \in MinTick .. MaxTick
  BY TickMathAssumption DEF MinTick
<1>2. MaxSqrtRatio \in Nat \ {0}
  BY <1>1, PricesIncrease DEF MaxSqrtRatio
<1> QED
  BY <1>2, FS_Interval DEF Shown, Prices

LEMMA CommonExists == \E n : IsCommon(n, Shown)
<1> DEFINE K == {T \in SUBSET Shown : \E n : IsCommon(n, T)}
<1>1. {} \in K
  <2>1. IsCommon(1, {})
    BY DEF IsCommon
  <2> QED
    BY <2>1
<1>2. ASSUME NEW T \in SUBSET Shown, T # {}, \A x \in T : T \ {x} \in K
      PROVE  T \in K
  <2>1. PICK x \in T : TRUE
    BY <1>2
  <2>2. PICK n : IsCommon(n, T \ {x})
    BY <1>2, <2>1
  <2>3. x \in Nat \ {0} /\ n \in Nat \ {0}
    BY <1>2, <2>1, <2>2, ShownAreFinite DEF IsCommon, Prices
  <2> DEFINE m == n * x
  <2>4. m \in Nat \ {0}
    BY <2>3
  <2>5. ASSUME NEW p \in T
        PROVE  \E k \in Nat \ {0} : m = k * p
    <3>1. CASE p = x
      BY <2>3, <3>1
    <3>2. CASE p # x
      <4>1. PICK k \in Nat \ {0} : n = k * p
        BY <2>2, <2>5, <3>2 DEF IsCommon
      <4>2. p \in Nat \ {0}
        BY <1>2, <2>5, ShownAreFinite DEF Prices
      <4>3. k * x \in Nat \ {0} /\ m = (k * x) * p
        BY <2>3, <4>1, <4>2
      <4> QED
        BY <4>3
    <3> QED
      BY <3>1, <3>2
  <2> HIDE DEF m
  <2>6. IsCommon(m, T)
    BY <2>4, <2>5 DEF IsCommon
  <2> QED
    BY <2>6
<1>3. K = SUBSET Shown
  <2>1. K \in SUBSET SUBSET Shown
    OBVIOUS
  <2> HIDE DEF K
  <2> QED
    BY <1>1, <1>2, <2>1, ShownAreFinite, SetInduction
<1> QED
  BY <1>3

LEMMA PartIs ==
  /\ Common \in Nat \ {0}
  /\ \A p \in Shown : Part(p) \in Nat \ {0} /\ Common = Part(p) * p
<1>1. IsCommon(Common, Shown)
  BY CommonExists DEF Common
<1> QED
  BY <1>1 DEF IsCommon, Part

LEMMA PartFalls ==
  ASSUME NEW p \in Shown, NEW q \in Shown, p < q
  PROVE  Part(q) < Part(p)
<1> DEFINE k == Part(p)
           l == Part(q)
<1>1. p \in Nat \ {0} /\ q \in Nat \ {0}
  BY ShownAreFinite DEF Prices
<1>2. k \in Nat \ {0} /\ l \in Nat \ {0} /\ k * p = l * q
  BY PartIs
<1> HIDE DEF k, l
<1>3. SUFFICES ASSUME k <= l
               PROVE  FALSE
  BY <1>2 DEF k, l
<1>4. k * p < k * q /\ k * q <= l * q
  BY <1>1, <1>2, <1>3
<1>5. k * p \in Int /\ k * q \in Int /\ l * q \in Int
  BY <1>1, <1>2
<1> QED
  BY <1>2, <1>4, <1>5

(* A position has nothing to do with prices beyond its ends.               *)
Within(p, x) ==
  IF p < PriceAt[x.lower] THEN PriceAt[x.lower]
  ELSE IF p > PriceAt[x.upper] THEN PriceAt[x.upper] ELSE p

Bent(c, x) ==
  [one |-> [p \in Shown |-> c.one[p] + x.liquidity * Within(p, x)],
   zero |-> [p \in Shown |-> c.zero[p] + x.liquidity * (One * Part(Within(p, x)))]]

LEMMA TicksAreShown ==
  ASSUME NEW t \in MinTick .. MaxTick
  PROVE  PriceAt[t] \in Shown
<1>1. MaxTick \in Int /\ MinTick \in Int
  BY TickMathAssumption DEF MinTick
<1>2. MaxTick \in MinTick .. MaxTick /\ t <= MaxTick
  BY <1>1
<1>3. PriceAt[t] \in Nat \ {0} /\ PriceAt[t] <= MaxSqrtRatio
  BY <1>2, PriceRises DEF Prices, MaxSqrtRatio
<1> QED
  BY <1>3, ShownAreFinite DEF Shown, Prices

LEMMA PositionIs ==
  ASSUME NEW x \in Positions
  PROVE  /\ x.lower \in MinTick .. MaxTick /\ x.upper \in MinTick .. MaxTick
         /\ x.lower < x.upper /\ x.liquidity \in Nat \ {0}
         /\ PriceAt[x.lower] \in Shown /\ PriceAt[x.upper] \in Shown
         /\ PriceAt[x.lower] < PriceAt[x.upper]
<1>1. /\ x.lower \in MinTick .. MaxTick /\ x.upper \in MinTick .. MaxTick
      /\ x.lower < x.upper /\ x.liquidity \in Nat \ {0}
  BY WalkAssumption
<1> QED
  BY <1>1, TicksAreShown, PricesIncrease

LEMMA WithinIs ==
  ASSUME NEW x \in Positions, NEW p \in Shown, NEW q \in Shown, p <= q
  PROVE  /\ Within(p, x) \in Shown /\ Within(q, x) \in Shown
         /\ Within(p, x) <= Within(q, x)
<1> DEFINE l == PriceAt[x.lower]
           u == PriceAt[x.upper]
<1>1. l \in Shown /\ u \in Shown /\ l < u
  BY PositionIs
<1>2. Shown \subseteq Nat
  BY ShownAreFinite DEF Prices
<1>3. /\ Within(p, x) = IF p < l THEN l ELSE IF p > u THEN u ELSE p
      /\ Within(q, x) = IF q < l THEN l ELSE IF q > u THEN u ELSE q
  BY DEF Within
<1> HIDE DEF l, u
<1> QED
  BY <1>1, <1>2, <1>3

(* Between two ticks where it does not end, a position is used or not.     *)
LEMMA WithinBetween ==
  ASSUME NEW x \in Positions, NEW a \in MinTick .. MaxTick, NEW b \in MinTick .. MaxTick, a < b,
         \A v \in a + 1 .. b - 1 : x.lower # v /\ x.upper # v,
         NEW p \in Shown, NEW q \in Shown, PriceAt[a] <= p, p <= q, q <= PriceAt[b]
  PROVE  IF x.lower <= a /\ a < x.upper THEN Within(p, x) = p /\ Within(q, x) = q
         ELSE Within(p, x) = Within(q, x)
<1> DEFINE l == PriceAt[x.lower]
           u == PriceAt[x.upper]
<1>1. /\ l \in Shown /\ u \in Shown /\ l < u
      /\ x.lower \in MinTick .. MaxTick /\ x.upper \in MinTick .. MaxTick
  BY PositionIs
<1>2. Shown \subseteq Nat /\ PriceAt[a] \in Shown /\ PriceAt[b] \in Shown
  BY ShownAreFinite, TicksAreShown DEF Prices
<1>3. /\ Within(p, x) = IF p < l THEN l ELSE IF p > u THEN u ELSE p
      /\ Within(q, x) = IF q < l THEN l ELSE IF q > u THEN u ELSE q
  BY DEF Within
<1>4. MinTick \in Int /\ MaxTick \in Int
  BY TickMathAssumption DEF MinTick
<1>5. a \in Int /\ b \in Int /\ x.lower \in Int /\ x.upper \in Int
  BY <1>1, <1>4
<1>6. /\ x.lower <= a \/ b <= x.lower
      /\ x.upper <= a \/ b <= x.upper
  BY <1>5
<1>7. /\ x.lower <= a => l <= PriceAt[a]
      /\ b <= x.lower => PriceAt[b] <= l
      /\ x.upper <= a => u <= PriceAt[a]
      /\ b <= x.upper => PriceAt[b] <= u
  BY <1>1, PriceRises
<1> DEFINE A == PriceAt[a]
           B == PriceAt[b]
           r == Within(p, x)
           s == Within(q, x)
<1>8. /\ l \in Nat /\ u \in Nat /\ p \in Nat /\ q \in Nat /\ A \in Nat /\ B \in Nat
      /\ A <= p /\ p <= q /\ q <= B /\ l < u
  BY <1>1, <1>2
<1>9. /\ r = IF p < l THEN l ELSE IF p > u THEN u ELSE p
      /\ s = IF q < l THEN l ELSE IF q > u THEN u ELSE q
  BY <1>3
<1>10. /\ x.lower <= a => l <= A
       /\ b <= x.lower => B <= l
       /\ x.upper <= a => u <= A
       /\ b <= x.upper => B <= u
  BY <1>7
<1>11. SUFFICES IF x.lower <= a /\ a < x.upper THEN r = p /\ s = q ELSE r = s
  OBVIOUS
<1> HIDE DEF l, u, A, B, r, s
<1>12. CASE x.lower <= a /\ a < x.upper
  <2>1. b <= x.upper
    BY <1>5, <1>6, <1>12
  <2>2. l <= A /\ B <= u
    BY <1>10, <1>12, <2>1
  <2>3. l <= p /\ p <= u /\ l <= q /\ q <= u
    BY <1>8, <2>2
  <2>4. r = p /\ s = q
    BY <1>8, <1>9, <2>3
  <2> QED
    BY <1>12, <2>4
<1>13. CASE ~(x.lower <= a /\ a < x.upper)
  <2>1. b <= x.lower \/ x.upper <= a
    BY <1>5, <1>6, <1>13
  <2>2. B <= l \/ u <= A
    BY <1>10, <2>1
  <2>3. CASE B <= l
    <3>1. p <= l /\ q <= l
      BY <1>8, <2>3
    <3>2. r = l /\ s = l
      BY <1>8, <1>9, <3>1
    <3> QED
      BY <1>13, <3>2
  <2>4. CASE u <= A
    <3>1. u <= p /\ u <= q
      BY <1>8, <2>4
    <3>2. r = u /\ s = u
      BY <1>8, <1>9, <3>1
    <3> QED
      BY <1>13, <3>2
  <2> QED
    BY <2>2, <2>3, <2>4
<1> QED
  BY <1>12, <1>13

LEMMA AroundIs ==
  ASSUME NEW M \in SUBSET Positions, NEW x \in M, NEW t
  PROVE  Liquidity(Around(M, t)) =
           (IF x.lower <= t /\ t < x.upper THEN x.liquidity ELSE 0)
             + Liquidity(Around(M \ {x}, t))
<1> DEFINE L == Liquidity(Around(M \ {x}, t))
<1>1. Around(M \ {x}, t) \in SUBSET Positions /\ L \in Nat
  BY LiquidityIsNatural DEF Around
<1>2. CASE x.lower <= t /\ t < x.upper
  <2>1. Around(M, t) \in SUBSET Positions /\ x \in Around(M, t)
    BY <1>2 DEF Around
  <2>2. Around(M, t) \ {x} = Around(M \ {x}, t)
    BY DEF Around
  <2>3. Liquidity(Around(M, t)) = x.liquidity + L
    BY <2>1, <2>2, LiquidityWith
  <2> QED
    BY <1>2, <2>3
<1>3. CASE ~(x.lower <= t /\ t < x.upper)
  <2>1. Around(M, t) = Around(M \ {x}, t)
    BY <1>3 DEF Around
  <2>2. L = 0 + L
    BY <1>1
  <2> QED
    BY <1>3, <2>1, <2>2
<1> QED
  BY <1>2, <1>3

(* A position tilts the curve the more.                                    *)
LEMMA BentTilts ==
  ASSUME NEW x \in Positions, NEW c \in [one : [Shown -> Int], zero : [Shown -> Int]],
         NEW p \in Shown, NEW q \in Shown, p <= q, Tilts(c, p, q)
  PROVE  Tilts(Bent(c, x), p, q)
<1> DEFINE v == Within(p, x)
           w == Within(q, x)
           l == x.liquidity
           k == Part(v)
           m == Part(w)
           d == l * v
           e == l * w
           f == l * (One * k)
           g == l * (One * m)
           c1 == c.one[p]
           c2 == c.one[q]
           c3 == c.zero[p]
           c4 == c.zero[q]
<1>1. v \in Shown /\ w \in Shown /\ v <= w
  BY WithinIs
<1>2. v \in Nat \ {0} /\ w \in Nat \ {0} /\ k \in Nat \ {0} /\ m \in Nat \ {0}
  BY <1>1, ShownAreFinite, PartIs DEF Prices
<1>3. v < w => m < k
  BY <1>1, PartFalls
<1>4. v = w => m = k
  OBVIOUS
<1>5. l \in Nat \ {0} /\ One \in Nat \ {0}
  BY PositionIs, TickMathAssumption DEF One
<1>6. c1 \in Int /\ c2 \in Int /\ c3 \in Int /\ c4 \in Int
  OBVIOUS
<1>7. c1 <= c2 /\ c4 <= c3 /\ (c1 = c2 <=> c3 = c4)
  BY DEF Tilts
<1>8. /\ Bent(c, x).one[p] = c1 + d /\ Bent(c, x).one[q] = c2 + e
      /\ Bent(c, x).zero[p] = c3 + f /\ Bent(c, x).zero[q] = c4 + g
  BY DEF Bent
<1> HIDE DEF v, w, l, k, m, c1, c2, c3, c4
<1>9. d \in Int /\ e \in Int /\ f \in Int /\ g \in Int
  <2>1. One * k \in Int /\ One * m \in Int
    BY <1>2, <1>5
  <2> QED
    BY <1>2, <1>5, <2>1
<1>10. CASE v = w
  <2>1. d = e /\ f = g
    BY <1>4, <1>10
  <2> HIDE DEF d, e, f, g
  <2>2. /\ c1 + d <= c2 + e /\ c4 + g <= c3 + f
        /\ (c1 + d = c2 + e <=> c3 + f = c4 + g)
    BY <1>6, <1>7, <1>9, <2>1
  <2> QED
    BY <1>8, <2>2 DEF Tilts
<1>11. CASE v < w
  <2>1. d < e
    BY <1>2, <1>5, <1>11
  <2>2. One * m < One * k /\ One * m \in Int /\ One * k \in Int
    BY <1>2, <1>3, <1>5, <1>11
  <2>3. g < f
    <3> DEFINE i == One * m
               j == One * k
    <3>1. i < j /\ i \in Int /\ j \in Int
      BY <2>2
    <3> HIDE DEF i, j
    <3>2. l * i < l * j
      BY <1>5, <3>1
    <3> QED
      BY <3>2 DEF i, j
  <2> HIDE DEF d, e, f, g
  <2>4. c1 + d < c2 + e /\ c4 + g < c3 + f
    BY <1>6, <1>7, <1>9, <2>1, <2>3
  <2>5. c1 + d \in Int /\ c2 + e \in Int /\ c3 + f \in Int /\ c4 + g \in Int
    BY <1>6, <1>9
  <2>6. /\ c1 + d <= c2 + e /\ c4 + g <= c3 + f
        /\ (c1 + d = c2 + e <=> c3 + f = c4 + g)
    BY <2>4, <2>5
  <2> QED
    BY <1>8, <2>6 DEF Tilts
<1> QED
  BY <1>1, <1>2, <1>10, <1>11

LEMMA BentFollows ==
  ASSUME NEW x \in Positions, NEW c \in [one : [Shown -> Int], zero : [Shown -> Int]],
         NEW p \in Shown, NEW q \in Shown, NEW L \in Nat, NEW used \in BOOLEAN,
         Follows(c, L, p, q),
         IF used THEN Within(p, x) = p /\ Within(q, x) = q ELSE Within(p, x) = Within(q, x)
  PROVE  Follows(Bent(c, x), (IF used THEN x.liquidity ELSE 0) + L, p, q)
<1> DEFINE v == Within(p, x)
           w == Within(q, x)
           l == x.liquidity
           i == One * Part(v)
           j == One * Part(w)
           s == One * Part(p)
           t == One * Part(q)
           c1 == c.one[p]
           c2 == c.one[q]
           c3 == c.zero[p]
           c4 == c.zero[q]
           n == q - p
           o == s - t
<1>1. p \in Nat /\ q \in Nat /\ l \in Nat /\ One \in Nat /\ Part(p) \in Nat /\ Part(q) \in Nat
  BY ShownAreFinite, PartIs, PositionIs, TickMathAssumption DEF Prices, One
<1>2. s \in Int /\ t \in Int /\ n \in Int /\ o \in Int /\ One * (Part(p) - Part(q)) = o
  BY <1>1
<1>3. c1 \in Int /\ c2 \in Int /\ c3 \in Int /\ c4 \in Int
  OBVIOUS
<1>4. c2 - c1 = L * n /\ c3 - c4 = L * o
  BY <1>2 DEF Follows
<1>5. /\ Bent(c, x).one[p] = c1 + l * v /\ Bent(c, x).one[q] = c2 + l * w
      /\ Bent(c, x).zero[p] = c3 + l * i /\ Bent(c, x).zero[q] = c4 + l * j
  BY DEF Bent
<1>6. v \in Int /\ w \in Int /\ i \in Int /\ j \in Int
  <2>1. Within(p, x) \in Shown /\ Within(q, x) \in Shown
    BY WithinIs, <1>1
  <2>2. v \in Nat /\ w \in Nat /\ Part(v) \in Nat /\ Part(w) \in Nat
    BY <2>1, ShownAreFinite, PartIs DEF Prices
  <2> QED
    BY <1>1, <2>2
<1>7. IF used THEN v = p /\ w = q /\ i = s /\ j = t ELSE v = w /\ i = j
  OBVIOUS
<1>8. SUFFICES ASSUME NEW K, K = (IF used THEN l ELSE 0) + L
               PROVE  Follows(Bent(c, x), K, p, q)
  OBVIOUS
<1>9. SUFFICES /\ (c2 + l * w) - (c1 + l * v) = K * n
               /\ (c3 + l * i) - (c4 + l * j) = K * o
  BY <1>2, <1>5 DEF Follows
<1>10. p \in Int /\ q \in Int /\ n = q - p /\ o = s - t
  BY <1>1
<1> HIDE DEF v, w, l, i, j, s, t, c1, c2, c3, c4, n, o
<1>11. CASE used
  <2>1. v = p /\ w = q /\ i = s /\ j = t /\ K = l + L
    BY <1>7, <1>8, <1>11
  <2>2. l * w = l * v + l * n /\ l * i = l * j + l * o
    BY <1>1, <1>2, <1>10, <2>1
  <2>3. K * n = l * n + L * n /\ K * o = l * o + L * o
    BY <1>1, <1>2, <2>1
  <2> DEFINE A == l * v
             B == l * w
             C == l * i
             D == l * j
             E == l * n
             F == l * o
             G == L * n
             H == L * o
  <2>4. /\ A \in Int /\ B \in Int /\ C \in Int /\ D \in Int
        /\ E \in Int /\ F \in Int /\ G \in Int /\ H \in Int
    BY <1>1, <1>2, <1>6
  <2>5. c2 - c1 = G /\ c3 - c4 = H
    BY <1>4
  <2>6. B = A + E /\ C = D + F
    BY <2>2
  <2>7. K * n = E + G /\ K * o = F + H
    BY <2>3
  <2>8. SUFFICES /\ (c2 + B) - (c1 + A) = E + G
                 /\ (c3 + C) - (c4 + D) = F + H
    BY <2>7
  <2> HIDE DEF A, B, C, D, E, F, G, H
  <2> QED
    BY <1>3, <2>4, <2>5, <2>6
<1>12. CASE ~used
  <2>1. v = w /\ i = j /\ K = L
    BY <1>7, <1>8, <1>12
  <2> DEFINE A == l * v
             C == l * i
  <2>2. A \in Int /\ C \in Int /\ l * w = A /\ l * j = C
    BY <1>1, <1>6, <2>1
  <2> HIDE DEF A, C
  <2>3. /\ (c2 + A) - (c1 + A) = c2 - c1
        /\ (c3 + C) - (c4 + C) = c3 - c4
    BY <1>3, <2>2
  <2> QED
    BY <1>4, <2>1, <2>2, <2>3 DEF A, C
<1> QED
  BY <1>11, <1>12

LEMMA BentIsCurve ==
  ASSUME NEW M \in SUBSET Positions, NEW x \in M, NEW c, IsCurve(M \ {x}, c)
  PROVE  IsCurve(M, Bent(c, x))
<1>1. c \in [one : [Shown -> Int], zero : [Shown -> Int]] /\ x \in Positions
  BY DEF IsCurve
<1>2. Bent(c, x) \in [one : [Shown -> Int], zero : [Shown -> Int]]
  <2>1. ASSUME NEW p \in Shown
        PROVE  /\ c.one[p] + x.liquidity * Within(p, x) \in Int
               /\ c.zero[p] + x.liquidity * (One * Part(Within(p, x))) \in Int
    <3>1. Within(p, x) \in Shown
      BY <1>1, WithinIs, ShownAreFinite DEF Prices
    <3>2. Within(p, x) \in Nat /\ Part(Within(p, x)) \in Nat /\ x.liquidity \in Nat /\ One \in Nat
      BY <1>1, <3>1, ShownAreFinite, PartIs, PositionIs, TickMathAssumption DEF Prices, One
    <3>3. c.one[p] \in Int /\ c.zero[p] \in Int
      BY <1>1
    <3>4. One * Part(Within(p, x)) \in Int
      BY <3>2
    <3> QED
      BY <3>2, <3>3, <3>4
  <2> QED
    BY <2>1 DEF Bent
<1>3. ASSUME NEW p \in Shown, NEW q \in Shown, p <= q
      PROVE  Tilts(Bent(c, x), p, q)
  BY <1>1, <1>3, BentTilts DEF IsCurve
<1>4. ASSUME NEW a \in MinTick .. MaxTick, NEW b \in MinTick .. MaxTick,
             NEW p \in Shown, NEW q \in Shown,
             a < b, Even(M, a, b), PriceAt[a] <= p, p <= q, q <= PriceAt[b]
      PROVE  Follows(Bent(c, x), Liquidity(Around(M, a)), p, q)
  <2> DEFINE L == Liquidity(Around(M \ {x}, a))
             used == x.lower <= a /\ a < x.upper
  <2>1. Even(M \ {x}, a, b) /\ \A v \in a + 1 .. b - 1 : x.lower # v /\ x.upper # v
    BY <1>4 DEF Even
  <2>2. Follows(c, L, p, q)
    BY <1>4, <2>1 DEF IsCurve
  <2>3. IF used THEN Within(p, x) = p /\ Within(q, x) = q ELSE Within(p, x) = Within(q, x)
    BY <1>1, <1>4, <2>1, WithinBetween
  <2>4. L \in Nat
    <3>1. Around(M \ {x}, a) \in SUBSET Positions
      BY DEF Around
    <3> QED
      BY <3>1, LiquidityIsNatural
  <2>5. used \in BOOLEAN
    OBVIOUS
  <2>6. Liquidity(Around(M, a)) = (IF used THEN x.liquidity ELSE 0) + L
    BY AroundIs
  <2> HIDE DEF used, L
  <2>7. Follows(Bent(c, x), (IF used THEN x.liquidity ELSE 0) + L, p, q)
    BY <1>1, <2>2, <2>3, <2>4, <2>5, BentFollows
  <2> QED
    BY <2>6, <2>7
<1> QED
  BY <1>2, <1>3, <1>4 DEF IsCurve

LEMMA EmptyCurve == \E c : IsCurve({}, c)
<1> DEFINE c == [one |-> [p \in Shown |-> 0], zero |-> [p \in Shown |-> 0]]
<1>1. c \in [one : [Shown -> Int], zero : [Shown -> Int]]
  OBVIOUS
<1>2. \A p \in Shown : c.one[p] = 0 /\ c.zero[p] = 0
  OBVIOUS
<1> HIDE DEF c
<1>3. \A p, q \in Shown : Tilts(c, p, q)
  BY <1>2 DEF Tilts
<1>4. ASSUME NEW a, NEW p \in Shown, NEW q \in Shown
      PROVE  Follows(c, Liquidity(Around({}, a)), p, q)
  <2>1. Around({}, a) = {}
    BY DEF Around
  <2>2. p \in Int /\ q \in Int /\ Part(p) \in Int /\ Part(q) \in Int /\ One \in Int
    BY ShownAreFinite, PartIs, TickMathAssumption DEF Prices, One
  <2>3. One * (Part(p) - Part(q)) \in Int
    BY <2>2
  <2>4. 0 * (q - p) = 0 /\ 0 * (One * (Part(p) - Part(q))) = 0
    BY <2>2, <2>3
  <2> QED
    BY <1>2, <2>1, <2>4, LiquidityOfNone DEF Follows
<1>5. IsCurve({}, c)
  BY <1>1, <1>3, <1>4 DEF IsCurve
<1> QED
  BY <1>5

LEMMA CurveExists ==
  ASSUME NEW M \in SUBSET Positions
  PROVE  \E c : IsCurve(M, c)
<1> DEFINE K == {T \in SUBSET Positions : \E c : IsCurve(T, c)}
<1>1. {} \in K
  BY EmptyCurve
<1>2. ASSUME NEW T \in SUBSET Positions, T # {}, \A x \in T : T \ {x} \in K
      PROVE  T \in K
  <2>1. PICK x \in T : TRUE
    BY <1>2
  <2>2. PICK c : IsCurve(T \ {x}, c)
    BY <1>2, <2>1
  <2>3. IsCurve(T, Bent(c, x))
    BY <2>1, <2>2, BentIsCurve
  <2> QED
    BY <2>3
<1>3. K = SUBSET Positions
  <2>1. K \in SUBSET SUBSET Positions
    OBVIOUS
  <2> HIDE DEF K
  <2> QED
    BY <1>1, <1>2, <2>1, WalkAssumption, SetInduction
<1> QED
  BY <1>3

LEMMA CurveIs ==
  ASSUME NEW M \in SUBSET Positions
  PROVE  IsCurve(M, Curve(M))
BY CurveExists DEF Curve

-----------------------------------------------------------------------------
(* What a step costs and gives.                                            *)

LEMMA PartsBetween ==
  ASSUME NEW low \in Shown, NEW high \in Shown
  PROVE  (Part(low) - Part(high)) * (low * high) = Common * (high - low)
<1> DEFINE k == Part(low)
           m == Part(high)
           c == Common
<1>1. low \in Nat /\ high \in Nat /\ k \in Nat /\ m \in Nat /\ c \in Nat
  BY ShownAreFinite, PartIs DEF Prices
<1>2. c = k * low /\ c = m * high
  BY PartIs
<1> HIDE DEF k, m, c
<1>3. (k - m) * (low * high) = k * (low * high) - m * (low * high)
  BY <1>1
<1>4. k * (low * high) = (k * low) * high /\ m * (low * high) = (m * high) * low
  BY <1>1
<1>5. c * (high - low) = c * high - c * low
  BY <1>1
<1>6. (k - m) * (low * high) = c * (high - low)
  BY <1>2, <1>3, <1>4, <1>5
<1> QED
  BY <1>6 DEF k, m, c

(* An amount of token 0, times both prices, reckoned in parts.             *)
LEMMA InParts ==
  ASSUME NEW low \in Shown, NEW high \in Shown, NEW s \in Nat, NEW n \in Int
  PROVE  /\ s * (high - low) <= n * (low * high) => s * (Part(low) - Part(high)) <= n * Common
         /\ n * (low * high) <= s * (high - low) => n * Common <= s * (Part(low) - Part(high))
<1> DEFINE d == low * high
           e == Part(low) - Part(high)
           f == high - low
           c == Common
<1>1. low \in Nat \ {0} /\ high \in Nat \ {0} /\ e \in Int /\ c \in Nat \ {0}
  BY ShownAreFinite, PartIs DEF Prices
<1>2. d \in Nat \ {0} /\ f \in Int
  BY <1>1
<1>3. e * d = c * f
  BY PartsBetween
<1> HIDE DEF d, e, f, c
<1> DEFINE x == s * e
           y == n * c
           g == s * f
           h == n * d
<1>4. x \in Int /\ y \in Int /\ g \in Int /\ h \in Int
  BY <1>1, <1>2
<1>5. d * x = c * g
  <2>1. d * x = s * (e * d) /\ c * g = s * (c * f)
    BY <1>1, <1>2
  <2> QED
    BY <1>3, <2>1
<1>6. d * y = c * h
  BY <1>1, <1>2
<1> HIDE DEF x, y, g, h
<1>7. ASSUME g <= h PROVE x <= y
  <2>1. c * g <= c * h
    BY <1>1, <1>4, <1>7
  <2>2. d * x <= d * y
    BY <1>5, <1>6, <2>1
  <2> QED
    BY <1>2, <1>4, <2>2, FactorIsNoMore
<1>8. ASSUME h <= g PROVE y <= x
  <2>1. c * h <= c * g
    BY <1>1, <1>4, <1>8
  <2>2. d * y <= d * x
    BY <1>5, <1>6, <2>1
  <2> QED
    BY <1>2, <1>4, <2>2, FactorIsNoMore
<1> QED
  BY <1>7, <1>8 DEF d, e, f, c, x, y, g, h

(* What is paid is rounded up, what is received down.                      *)
LEMMA Amount0Rounds ==
  ASSUME NEW low \in Prices, NEW high \in Prices, low <= high, NEW liquidity \in Nat,
         NEW p, NEW q, Lower(p, q) = low, Upper(p, q) = high
  PROVE  /\ Amount0Delta(p, q, liquidity, TRUE) \in Int
         /\ (liquidity * One) * (high - low) <= Amount0Delta(p, q, liquidity, TRUE) * (low * high)
         /\ Amount0Delta(p, q, liquidity, FALSE) * (low * high) <= (liquidity * One) * (high - low)
<1> DEFINE s == liquidity * One
           distance == high - low
           n == s * distance
           m == MulDivUp(s, distance, high)
           u == DivUp(m, low)
           k == n \div high
           d == k \div low
           both == low * high
<1>1. One \in Nat /\ low \in Nat \ {0} /\ high \in Nat \ {0} /\ distance \in Nat
  BY TickMathAssumption DEF One, Prices
<1>2. s \in Nat
  BY <1>1
<1>3. /\ Amount0Delta(p, q, liquidity, TRUE) = u
      /\ Amount0Delta(p, q, liquidity, FALSE) = d
  BY DEF Amount0Delta, One
<1> HIDE DEF s, distance
<1>4. n \in Nat
  BY <1>1, <1>2
<1>5. n = s * distance /\ m = MulDivUp(s, distance, high)
  OBVIOUS
<1> HIDE DEF n, m
<1>6. m \in Int /\ n <= high * m
  BY <1>1, <1>2, <1>5, MulDivUpIs
<1>7. u \in Int /\ m <= low * u
  BY <1>1, <1>6, DivUpIs
<1>8. k \in Int /\ high * k <= n
  BY <1>1, <1>4, DivisionRounds
<1> HIDE DEF k
<1>9. d \in Int /\ low * d <= k
  BY <1>1, <1>8, DivisionRounds
<1> HIDE DEF u, d
<1>10. n <= u * both
  <2> DEFINE w == low * u
  <2>1. w \in Int /\ m <= w
    BY <1>1, <1>7
  <2>2. high * w = u * both
    BY <1>1, <1>7
  <2> HIDE DEF w
  <2>3. high * m <= high * w
    BY <1>1, <1>6, <2>1
  <2> DEFINE a == high * m
             b == high * w
  <2>4. a \in Int /\ b \in Int /\ n <= a /\ a <= b /\ b = u * both
    BY <1>1, <1>6, <2>1, <2>2, <2>3
  <2> HIDE DEF a, b
  <2> QED
    BY <1>4, <2>4
<1>11. d * both <= n
  <2> DEFINE w == low * d
  <2>1. w \in Int /\ w <= k
    BY <1>1, <1>9
  <2>2. high * w = d * both
    BY <1>1, <1>9
  <2> HIDE DEF w
  <2>3. high * w <= high * k
    BY <1>1, <1>8, <2>1
  <2> DEFINE a == high * k
             b == high * w
  <2>4. a \in Int /\ b \in Int /\ a <= n /\ b <= a /\ b = d * both
    BY <1>1, <1>8, <2>1, <2>2, <2>3
  <2> HIDE DEF a, b
  <2> QED
    BY <1>4, <2>4
<1> QED
  BY <1>3, <1>5, <1>7, <1>10, <1>11 DEF s, distance

LEMMA Amount1Rounds ==
  ASSUME NEW low \in Prices, NEW high \in Prices, low <= high, NEW liquidity \in Nat,
         NEW p, NEW q, Lower(p, q) = low, Upper(p, q) = high
  PROVE  /\ Amount1Delta(p, q, liquidity, TRUE) \in Int
         /\ liquidity * (high - low) <= Amount1Delta(p, q, liquidity, TRUE) * One
         /\ Amount1Delta(p, q, liquidity, FALSE) * One <= liquidity * (high - low)
<1> DEFINE distance == high - low
           n == liquidity * distance
           m == MulDivUp(liquidity, distance, One)
           k == n \div One
<1>1. One \in Nat \ {0} /\ distance \in Nat
  BY TickMathAssumption DEF One, Prices
<1>2. /\ Amount1Delta(p, q, liquidity, TRUE) = m
      /\ Amount1Delta(p, q, liquidity, FALSE) = k
  BY DEF Amount1Delta, One
<1> HIDE DEF distance
<1>3. n \in Nat
  BY <1>1
<1>4. n = liquidity * distance /\ m = MulDivUp(liquidity, distance, One)
  OBVIOUS
<1> HIDE DEF n, m
<1>5. m \in Int /\ n <= One * m
  BY <1>1, <1>4, MulDivUpIs
<1>6. k \in Int /\ One * k <= n
  BY <1>1, <1>3, DivisionRounds
<1> HIDE DEF k
<1>7. n <= m * One /\ k * One <= n
  BY <1>1, <1>5, <1>6
<1> QED
  BY <1>2, <1>4, <1>5, <1>7 DEF distance

(* The price a payment leads to is not beyond what it pays for.            *)
LEMMA Amount0Leads ==
  ASSUME NEW price \in Prices, NEW liquidity \in Nat \ {0}, NEW m \in Nat,
         NEW to \in Int, to = PriceAfterAmount0(price, liquidity, m)
  PROVE  (liquidity * One) * (price - to) <= m * (to * price)
<1> DEFINE s == liquidity * One
           mp == m * price
           d == s + mp
           q == MulDivUp(s, price, d)
           n == s * price
<1>1. One \in Nat \ {0} /\ price \in Nat \ {0}
  BY TickMathAssumption DEF One, Prices
<1>2. s \in Nat \ {0}
  BY <1>1
<1>3. to = IF m = 0 THEN price ELSE q
  BY DEF PriceAfterAmount0, One
<1> HIDE DEF s
<1>4. CASE m = 0
  <2>1. to = price
    BY <1>3, <1>4
  <2>2. s * (price - to) = 0 /\ m * (to * price) = 0
    BY <1>1, <1>2, <1>4, <2>1
  <2> QED
    BY <2>2 DEF s
<1>5. CASE m # 0
  <2>1. mp \in Nat /\ to = q
    BY <1>1, <1>3, <1>5
  <2> HIDE DEF mp
  <2>2. d \in Nat \ {0}
    BY <1>2, <2>1
  <2>3. n = s * price /\ q = MulDivUp(s, price, d) /\ n \in Int
    BY <1>1, <1>2
  <2>4. d * to = s * to + mp * to
    BY <1>2, <2>1
  <2> HIDE DEF n, d, q
  <2>5. n <= d * to
    BY <1>1, <1>2, <2>1, <2>2, <2>3, MulDivUpIs
  <2>6. s * (price - to) = s * price - s * to
    BY <1>1, <1>2
  <2>7. mp * to = m * (to * price)
    BY <1>1 DEF mp
  <2> DEFINE a == s * to
             b == mp * to
  <2>8. a \in Int /\ b \in Int /\ n <= a + b /\ s * (price - to) = n - a
    BY <1>2, <2>1, <2>3, <2>4, <2>5, <2>6
  <2> HIDE DEF a, b
  <2>9. s * (price - to) <= b
    BY <2>3, <2>8
  <2> QED
    BY <2>7, <2>9 DEF s, b
<1> QED
  BY <1>4, <1>5

LEMMA Amount1Leads ==
  ASSUME NEW price \in Prices, NEW liquidity \in Nat \ {0}, NEW m \in Nat,
         NEW to \in Int, to = PriceAfterAmount1(price, liquidity, m)
  PROVE  liquidity * (to - price) <= m * One
<1> DEFINE n == m * One
           k == n \div liquidity
<1>1. n \in Int /\ price \in Int
  BY TickMathAssumption DEF One, Prices
<1>2. to = price + k
  BY DEF PriceAfterAmount1, One
<1> HIDE DEF n
<1>3. k \in Int /\ liquidity * k <= n
  BY <1>1, DivisionRounds
<1> HIDE DEF k
<1>4. to - price = k
  BY <1>1, <1>2, <1>3
<1> QED
  BY <1>3, <1>4 DEF n

(* All that is paid in a step: at least what its way costs, or else what   *)
(* led to its price.                                                       *)
LEMMA StepPays ==
  ASSUME NEW from \in Prices, NEW target \in Prices, NEW liquidity \in Nat,
         NEW remaining \in Nat, NEW fee \in FeeShares,
         NEW s, s = SwapStep(from, target, liquidity, remaining, fee),
         NEW a, a = s.in + s.fee
  PROVE  /\ a \in Int
         /\ \/ Paid(from >= target, from, s.price, liquidity) <= a
            \/ /\ liquidity > 0
               /\ \E m \in Nat : m <= a /\ s.price = NextSqrtPrice(from, liquidity, m, from >= target)
<1> DEFINE z == from >= target
           p == s.price
           i == s.in
           g == FeeUnit - fee
           q == MulDivUp(i, fee, g)
           n == i * fee
           m == Moves(remaining, fee)
           paid == Paid(z, from, p, liquidity)
<1>1. p \in Prices /\ i \in Int /\ s.fee \in Int /\ liquidity \in Int /\ remaining \in Int
  BY StepTypes
<1>2. /\ i = paid
      /\ s.fee = IF p # target THEN remaining - i ELSE q
  BY SwapStepIs
<1>3. z \in BOOLEAN /\ g \in Nat \ {0} /\ fee \in Nat /\ FeeUnit \in Nat \ {0} /\ g <= FeeUnit
  BY TickMathAssumption DEF FeeShares
<1>4. m \in Nat /\ FeeUnit * m <= remaining * g
  BY MovesAre
<1>5. p = target \/ (liquidity > 0 /\ p = NextSqrtPrice(from, liquidity, m, z))
  BY <1>1, StepPrice
<1> HIDE DEF z, p, m, g
<1>6. a \in Int
  BY <1>1
<1>7. CASE p = target
  <2>1. paid \in Nat
    BY <1>1, <1>3, PaidIs DEF Signed
  <2>2. n \in Nat /\ i \in Nat
    BY <1>2, <1>3, <2>1
  <2>3. n = i * fee /\ q = MulDivUp(i, fee, g)
    OBVIOUS
  <2> HIDE DEF n, q, i
  <2>4. q \in Int /\ n <= g * q /\ g * q < n + g
    BY <1>3, <2>2, <2>3, MulDivUpIs
  <2>5. q >= 0
    BY <1>3, <2>2, <2>4, RoundedUpSign
  <2>6. a = i + q
    BY <1>2, <1>7 DEF i
  <2>7. paid <= a
    BY <1>2, <2>1, <2>4, <2>5, <2>6
  <2> QED
    BY <1>6, <2>7 DEF z, p
<1>8. CASE p # target
  <2>1. a = remaining
    BY <1>1, <1>2, <1>8
  <2>2. remaining * g <= FeeUnit * remaining
    BY <1>3
  <2>3. m <= remaining
    <3> DEFINE x == FeeUnit * m
               y == remaining * g
               w == FeeUnit * remaining
    <3>1. x \in Int /\ y \in Int /\ w \in Int /\ x <= y /\ y <= w
      BY <1>3, <1>4, <2>2
    <3> HIDE DEF x, y, w
    <3>2. x <= w
      BY <3>1
    <3> QED
      BY <1>1, <1>3, <1>4, <3>2, FactorIsNoMore DEF x, w
  <2> QED
    BY <1>4, <1>5, <1>6, <1>8, <2>1, <2>3 DEF z, p
<1> QED
  BY <1>7, <1>8

(***************************************************************************)
(* What was paid and what was given, when that covers a way up or down     *)
(* along the curve of a liquidity.                                         *)
(***************************************************************************)
Up(L, p, q, in, out) ==
  L * (q - p) <= in * One /\ out * Common <= L * (One * (Part(p) - Part(q)))

Down(L, p, q, in, out) ==
  L * (One * (Part(q) - Part(p))) <= in * Common /\ out * One <= L * (p - q)

LEMMA InPartsOf ==
  ASSUME NEW low \in Shown, NEW high \in Shown, NEW L \in Nat, NEW n \in Int
  PROVE  /\ (L * One) * (high - low) <= n * (low * high)
              => L * (One * (Part(low) - Part(high))) <= n * Common
         /\ n * (low * high) <= (L * One) * (high - low)
              => n * Common <= L * (One * (Part(low) - Part(high)))
<1> DEFINE s == L * One
           e == Part(low) - Part(high)
<1>1. One \in Nat /\ e \in Int
  BY TickMathAssumption, PartIs DEF One
<1>2. s \in Nat /\ s * e = L * (One * e)
  BY <1>1
<1> HIDE DEF s, e
<1>3. /\ s * (high - low) <= n * (low * high) => s * e <= n * Common
      /\ n * (low * high) <= s * (high - low) => n * Common <= s * e
  BY <1>2, InParts DEF e
<1> QED
  BY <1>2, <1>3 DEF s, e

LEMMA MoreIn ==
  ASSUME NEW x \in Int, NEW a \in Int, NEW b \in Int, NEW d \in Nat, a <= b, x <= a * d
  PROVE  x <= b * d
<1>1. a * d <= b * d
  OBVIOUS
<1> DEFINE y == a * d
           z == b * d
<1>2. y \in Int /\ z \in Int /\ x <= y /\ y <= z
  BY <1>1
<1> HIDE DEF y, z
<1>3. x <= z
  BY <1>2
<1> QED
  BY <1>3 DEF z

(* A step down.                                                            *)
LEMMA StepGoesDown ==
  ASSUME NEW from \in Shown, NEW target \in Shown, target <= from, NEW liquidity \in Nat,
         NEW remaining \in Nat, NEW fee \in FeeShares,
         NEW s, s = SwapStep(from, target, liquidity, remaining, fee),
         NEW a, a = s.in + s.fee
  PROVE  s.price \in Shown /\ s.price <= from /\ target <= s.price
         /\ Down(liquidity, from, s.price, a, s.out)
<1> DEFINE p == s.price
           o == s.out
           way == (liquidity * One) * (from - p)
           both == p * from
<1>1. from \in Prices /\ target \in Prices /\ from \in Nat /\ target \in Nat
  BY ShownAreFinite DEF Prices
<1>2. /\ p \in Prices /\ o \in Int
      /\ p = target \/ Towards(from, target, p)
      /\ o = Received(from >= target, from, p, liquidity)
  <2>1. liquidity \in Int /\ remaining \in Int /\ remaining >= 0
    OBVIOUS
  <2>2. p \in Prices /\ o \in Int
    BY <1>1, <2>1, StepTypes
  <2>3. p = target \/ Towards(from, target, p)
    BY <1>1, StepIn
  <2>4. o = Received(from >= target, from, p, liquidity)
    BY <2>1, SwapStepIs
  <2> HIDE DEF p, o
  <2> QED
    BY <2>2, <2>3, <2>4
<1>3. p <= from /\ target <= p
  BY <1>1, <1>2 DEF Towards, Prices
<1>4. p \in Shown
  <2>1. MaxSqrtRatio \in Nat
    BY ShownAreFinite DEF Prices
  <2> QED
    BY <1>1, <1>2, <1>3, <2>1 DEF Shown, Prices
<1>5. from >= target <=> TRUE
  BY <1>1
<1>6. /\ Paid(from >= target, from, p, liquidity) = Amount0Delta(from, p, liquidity, TRUE)
      /\ o = Amount1Delta(from, p, liquidity, FALSE)
      /\ \A m : NextSqrtPrice(from, liquidity, m, from >= target) = PriceAfterAmount0(from, liquidity, m)
  BY <1>2, <1>5 DEF Paid, Received, NextSqrtPrice
<1>7. /\ a \in Int
      /\ \/ Amount0Delta(from, p, liquidity, TRUE) <= a
         \/ liquidity > 0 /\ \E m \in Nat : m <= a /\ p = PriceAfterAmount0(from, liquidity, m)
  <2>1. /\ a \in Int
        /\ \/ Paid(from >= target, from, p, liquidity) <= a
           \/ liquidity > 0 /\ \E m \in Nat : m <= a /\ p = NextSqrtPrice(from, liquidity, m, from >= target)
    BY <1>1, StepPays
  <2> HIDE DEF p
  <2> QED
    BY <1>6, <2>1
<1>8. Lower(from, p) = p /\ Upper(from, p) = from
  BY <1>1, <1>2, <1>3 DEF Lower, Upper, Prices
<1> HIDE DEF p, o
<1>9. both \in Nat /\ way \in Int
  <2>1. One \in Nat /\ p \in Nat
    BY <1>2, TickMathAssumption DEF One, Prices
  <2>2. liquidity * One \in Nat
    BY <2>1
  <2> QED
    BY <1>1, <2>1, <2>2
<1>10. way <= a * both
  <2> HIDE DEF way, both
  <2>1. ASSUME Amount0Delta(from, p, liquidity, TRUE) <= a
        PROVE  way <= a * both
    <3>1. /\ way <= Amount0Delta(from, p, liquidity, TRUE) * both
          /\ Amount0Delta(from, p, liquidity, TRUE) \in Int
      BY <1>1, <1>2, <1>3, <1>8, Amount0Rounds DEF way, both
    <3> QED
      BY <1>7, <1>9, <2>1, <3>1, MoreIn
  <2>2. ASSUME liquidity > 0, NEW m \in Nat, m <= a, p = PriceAfterAmount0(from, liquidity, m)
        PROVE  way <= a * both
    <3>1. liquidity \in Nat \ {0} /\ p \in Int
      BY <1>2, <2>2 DEF Prices
    <3>2. way <= m * both
      BY <1>1, <2>2, <3>1, Amount0Leads DEF way, both
    <3> QED
      BY <1>7, <1>9, <2>2, <3>2, MoreIn
  <2> QED
    BY <1>7, <2>1, <2>2
<1>11. liquidity * (One * (Part(p) - Part(from))) <= a * Common
  BY <1>4, <1>7, <1>10, InPartsOf DEF way, both
<1>12. o * One <= liquidity * (from - p)
  BY <1>1, <1>2, <1>3, <1>6, <1>8, Amount1Rounds
<1> QED
  BY <1>3, <1>4, <1>11, <1>12 DEF Down, p, o

(* Where a step goes nowhere, it gives nothing.                            *)
LEMMA StepStands ==
  ASSUME NEW from \in Shown, NEW liquidity \in Nat,
         NEW a \in Int, NEW out \in Int, Down(liquidity, from, from, a, out)
  PROVE  Up(liquidity, from, from, a, out)
<1>1. from \in Int /\ Part(from) \in Int /\ One \in Nat \ {0} /\ Common \in Nat \ {0}
  BY ShownAreFinite, PartIs, TickMathAssumption DEF Prices, One
<1>2. from - from = 0 /\ Part(from) - Part(from) = 0
  BY <1>1
<1>3. liquidity * 0 = 0 /\ liquidity * (One * 0) = 0
  BY <1>1
<1>4. 0 <= a * Common /\ out * One <= 0
  BY <1>2, <1>3 DEF Down
<1>5. 0 <= a
  <2>1. Common * 0 <= Common * a
    BY <1>1, <1>4
  <2> QED
    BY <1>1, <2>1, FactorIsNoMore
<1>6. out <= 0
  <2>1. One * out <= One * 0
    BY <1>1, <1>4
  <2> QED
    BY <1>1, <2>1, FactorIsNoMore
<1>7. 0 <= a * One /\ out * Common <= 0
  BY <1>1, <1>5, <1>6
<1> QED
  BY <1>2, <1>3, <1>7 DEF Up

(* A step up.                                                              *)
LEMMA StepGoesUp ==
  ASSUME NEW from \in Shown, NEW target \in Shown, from <= target, NEW liquidity \in Nat,
         NEW remaining \in Nat, NEW fee \in FeeShares,
         NEW s, s = SwapStep(from, target, liquidity, remaining, fee),
         NEW a, a = s.in + s.fee
  PROVE  s.price \in Shown /\ from <= s.price /\ s.price <= target
         /\ Up(liquidity, from, s.price, a, s.out)
<1> DEFINE p == s.price
           o == s.out
           way == liquidity * (p - from)
<1>1. from \in Prices /\ target \in Prices /\ from \in Nat /\ target \in Nat
  BY ShownAreFinite DEF Prices
<1>2. /\ p \in Prices /\ o \in Int /\ s.in \in Int /\ s.fee \in Int
      /\ p = target \/ Towards(from, target, p)
      /\ o = Received(from >= target, from, p, liquidity)
  <2>1. liquidity \in Int /\ remaining \in Int /\ remaining >= 0
    OBVIOUS
  <2>2. p \in Prices /\ o \in Int /\ s.in \in Int /\ s.fee \in Int
    BY <1>1, <2>1, StepTypes
  <2>3. p = target \/ Towards(from, target, p)
    BY <1>1, StepIn
  <2>4. o = Received(from >= target, from, p, liquidity)
    BY <2>1, SwapStepIs
  <2> HIDE DEF p, o
  <2> QED
    BY <2>2, <2>3, <2>4
<1>3. from <= p /\ p <= target
  BY <1>1, <1>2 DEF Towards, Prices
<1>4. p \in Shown
  <2>1. MaxSqrtRatio \in Nat
    BY ShownAreFinite DEF Prices
  <2> QED
    BY <1>1, <1>2, <1>3, <2>1 DEF Shown, Prices
<1>5. CASE from = target
  <2>1. p = from
    BY <1>1, <1>2, <1>3, <1>5 DEF Prices
  <2>2. target <= from
    BY <1>1, <1>5
  <2>3. Down(liquidity, from, p, a, o)
    BY <2>2, StepGoesDown
  <2>4. a \in Int
    BY <1>2
  <2>5. Down(liquidity, from, from, a, o)
    BY <2>1, <2>3
  <2> HIDE DEF p, o
  <2>6. Up(liquidity, from, from, a, o)
    BY <1>2, <2>4, <2>5, StepStands
  <2> QED
    BY <1>3, <1>4, <2>1, <2>6 DEF p, o
<1>6. CASE from # target
  <2>1. from >= target <=> FALSE
    BY <1>1, <1>6
  <2>2. /\ Paid(from >= target, from, p, liquidity) = Amount1Delta(from, p, liquidity, TRUE)
        /\ o = Amount0Delta(from, p, liquidity, FALSE)
        /\ \A m : NextSqrtPrice(from, liquidity, m, from >= target) = PriceAfterAmount1(from, liquidity, m)
    BY <1>2, <2>1 DEF Paid, Received, NextSqrtPrice
  <2>3. /\ a \in Int
        /\ \/ Amount1Delta(from, p, liquidity, TRUE) <= a
           \/ liquidity > 0 /\ \E m \in Nat : m <= a /\ p = PriceAfterAmount1(from, liquidity, m)
    <3>1. /\ a \in Int
          /\ \/ Paid(from >= target, from, p, liquidity) <= a
             \/ liquidity > 0 /\ \E m \in Nat : m <= a /\ p = NextSqrtPrice(from, liquidity, m, from >= target)
      BY <1>1, StepPays
    <3> HIDE DEF p
    <3> QED
      BY <2>2, <3>1
  <2>4. Lower(from, p) = from /\ Upper(from, p) = p
    BY <1>1, <1>2, <1>3 DEF Lower, Upper, Prices
  <2> HIDE DEF p, o
  <2>5. way \in Int /\ One \in Nat
    BY <1>1, <1>2, TickMathAssumption DEF One, Prices
  <2>6. way <= a * One
    <3> HIDE DEF way
    <3>1. ASSUME Amount1Delta(from, p, liquidity, TRUE) <= a
          PROVE  way <= a * One
      <4>1. /\ way <= Amount1Delta(from, p, liquidity, TRUE) * One
            /\ Amount1Delta(from, p, liquidity, TRUE) \in Int
        BY <1>1, <1>2, <1>3, <2>4, Amount1Rounds DEF way
      <4> QED
        BY <2>3, <2>5, <3>1, <4>1, MoreIn
    <3>2. ASSUME liquidity > 0, NEW m \in Nat, m <= a, p = PriceAfterAmount1(from, liquidity, m)
          PROVE  way <= a * One
      <4>1. liquidity \in Nat \ {0} /\ p \in Int
        BY <1>2, <3>2 DEF Prices
      <4>2. way <= m * One
        BY <1>1, <3>2, <4>1, Amount1Leads DEF way
      <4> QED
        BY <2>3, <2>5, <3>2, <4>2, MoreIn
    <3> QED
      BY <2>3, <3>1, <3>2
  <2>7. o * (from * p) <= (liquidity * One) * (p - from)
    BY <1>1, <1>2, <1>3, <2>2, <2>4, Amount0Rounds
  <2>8. o * Common <= liquidity * (One * (Part(from) - Part(p)))
    BY <1>2, <1>4, <2>7, InPartsOf
  <2> QED
    BY <1>3, <1>4, <2>6, <2>8 DEF Up, way, p, o
<1> QED
  BY <1>5, <1>6

LEMMA CurvePoint ==
  ASSUME NEW M, NEW c, IsCurve(M, c), NEW p \in Shown
  PROVE  c.one[p] \in Int /\ c.zero[p] \in Int /\ p \in Nat
BY ShownAreFinite DEF IsCurve, Prices

LEMMA UnitsAre == One \in Nat \ {0} /\ Common \in Nat \ {0}
BY TickMathAssumption, PartIs DEF One

LEMMA NothingIsBooked ==
  ASSUME NEW M, NEW c, IsCurve(M, c), NEW p \in Shown, NEW reverse \in BOOLEAN
  PROVE  Booked(c, reverse, p, p, 0, 0)
<1> DEFINE a == c.one[p]
           b == c.zero[p]
<1>1. a \in Int /\ b \in Int /\ p \in Nat
  BY CurvePoint
<1>2. 0 * One = 0 /\ 0 * Common = 0
  BY UnitsAre
<1> HIDE DEF a, b
<1>3. a - a = 0 /\ b - b = 0 /\ p <= p
  BY <1>1
<1> QED
  BY <1>2, <1>3 DEF Booked, a, b

LEMMA MoreIsBooked ==
  ASSUME NEW M, NEW c, IsCurve(M, c), NEW p \in Shown, NEW q \in Shown, NEW reverse \in BOOLEAN,
         NEW in \in Int, NEW more \in Int, in <= more, NEW out \in Int,
         Booked(c, reverse, p, q, in, out)
  PROVE  Booked(c, reverse, p, q, more, out)
<1> DEFINE a == c.one[q] - c.one[p]
           b == c.zero[q] - c.zero[p]
<1>1. a \in Int /\ b \in Int
  BY CurvePoint
<1>2. (reverse => a <= in * One) /\ (~reverse => b <= in * Common)
  BY DEF Booked
<1> HIDE DEF a, b
<1>3. (reverse => a <= more * One) /\ (~reverse => b <= more * Common)
  BY <1>1, <1>2, UnitsAre, MoreIn
<1> QED
  BY <1>3 DEF Booked, a, b

(* One way after another.                                                  *)
LEMMA WaysAdd ==
  ASSUME NEW a \in Int, NEW b \in Int, NEW d \in Int, NEW x \in Int, NEW y \in Int, NEW n \in Int
  PROVE  /\ (b - a <= x * n /\ d - b <= y * n) => d - a <= (x + y) * n
         /\ (x * n <= a - b /\ y * n <= b - d) => (x + y) * n <= a - d
<1> DEFINE k == x * n
           l == y * n
<1>1. k \in Int /\ l \in Int /\ (x + y) * n = k + l
  OBVIOUS
<1> HIDE DEF k, l
<1>2. /\ (b - a <= k /\ d - b <= l) => d - a <= k + l
      /\ (k <= a - b /\ l <= b - d) => k + l <= a - d
  BY <1>1
<1> QED
  BY <1>1, <1>2 DEF k, l

LEMMA BookedAdd ==
  ASSUME NEW M, NEW c, IsCurve(M, c), NEW p \in Shown, NEW q \in Shown, NEW r \in Shown,
         NEW reverse \in BOOLEAN,
         NEW x \in Int, NEW y \in Int, NEW o \in Int, NEW u \in Int,
         Booked(c, reverse, p, q, x, o), Booked(c, reverse, q, r, y, u)
  PROVE  Booked(c, reverse, p, r, x + y, o + u)
<1>1. /\ c.one[p] \in Int /\ c.one[q] \in Int /\ c.one[r] \in Int
      /\ c.zero[p] \in Int /\ c.zero[q] \in Int /\ c.zero[r] \in Int
      /\ p \in Nat /\ q \in Nat /\ r \in Nat
  BY CurvePoint
<1>2. One \in Int /\ Common \in Int
  BY UnitsAre
<1>3. CASE reverse
  <2>1. /\ p <= q /\ q <= r
        /\ c.one[q] - c.one[p] <= x * One /\ c.one[r] - c.one[q] <= y * One
        /\ o * Common <= c.zero[p] - c.zero[q] /\ u * Common <= c.zero[q] - c.zero[r]
    BY <1>3 DEF Booked
  <2>2. p <= r
    BY <1>1, <2>1
  <2>3. c.one[r] - c.one[p] <= (x + y) * One
    BY <1>1, <1>2, <2>1, WaysAdd
  <2>4. (o + u) * Common <= c.zero[p] - c.zero[r]
    BY <1>1, <1>2, <2>1, WaysAdd
  <2> QED
    BY <1>3, <2>2, <2>3, <2>4 DEF Booked
<1>4. CASE ~reverse
  <2>1. /\ q <= p /\ r <= q
        /\ c.zero[q] - c.zero[p] <= x * Common /\ c.zero[r] - c.zero[q] <= y * Common
        /\ o * One <= c.one[p] - c.one[q] /\ u * One <= c.one[q] - c.one[r]
    BY <1>4 DEF Booked
  <2>2. r <= p
    BY <1>1, <2>1
  <2>3. c.zero[r] - c.zero[p] <= (x + y) * Common
    BY <1>1, <1>2, <2>1, WaysAdd
  <2>4. (o + u) * One <= c.one[p] - c.one[r]
    BY <1>1, <1>2, <2>1, WaysAdd
  <2> QED
    BY <1>4, <2>2, <2>3, <2>4 DEF Booked
<1> QED
  BY <1>3, <1>4

(* Back along the curve with no more than the way there gave, one does not *)
(* come back beyond where it began, but where the curve is flat.           *)
LEMMA BackGivesNoMore ==
  ASSUME NEW here \in Int, NEW there \in Int, NEW back \in Int,
         NEW d \in Nat \ {0}, NEW in \in Int, NEW out \in Int,
         there - here <= in * d, out * d <= there - back, here <= back
  PROVE  out <= in
<1> DEFINE x == in * d
           y == out * d
<1>1. x \in Int /\ y \in Int /\ x = d * in /\ y = d * out
  OBVIOUS
<1>2. there - here <= x /\ y <= there - back
  OBVIOUS
<1> HIDE DEF x, y
<1>3. y <= x
  BY <1>1, <1>2
<1>4. d * out <= d * in
  BY <1>1, <1>3
<1> QED
  BY <1>4, FactorIsNoMore

LEMMA NotBeyond ==
  ASSUME NEW here \in Int, NEW there \in Int, NEW back \in Int,
         NEW d \in Nat \ {0}, NEW given \in Int, NEW paid \in Int, paid <= given,
         given * d <= here - there, back - there <= paid * d
  PROVE  back <= here
<1> DEFINE x == given * d
           y == paid * d
<1>1. x \in Int /\ y \in Int /\ y <= x
  OBVIOUS
<1>2. x <= here - there /\ back - there <= y
  OBVIOUS
<1> HIDE DEF x, y
<1> QED
  BY <1>1, <1>2

LEMMA NothingGained ==
  ASSUME NEW M, NEW c, IsCurve(M, c), NEW p \in Shown, NEW q \in Shown, NEW r \in Shown,
         NEW there \in BOOLEAN, NEW back \in BOOLEAN, there # back,
         NEW x \in Int, NEW o \in Int, NEW y \in Int, NEW u \in Int, y <= o,
         Booked(c, there, p, q, x, o), Booked(c, back, q, r, y, u)
  PROVE  u <= x
<1>1. /\ c.one[p] \in Int /\ c.one[q] \in Int /\ c.one[r] \in Int
      /\ c.zero[p] \in Int /\ c.zero[q] \in Int /\ c.zero[r] \in Int
      /\ p \in Nat /\ q \in Nat /\ r \in Nat
  BY CurvePoint
<1>2. /\ p <= r => Tilts(c, p, r)
      /\ r <= p => Tilts(c, r, p)
  BY DEF IsCurve
<1>3. CASE there
  <2>1. /\ c.one[q] - c.one[p] <= x * One
        /\ o * Common <= c.zero[p] - c.zero[q]
        /\ c.zero[r] - c.zero[q] <= y * Common
        /\ u * One <= c.one[q] - c.one[r]
    BY <1>3 DEF Booked
  <2>2. c.zero[r] <= c.zero[p]
    BY <1>1, <2>1, UnitsAre, NotBeyond
  <2>3. c.one[p] <= c.one[r]
    <3>1. CASE p <= r
      BY <1>2, <3>1 DEF Tilts
    <3>2. CASE r <= p
      <4>1. c.zero[p] <= c.zero[r] /\ (c.one[r] = c.one[p] <=> c.zero[r] = c.zero[p])
        BY <1>2, <3>2 DEF Tilts
      <4>2. c.zero[p] = c.zero[r]
        BY <1>1, <2>2, <4>1
      <4> QED
        BY <1>1, <4>1, <4>2
    <3> QED
      BY <1>1, <3>1, <3>2
  <2> QED
    BY <1>1, <2>1, <2>3, UnitsAre, BackGivesNoMore
<1>4. CASE ~there
  <2>1. /\ c.zero[q] - c.zero[p] <= x * Common
        /\ o * One <= c.one[p] - c.one[q]
        /\ c.one[r] - c.one[q] <= y * One
        /\ u * Common <= c.zero[q] - c.zero[r]
    BY <1>4 DEF Booked
  <2>2. c.one[r] <= c.one[p]
    BY <1>1, <2>1, UnitsAre, NotBeyond
  <2>3. c.zero[p] <= c.zero[r]
    <3>1. CASE r <= p
      BY <1>2, <3>1 DEF Tilts
    <3>2. CASE p <= r
      <4>1. c.one[p] <= c.one[r] /\ (c.one[p] = c.one[r] <=> c.zero[p] = c.zero[r])
        BY <1>2, <3>2 DEF Tilts
      <4>2. c.one[p] = c.one[r]
        BY <1>1, <2>2, <4>1
      <4> QED
        BY <1>1, <4>1, <4>2
    <3> QED
      BY <1>1, <3>1, <3>2
  <2> QED
    BY <1>1, <2>1, <2>3, UnitsAre, BackGivesNoMore
<1> QED
  BY <1>3, <1>4

(* A way between two ticks is along the curve of the liquidity there.      *)
LEMMA WayIsBooked ==
  ASSUME NEW M, NEW c, IsCurve(M, c), NEW a \in MinTick .. MaxTick, NEW b \in MinTick .. MaxTick,
         a < b, Even(M, a, b), NEW L, L = Liquidity(Around(M, a)),
         NEW p \in Shown, NEW q \in Shown, NEW reverse \in BOOLEAN, NEW in, NEW out,
         IF reverse THEN /\ PriceAt[a] <= p /\ p <= q /\ q <= PriceAt[b]
                         /\ Up(L, p, q, in, out)
         ELSE /\ PriceAt[a] <= q /\ q <= p /\ p <= PriceAt[b]
              /\ Down(L, p, q, in, out)
  PROVE  Booked(c, reverse, p, q, in, out)
<1>1. CASE reverse
  <2>1. Follows(c, L, p, q)
    BY <1>1 DEF IsCurve
  <2> QED
    BY <1>1, <2>1 DEF Follows, Up, Booked
<1>2. CASE ~reverse
  <2>1. Follows(c, L, q, p)
    BY <1>2 DEF IsCurve
  <2> QED
    BY <1>2, <2>1 DEF Follows, Down, Booked
<1> QED
  BY <1>1, <1>2

LEMMA StepIsBooked ==
  ASSUME CacheInv, Step, infoAt = height, pc' = "loop", walk.price \in Shown
  PROVE  \E a, o \in Int :
           /\ walk'.price \in Shown /\ walk'.reverse = walk.reverse /\ walk'.paid = walk.paid
           /\ walk'.left = walk.left - a /\ walk'.out = walk.out + o
           /\ Booked(Curve(minted), walk.reverse, walk.price, walk'.price, a, o)
<1> DEFINE bits == bitmap[WordOfWalk].bits
           n == NextTick(walk, bits)
           next == Clamped(n)
           initialized == Masked(walk, bits) # {}
           target == PriceAt[next]
           s == SwapStep(walk.price, target, walk.liquidity, walk.left, Fee)
           t == walk.tick
           from == walk.price
           L == walk.liquidity
           left == walk.left
           reverse == walk.reverse
           a == s.in + s.fee
           o == s.out
           p == s.price
           c == Curve(minted)
           above == t + 1
<1>1. /\ bits = bitmap[WordOfWalk].bits /\ n = NextTick(walk, bits) /\ next = Clamped(n)
      /\ initialized \in BOOLEAN /\ (initialized <=> Masked(walk, bits) # {})
      /\ s = SwapStep(from, PriceAt[next], L, left, Fee)
  OBVIOUS
<1> HIDE DEF bits, n, next, initialized, s
<1>2. /\ Minted /\ Fee \in FeeShares /\ reverse \in BOOLEAN /\ left \in Nat
      /\ t \in MinTick .. MaxTick - 1 /\ t \in Int
      /\ PriceAt[t] <= from /\ from <= PriceAt[above]
      /\ next \in MinTick .. MaxTick /\ next \in Int /\ target \in Prices
      /\ L \in Nat /\ L = LiquidityAt(t)
      /\ reverse => t < next /\ \A v \in t + 1 .. next - 1 : ~IsInitialized(v)
      /\ ~reverse => next <= t /\ \A v \in next + 1 .. t : ~IsInitialized(v)
  BY <1>1, StepIs
<1>3. /\ walk'.price = p /\ walk'.reverse = reverse /\ walk'.paid = walk.paid
      /\ walk'.left = left - a /\ walk'.out = walk.out + o
  BY <1>1, StepIs
<1>4. IsCurve(minted, c)
  BY <1>2, CurveIs DEF Minted
<1>5. /\ t \in MinTick .. MaxTick /\ above \in MinTick .. MaxTick /\ t < above
      /\ reverse => t < next
      /\ ~reverse => next <= t /\ next < above
  <2>1. MinTick \in Int /\ MaxTick \in Int
    BY TickMathAssumption DEF MinTick
  <2>2. t \in MinTick .. MaxTick - 1 /\ t \in Int /\ next \in Int
        /\ (reverse => t < next) /\ (~reverse => next <= t)
    BY <1>2
  <2> HIDE DEF t, next, reverse
  <2> QED
    BY <2>1, <2>2
<1>6. target \in Shown /\ from \in Shown /\ from \in Int /\ target \in Int
  <2>1. target \in Shown /\ from \in Shown
    BY <1>2, TicksAreShown
  <2> HIDE DEF target, from
  <2> QED
    BY <2>1, ShownAreFinite DEF Prices
<1>7. s = SwapStep(from, target, L, left, Fee)
  BY <1>1
<1>8. L = Liquidity(Around(minted, t))
  BY <1>2 DEF LiquidityAt, Around
<1>9. a \in Int /\ o \in Int
  <2>1. L \in Int /\ left \in Int /\ from \in Prices
    BY <1>2, <1>6, ShownAreFinite
  <2> QED
    BY <1>2, <1>7, <2>1, StepTypes
<1>10. a = s.in + s.fee
  OBVIOUS
<1> HIDE DEF target, t, from, L, left, reverse, a, c, above
<1>11. ASSUME reverse
       PROVE  p \in Shown /\ Booked(c, reverse, from, p, a, o)
  <2>1. from <= target
    BY <1>2, <1>5, <1>6, <1>11, TargetIsAhead, ShownAreFinite DEF target, above
  <2>2. p \in Shown /\ from <= p /\ p <= target /\ Up(L, from, p, a, o)
    BY <1>2, <1>6, <1>7, <1>10, <2>1, StepGoesUp
  <2>3. Even(minted, t, next)
    BY <1>2, <1>11 DEF Even, IsInitialized
  <2> HIDE DEF p, o
  <2> QED
    BY <1>2, <1>4, <1>5, <1>6, <1>8, <1>11, <2>2, <2>3, WayIsBooked DEF target
<1>12. ASSUME ~reverse
       PROVE  p \in Shown /\ Booked(c, reverse, from, p, a, o)
  <2>1. target <= from
    BY <1>2, <1>5, <1>6, <1>12, TargetIsAhead, ShownAreFinite DEF target, above
  <2>2. p \in Shown /\ p <= from /\ target <= p /\ Down(L, from, p, a, o)
    BY <1>2, <1>6, <1>7, <1>10, <2>1, StepGoesDown
  <2>3. Even(minted, next, above)
    BY <1>2, <1>12 DEF Even, IsInitialized, above
  <2>4. L = Liquidity(Around(minted, next))
    <3>1. LiquidityAt(t) = LiquidityAt(next)
      BY <1>2, <1>12, LiquidityAlong
    <3> QED
      BY <1>2, <3>1 DEF LiquidityAt, Around
  <2> HIDE DEF p, o
  <2> QED
    BY <1>2, <1>4, <1>5, <1>6, <1>12, <2>2, <2>3, <2>4, WayIsBooked DEF target
<1>13. p \in Shown /\ Booked(c, reverse, from, p, a, o)
  BY <1>2, <1>11, <1>12
<1> HIDE DEF p, o
<1> QED
  BY <1>3, <1>9, <1>13 DEF left, reverse, from, c

LEMMA BookedInit == Init => RoundTripInv
<1> SUFFICES ASSUME Init
             PROVE  RoundTripInv
  OBVIOUS
<1>1. CacheInv
  BY CacheInit
<1>2. info = Unset /\ quotes = <<>> /\ pc = "idle"
  BY DEF Init
<1>3. quotes = <<>> => Len(quotes) = 0
  OBVIOUS
<1> QED
  BY <1>1, <1>2, <1>3 DEF RoundTripInv, NoFreeRoundTrip, PricesAreShown, WalkIsBooked,
                          QuoteIsBooked, Walking

(* What is booked stays so while the pool stands still.                    *)
LEMMA BookedKept ==
  ASSUME RoundTripInv, CacheInv', UNCHANGED <<height, minted, info, infoAt, quotes>>,
         Walking' => Walking /\ walk' = walk
  PROVE  RoundTripInv'
<1>1. NoFreeRoundTrip'
  BY DEF RoundTripInv, NoFreeRoundTrip
<1>2. infoAt = height => PricesAreShown' /\ WalkIsBooked' /\ QuoteIsBooked'
  <2> SUFFICES ASSUME infoAt = height
               PROVE  PricesAreShown' /\ WalkIsBooked' /\ QuoteIsBooked'
    OBVIOUS
  <2>1. PricesAreShown /\ WalkIsBooked /\ QuoteIsBooked
    BY DEF RoundTripInv
  <2>2. PricesAreShown'
    <3>1. Walking' => info.price \in Shown /\ walk'.price \in Shown
      BY <2>1 DEF PricesAreShown
    <3>2. (info # Unset \/ quotes # <<>>) => info.price \in Shown
      BY <2>1 DEF PricesAreShown
    <3> QED
      BY <3>1, <3>2 DEF PricesAreShown
  <2>3. WalkIsBooked'
    <3>1. Walking' =>
            /\ Booked(Curve(minted), walk'.reverse, info.price, walk'.price,
                      walk'.paid - walk'.left, walk'.out)
            /\ Len(quotes) < 2
            /\ quotes # <<>> => walk'.paid = quotes[1].out
      BY <2>1 DEF WalkIsBooked
    <3> QED
      BY <3>1 DEF WalkIsBooked
  <2>4. QuoteIsBooked'
    BY <2>1 DEF QuoteIsBooked
  <2> QED
    BY <2>2, <2>3, <2>4
<1> QED
  BY <1>1, <1>2 DEF RoundTripInv

LEMMA BookedMine ==
  ASSUME RoundTripInv, CacheInv', Mine
  PROVE  RoundTripInv'
<1>1. height' = height + 1 /\ infoAt' = infoAt /\ infoAt <= height /\ height \in Nat /\ infoAt \in Nat
  BY DEF Mine, RoundTripInv, CacheInv, TickInv, WalkTypes
<1>2. infoAt' # height'
  BY <1>1
<1> QED
  BY <1>2 DEF RoundTripInv, NoFreeRoundTrip

LEMMA BookedFetch ==
  ASSUME RoundTripInv, CacheInv', FetchInfo
  PROVE  RoundTripInv'
<1>1. /\ info'.price = PriceAt[start] /\ quotes' = <<>> /\ pc' = "idle"
      /\ start \in MinTick .. MaxTick - 1
  BY DEF FetchInfo, RoundTripInv, CacheInv, TickInv, WalkTypes
<1>2. info'.price \in Shown
  <2>1. MinTick \in Int /\ MaxTick \in Int
    BY TickMathAssumption DEF MinTick
  <2>2. start \in MinTick .. MaxTick
    BY <1>1, <2>1
  <2> QED
    BY <1>1, <2>2, TicksAreShown
<1>3. Len(quotes') = 0 /\ ~Walking'
  BY <1>1 DEF Walking
<1> QED
  BY <1>2, <1>3 DEF RoundTripInv, NoFreeRoundTrip, PricesAreShown, WalkIsBooked, QuoteIsBooked

LEMMA BookedBegin ==
  ASSUME RoundTripInv, CacheInv', NEW amount \in Int, NEW reverse \in BOOLEAN,
         Begin(amount, reverse), quotes # <<>> => amount = quotes[1].out
  PROVE  RoundTripInv'
<1>1. /\ pc = "idle" /\ info # Unset /\ Len(quotes) < 2 /\ pc' = "loop"
      /\ walk' = [reverse |-> reverse, left |-> amount, out |-> 0, paid |-> amount,
                  price |-> info.price, tick |-> info.tick, liquidity |-> info.liquidity]
      /\ UNCHANGED <<height, minted, info, infoAt, quotes>>
  BY DEF Begin, chainVars
<1>2. NoFreeRoundTrip'
  BY <1>1 DEF RoundTripInv, NoFreeRoundTrip
<1>3. ASSUME infoAt = height
      PROVE  PricesAreShown' /\ WalkIsBooked' /\ QuoteIsBooked'
  <2>1. info.price \in Shown /\ QuoteIsBooked
    BY <1>1, <1>3 DEF RoundTripInv, PricesAreShown
  <2>2. PricesAreShown'
    BY <1>1, <2>1 DEF PricesAreShown
  <2>3. QuoteIsBooked'
    BY <1>1, <2>1 DEF QuoteIsBooked
  <2>4. WalkIsBooked'
    <3>1. IsCurve(minted, Curve(minted))
      BY CurveIs DEF RoundTripInv, CacheInv, TickInv, WalkTypes, Minted
    <3>2. Booked(Curve(minted), reverse, info.price, info.price, 0, 0)
      BY <2>1, <3>1, NothingIsBooked
    <3>3. amount - amount = 0
      OBVIOUS
    <3> QED
      BY <1>1, <3>2, <3>3 DEF WalkIsBooked
  <2> QED
    BY <2>2, <2>3, <2>4
<1> QED
  BY <1>1, <1>2, <1>3 DEF RoundTripInv

LEMMA BookedQuote ==
  ASSUME RoundTripInv, CacheInv', Quote
  PROVE  RoundTripInv'
<1>1. ASSUME quotes = <<>>, NEW amount \in Amounts, NEW reverse \in BOOLEAN, Begin(amount, reverse)
      PROVE  RoundTripInv'
  <2>1. amount \in Int
    BY WalkAssumption
  <2> QED
    BY <1>1, <2>1, BookedBegin
<1>2. ASSUME quotes # <<>>, NEW reverse \in BOOLEAN, Begin(quotes[1].out, reverse)
      PROVE  RoundTripInv'
  <2> DEFINE Q == [in : Int, out : Int, reverse : BOOLEAN]
             amount == quotes[1].out
  <2>1. quotes \in Seq(Q)
    BY DEF RoundTripInv, CacheInv, TickInv, WalkTypes
  <2>2. quotes[1] \in Q
    <3> HIDE DEF Q
    <3> QED
      BY <1>2, <2>1
  <2>3. amount \in Int /\ amount = quotes[1].out
    BY <2>2
  <2> HIDE DEF amount
  <2> QED
    BY <1>2, <2>3, BookedBegin
<1> QED
  BY <1>1, <1>2 DEF Quote

LEMMA BookedStep ==
  ASSUME RoundTripInv, CacheInv', Step
  PROVE  RoundTripInv'
<1>1. /\ pc = "step" /\ (pc' = "loop" \/ pc' = "raised")
      /\ UNCHANGED <<height, minted, info, infoAt, quotes>>
  BY DEF Step, StepTo, chainVars, cacheVars
<1>2. CASE pc' = "raised"
  BY <1>1, <1>2, BookedKept DEF Walking
<1>3. CASE pc' = "loop"
  <2>1. NoFreeRoundTrip'
    BY <1>1 DEF RoundTripInv, NoFreeRoundTrip
  <2>2. ASSUME infoAt = height
        PROVE  PricesAreShown' /\ WalkIsBooked' /\ QuoteIsBooked'
    <3> DEFINE c == Curve(minted)
               from == info.price
               p == walk.price
               w == walk'
               x == walk.paid - walk.left
               o == walk.out
    <3>1. PricesAreShown /\ WalkIsBooked /\ QuoteIsBooked /\ Walking
      BY <1>1, <2>2 DEF RoundTripInv, Walking
    <3>2. /\ from \in Shown /\ p \in Shown
          /\ Booked(c, walk.reverse, from, p, x, o)
          /\ Len(quotes) < 2
          /\ quotes # <<>> => walk.paid = quotes[1].out
      BY <3>1 DEF PricesAreShown, WalkIsBooked
    <3>3. /\ IsCurve(minted, c) /\ walk.reverse \in BOOLEAN
          /\ walk.left \in Int /\ walk.paid \in Int /\ walk.out \in Int
      BY CurveIs DEF RoundTripInv, CacheInv, TickInv, WalkTypes, Minted
    <3>4. PICK a \in Int, g \in Int :
            /\ w.price \in Shown /\ w.reverse = walk.reverse /\ w.paid = walk.paid
            /\ w.left = walk.left - a /\ w.out = o + g
            /\ Booked(c, walk.reverse, p, w.price, a, g)
      BY <1>3, <2>2, <3>2, StepIsBooked DEF RoundTripInv
    <3>5. x \in Int /\ o \in Int /\ w.paid - w.left = x + a
      BY <3>3, <3>4
    <3> HIDE DEF c, from, p, x, o, w
    <3>6. Booked(c, walk.reverse, from, w.price, x + a, o + g)
      BY <3>2, <3>3, <3>4, <3>5, BookedAdd
    <3>7. Booked(c, w.reverse, from, w.price, w.paid - w.left, w.out)
      BY <3>4, <3>5, <3>6
    <3>8. PricesAreShown'
      BY <1>1, <3>2, <3>4 DEF PricesAreShown, from, w
    <3>9. WalkIsBooked'
      BY <1>1, <3>2, <3>4, <3>7 DEF WalkIsBooked, c, from, w
    <3>10. QuoteIsBooked'
      BY <1>1, <3>1 DEF QuoteIsBooked
    <3> QED
      BY <3>8, <3>9, <3>10
  <2> QED
    BY <1>1, <2>1, <2>2 DEF RoundTripInv
<1> QED
  BY <1>1, <1>2, <1>3

LEMMA BookedReturn ==
  ASSUME RoundTripInv, CacheInv', NEW timedOut, Return(timedOut)
  PROVE  RoundTripInv'
<1> DEFINE Q == [in : Int, out : Int, reverse : BOOLEAN]
           e == [in |-> walk.paid, out |-> walk.out, reverse |-> walk.reverse]
<1>1. /\ pc = "loop" /\ pc' = "idle" /\ info'.price = walk.price /\ quotes' = Append(quotes, e)
      /\ UNCHANGED <<height, minted, infoAt>>
  BY DEF Return, chainVars
<1>2. quotes \in Seq(Q) /\ e \in Q
  BY DEF RoundTripInv, CacheInv, TickInv, WalkTypes
<1>3. e.in = walk.paid /\ e.out = walk.out /\ e.reverse = walk.reverse
  OBVIOUS
<1> HIDE DEF Q, e
<1>4. /\ Len(quotes') = Len(quotes) + 1 /\ Len(quotes) \in Nat
      /\ Len(quotes) = 0 => quotes'[1] = e
      /\ Len(quotes) = 1 => quotes'[1] = quotes[1] /\ quotes'[2] = e /\ quotes[1] \in Q /\ quotes # <<>>
  BY <1>1, <1>2
<1>5. ASSUME infoAt = height
      PROVE  NoFreeRoundTrip' /\ PricesAreShown' /\ WalkIsBooked' /\ QuoteIsBooked'
  <2> DEFINE c == Curve(minted)
             from == info.price
             p == walk.price
             x == walk.paid - walk.left
             i == walk.paid
             o == walk.out
             back == walk.reverse
  <2>1. PricesAreShown /\ WalkIsBooked /\ QuoteIsBooked /\ Walking
    BY <1>1, <1>5 DEF RoundTripInv, Walking
  <2>2. /\ from \in Shown /\ p \in Shown
        /\ Booked(c, back, from, p, x, o)
        /\ Len(quotes) < 2
        /\ quotes # <<>> => walk.paid = quotes[1].out
    BY <2>1 DEF PricesAreShown, WalkIsBooked
  <2>3. /\ IsCurve(minted, c) /\ back \in BOOLEAN
        /\ walk.left \in Int /\ i \in Int /\ o \in Int
    BY CurveIs DEF RoundTripInv, CacheInv, TickInv, WalkTypes, Minted
  <2>4. walk.left >= 0
    BY <1>5, <2>1 DEF RoundTripInv, CacheInv, LiquidityIsKnown
  <2>5. x \in Int /\ x <= i
    BY <2>3, <2>4
  <2> HIDE DEF c, from, p, x, i, o, back
  <2>6. PricesAreShown'
    BY <1>1, <2>2 DEF PricesAreShown, Walking, p
  <2>7. WalkIsBooked'
    BY <1>1 DEF WalkIsBooked, Walking
  <2>8. CASE Len(quotes) = 0
    <3>1. Booked(c, back, from, p, i, o)
      BY <2>2, <2>3, <2>5, MoreIsBooked
    <3>2. QuoteIsBooked'
      BY <1>1, <1>3, <1>4, <2>2, <2>8, <3>1 DEF QuoteIsBooked, c, from, p, i, o, back
    <3>3. Len(quotes') = 1
      BY <1>4, <2>8
    <3>4. NoFreeRoundTrip'
      BY <3>3 DEF NoFreeRoundTrip
    <3> QED
      BY <2>6, <2>7, <3>2, <3>4
  <2>9. CASE Len(quotes) = 1
    <3>1. Len(quotes') = 2
      BY <1>4, <2>9
    <3>2. QuoteIsBooked'
      BY <3>1 DEF QuoteIsBooked
    <3> DEFINE first == quotes[1]
               out == first.out
               in == first.in
               there == first.reverse
    <3>3. PICK q \in Shown : Booked(c, there, q, from, in, out)
      BY <2>1, <2>9 DEF QuoteIsBooked, c, from
    <3>4. in \in Int /\ out \in Int /\ there \in BOOLEAN
      BY <1>4, <2>9 DEF Q
    <3>5. x <= out
      BY <1>4, <2>2, <2>5, <2>9 DEF i
    <3>6. /\ quotes'[1].reverse = there /\ quotes'[1].in = in
          /\ quotes'[2].reverse = back /\ quotes'[2].out = o
      BY <1>3, <1>4, <2>9 DEF back, o
    <3> HIDE DEF out, in, there
    <3>7. there # back => o <= in
      BY <2>2, <2>3, <2>5, <3>3, <3>4, <3>5, NothingGained
    <3>8. NoFreeRoundTrip'
      BY <3>6, <3>7 DEF NoFreeRoundTrip
    <3> QED
      BY <2>6, <2>7, <3>2, <3>8
  <2>10. Len(quotes) = 0 \/ Len(quotes) = 1
    <3> DEFINE n == Len(quotes)
    <3>1. n \in Nat /\ n < 2
      BY <1>4, <2>2
    <3> HIDE DEF n
    <3>2. n = 0 \/ n = 1
      BY <3>1
    <3> QED
      BY <3>2 DEF n
  <2> QED
    BY <2>8, <2>9, <2>10
<1>6. infoAt' = height' <=> infoAt = height
  BY <1>1
<1> QED
  BY <1>5, <1>6 DEF RoundTripInv, NoFreeRoundTrip

LEMMA BookedRestart ==
  ASSUME RoundTripInv, CacheInv', Restart
  PROVE  RoundTripInv'
<1>1. pc' = "idle" /\ info' = Unset /\ quotes' = <<>>
  BY DEF Restart
<1>2. Len(quotes') = 0 /\ ~Walking'
  BY <1>1 DEF Walking
<1> QED
  BY <1>1, <1>2 DEF RoundTripInv, NoFreeRoundTrip, PricesAreShown, WalkIsBooked, QuoteIsBooked

LEMMA BookedNext == RoundTripInv /\ [Next]_vars => RoundTripInv'
<1> SUFFICES ASSUME RoundTripInv, [Next]_vars
             PROVE  RoundTripInv'
  OBVIOUS
<1>1. CacheInv'
  BY CacheNext DEF RoundTripInv
<1>2. CASE UNCHANGED vars
  <2>1. UNCHANGED <<height, minted, info, infoAt, quotes, walk, pc>>
    BY <1>2 DEF vars, chainVars, cacheVars
  <2> QED
    BY <1>1, <2>1, BookedKept DEF Walking
<1>3. ASSUME Lookup \/ ReadBitmap \/ ReadTicks
      PROVE  RoundTripInv'
  <2>1. /\ UNCHANGED <<height, minted, info, infoAt, quotes, walk>>
        /\ Walking
    BY <1>3 DEF Lookup, ReadBitmap, ReadTicks, chainVars, cacheVars, Walking
  <2> QED
    BY <1>1, <2>1, BookedKept
<1>4. CASE Next
  BY <1>1, <1>3, <1>4, BookedMine, BookedFetch, BookedQuote, BookedStep, BookedReturn,
     BookedRestart DEF Next, Walk
<1> QED
  BY <1>2, <1>4

(***************************************************************************)
(* A quote and a quote back of what it gave, by a pool that stands still   *)
(* between them, never give more than was paid: whatever the positions,    *)
(* the fee and the amounts, however often the walk crosses a tick or its   *)
(* time is over, and whatever the cache still held.                        *)
(***************************************************************************)
THEOREM NothingForFree == Spec => []NoFreeRoundTrip
<1>1. RoundTripInv => NoFreeRoundTrip
  BY DEF RoundTripInv
<1> QED
  BY <1>1, BookedInit, BookedNext, PTL DEF Spec

-----------------------------------------------------------------------------
(* Newton's iterations of the stable pools.                                *)

(* The numbers of an iteration by the turns left, when g is what a turn    *)
(* makes of each number.                                                   *)
TurnOf(g, f, turns) ==
  [y \in Int |-> IF Distance(g[y], y) <= 1 \/ turns = 1 THEN g[y] ELSE f[turns - 1][g[y]]]

Turned(g, n, f) == [turns \in 1 .. n |-> TurnOf(g, f, turns)]

LEMMA TurnsExist ==
  ASSUME NEW g, NEW n \in Nat
  PROVE  \E f : f = Turned(g, n, f)
<1> DEFINE K == {m \in Nat : \E f : f = Turned(g, m, f)}
<1>1. 0 \in K
  <2> DEFINE f == [turns \in 1 .. 0 |-> 0]
  <2>1. f = Turned(g, 0, f)
    BY DEF Turned
  <2> QED
    BY <2>1
<1>2. ASSUME NEW m \in K
      PROVE  m + 1 \in K
  <2>1. m \in Nat /\ m + 1 \in Nat
    OBVIOUS
  <2>2. PICK f : f = Turned(g, m, f)
    OBVIOUS
  <2> DEFINE h == Turned(g, m + 1, f)
  <2>3. \A t \in 1 .. m : h[t] = f[t]
    <3>1. \A t \in 1 .. m : t \in 1 .. m + 1 /\ f[t] = TurnOf(g, f, t)
      BY <2>1, <2>2 DEF Turned
    <3>2. \A t \in 1 .. m + 1 : h[t] = TurnOf(g, f, t)
      BY DEF Turned
    <3> QED
      BY <3>1, <3>2
  <2>4. \A t \in 1 .. m + 1 : t # 1 => h[t - 1] = f[t - 1]
    BY <2>1, <2>3
  <2>5. h = Turned(g, m + 1, h)
    <3>1. ASSUME NEW t \in 1 .. m + 1
          PROVE  TurnOf(g, h, t) = TurnOf(g, f, t)
      <4> HIDE DEF h
      <4> QED
        BY <2>4 DEF TurnOf
    <3> QED
      BY <3>1 DEF Turned
  <2> HIDE DEF h
  <2> QED
    BY <2>1, <2>5
<1>3. K = Nat
  <2>1. K \in SUBSET Nat
    OBVIOUS
  <2> HIDE DEF K
  <2> QED
    BY <1>1, <1>2, <2>1, Induction
<1> QED
  BY <1>3

(* As many turns from y, none of which settles.                            *)
Restless(g, turns, y) ==
  \E s : s[0] = y /\ \A k \in 1 .. turns : s[k] = g[s[k - 1]] /\ Distance(s[k], s[k - 1]) > 1

LEMMA RestlessGrows ==
  ASSUME NEW g, NEW m \in Nat, NEW y \in Int, Distance(g[y], y) > 1, Restless(g, m, g[y])
  PROVE  Restless(g, m + 1, y)
<1>1. PICK s : s[0] = g[y] /\ \A k \in 1 .. m : s[k] = g[s[k - 1]] /\ Distance(s[k], s[k - 1]) > 1
  BY DEF Restless
<1> DEFINE r == [k \in 0 .. m + 1 |-> IF k = 0 THEN y ELSE s[k - 1]]
<1>2. r[0] = y /\ \A k \in 1 .. m + 1 : r[k] = s[k - 1]
  OBVIOUS
<1> HIDE DEF r
<1>3. ASSUME NEW k \in 1 .. m + 1
      PROVE  r[k] = g[r[k - 1]] /\ Distance(r[k], r[k - 1]) > 1
  <2>1. CASE k = 1
    <3>1. r[1] = g[y] /\ r[0] = y
      BY <1>1, <1>2, <2>1
    <3> QED
      BY <2>1, <3>1
  <2>2. CASE k # 1
    <3> DEFINE h == k - 1
    <3>1. h \in 1 .. m /\ r[k] = s[h] /\ r[h] = s[h - 1]
      BY <1>2, <2>2
    <3>2. s[h] = g[s[h - 1]] /\ Distance(s[h], s[h - 1]) > 1
      BY <1>1, <3>1
    <3> QED
      BY <3>1, <3>2
  <2> QED
    BY <2>1, <2>2
<1> QED
  BY <1>2, <1>3 DEF Restless

(* What turns make true, going on from K while they do not settle, is true *)
(* of where the iteration ends.                                            *)
LEMMA TurnsEndIn ==
  ASSUME NEW g, NEW n \in Nat, NEW f, f = Turned(g, n, f),
         NEW K \in SUBSET Int, NEW P, NEW R,
         \A y \in K : /\ g[y] \in P
                      /\ Distance(g[y], y) <= 1 => g[y] \in R
                      /\ ~ Distance(g[y], y) <= 1 => g[y] \in K /\ Distance(g[y], y) > 1
  PROVE  \A t \in 1 .. n : \A y \in K : f[t][y] \in P /\ (f[t][y] \in R \/ Restless(g, t, y))
<1> DEFINE Good(t, y) == f[t][y] \in P /\ (f[t][y] \in R \/ Restless(g, t, y))
           M == {m \in Nat : m \in 1 .. n => \A y \in K : Good(m, y)}
<1>1. ASSUME NEW t \in 1 .. n, NEW y \in K
      PROVE  f[t][y] = IF Distance(g[y], y) <= 1 \/ t = 1 THEN g[y] ELSE f[t - 1][g[y]]
  <2> DEFINE V(i) == IF Distance(g[i], i) <= 1 \/ t = 1 THEN g[i] ELSE f[t - 1][g[i]]
  <2>1. f[t] = [i \in Int |-> V(i)]
    BY DEF Turned, TurnOf
  <2>2. y \in Int
    OBVIOUS
  <2> HIDE DEF V
  <2>3. f[t][y] = V(y)
    BY <2>1, <2>2
  <2> QED
    BY <2>3 DEF V
<1>2. 0 \in M
  OBVIOUS
<1>3. ASSUME NEW m \in M
      PROVE  m + 1 \in M
  <2>1. m \in Nat
    OBVIOUS
  <2> SUFFICES ASSUME m + 1 \in 1 .. n, NEW y \in K
               PROVE  Good(m + 1, y)
    BY <2>1
  <2> DEFINE t == m + 1
             z == g[y]
  <2>2. t \in 1 .. n /\ (t = 1 <=> m = 0) /\ (m # 0 => m \in 1 .. n) /\ t - 1 = m
    BY <2>1
  <2>3. f[t][y] = IF Distance(z, y) <= 1 \/ m = 0 THEN z ELSE f[m][z]
    <3> HIDE DEF t
    <3> QED
      BY <1>1, <2>2
  <2>4. y \in Int /\ z \in P
    OBVIOUS
  <2>5. CASE Distance(z, y) <= 1
    <3>1. z \in R
      BY <2>5
    <3> QED
      BY <2>3, <2>4, <2>5, <3>1
  <2>6. CASE ~ Distance(z, y) <= 1
    <3>1. z \in K /\ Distance(z, y) > 1
      BY <2>6
    <3>2. CASE m = 0
      <4>1. Restless(g, m, z)
        <5> DEFINE s == [k \in {0} |-> z]
        <5>1. s[0] = z /\ 1 .. m = {}
          BY <3>2
        <5> HIDE DEF s, z
        <5> QED
          BY <5>1 DEF Restless
      <4>2. Restless(g, m + 1, y)
        BY <2>1, <2>4, <3>1, <4>1, RestlessGrows
      <4> QED
        BY <2>3, <2>4, <3>2, <4>2
    <3>3. CASE m # 0
      <4>1. Good(m, z)
        BY <2>2, <3>1, <3>3
      <4>2. Restless(g, m, z) => Restless(g, m + 1, y)
        BY <2>1, <2>4, <3>1, RestlessGrows
      <4>3. f[m + 1][y] = f[m][z]
        BY <2>3, <2>6, <3>3
      <4> QED
        BY <4>1, <4>2, <4>3
    <3> QED
      BY <3>2, <3>3
  <2> QED
    BY <2>5, <2>6
<1>4. M = Nat
  <2>1. M \in SUBSET Nat
    OBVIOUS
  <2> HIDE DEF M
  <2> QED
    BY <1>2, <1>3, <2>1, Induction
<1> QED
  BY <1>4

LEMMA EndsIn ==
  ASSUME NEW g, NEW f, f = Turned(g, MaxTurns, f),
         NEW K \in SUBSET Int, NEW P, NEW R, NEW D0 \in K,
         \A y \in K : /\ g[y] \in P
                      /\ Distance(g[y], y) <= 1 => g[y] \in R
                      /\ ~ Distance(g[y], y) <= 1 => g[y] \in K /\ Distance(g[y], y) > 1
  PROVE  f[MaxTurns][D0] \in P /\ (f[MaxTurns][D0] \in R \/ Restless(g, MaxTurns, D0))
<1>1. MaxTurns \in Nat /\ MaxTurns \in 1 .. MaxTurns
  BY StableSwapAssumption
<1>2. \A t \in 1 .. MaxTurns : \A y \in K : f[t][y] \in P /\ (f[t][y] \in R \/ Restless(g, t, y))
  BY <1>1, TurnsEndIn
<1> QED
  BY <1>1, <1>2

(* What the two iterations make of each number, and where they end.        *)
TurnsOfY(b, c, D) == [y \in Int |-> NextY(y, b, c, D)]

EndOfY(b, c, D) == Settle(LAMBDA y : NextY(y, b, c, D), D)

TurnsOfD(xp, Ann, unit) == [D \in Int |-> NextD(D, xp, Ann, unit)]

EndOfD(xp, Ann, unit, D0) == Settle(LAMBDA D : NextD(D, xp, Ann, unit), D0)

LEMMA BalanceSettles ==
  ASSUME NEW b, NEW c, NEW D, NEW K \in SUBSET Int, NEW P, NEW R, D \in K,
         \A y \in K : /\ NextY(y, b, c, D) \in P
                      /\ Distance(NextY(y, b, c, D), y) <= 1 => NextY(y, b, c, D) \in R
                      /\ ~ Distance(NextY(y, b, c, D), y) <= 1 =>
                             NextY(y, b, c, D) \in K /\ Distance(NextY(y, b, c, D), y) > 1
  PROVE  LET z == EndOfY(b, c, D)
         IN  z \in P /\ (z \in R \/ Restless(TurnsOfY(b, c, D), MaxTurns, D))
<1> DEFINE N(f) == [turns \in 1 .. MaxTurns |-> [y \in Int |->
                      IF Distance(NextY(y, b, c, D), y) <= 1 \/ turns = 1 THEN NextY(y, b, c, D)
                      ELSE f[turns - 1][NextY(y, b, c, D)]]]
           F == CHOOSE f : f = N(f)
           g == [y \in Int |-> NextY(y, b, c, D)]
<1>1. EndOfY(b, c, D) = F[MaxTurns][D]
  BY DEF EndOfY, Settle
<1>2. MaxTurns \in Nat /\ MaxTurns \in 1 .. MaxTurns
  BY StableSwapAssumption
<1>3. \A y \in Int : g[y] = NextY(y, b, c, D)
  OBVIOUS
<1> HIDE DEF g
<1>4. ASSUME NEW f
      PROVE  Turned(g, MaxTurns, f) = N(f)
  BY <1>3 DEF Turned, TurnOf
<1>5. \E f : f = N(f)
  <2>1. PICK f : f = Turned(g, MaxTurns, f)
    BY <1>2, TurnsExist
  <2>2. Turned(g, MaxTurns, f) = N(f)
    BY <1>4
  <2> HIDE DEF N
  <2> QED
    BY <2>1, <2>2
<1>6. F = N(F)
  <2> HIDE DEF N
  <2> QED
    BY <1>5
<1> HIDE DEF F
<1>7. F = Turned(g, MaxTurns, F)
  BY <1>4, <1>6
<1>8. \A y \in K : /\ g[y] \in P
                   /\ Distance(g[y], y) <= 1 => g[y] \in R
                   /\ ~ Distance(g[y], y) <= 1 => g[y] \in K /\ Distance(g[y], y) > 1
  BY <1>3
<1> DEFINE z == F[MaxTurns][D]
<1>9. z \in P /\ (z \in R \/ Restless(g, MaxTurns, D))
  BY <1>7, <1>8, EndsIn
<1> QED
  BY <1>1, <1>9 DEF g, TurnsOfY

LEMMA InvariantSettles ==
  ASSUME NEW xp, NEW Ann, NEW unit, NEW D0, NEW K \in SUBSET Int, NEW P, NEW R, D0 \in K,
         \A D \in K : /\ NextD(D, xp, Ann, unit) \in P
                      /\ Distance(NextD(D, xp, Ann, unit), D) <= 1 => NextD(D, xp, Ann, unit) \in R
                      /\ ~ Distance(NextD(D, xp, Ann, unit), D) <= 1 =>
                             NextD(D, xp, Ann, unit) \in K /\ Distance(NextD(D, xp, Ann, unit), D) > 1
  PROVE  LET z == EndOfD(xp, Ann, unit, D0)
         IN  z \in P /\ (z \in R \/ Restless(TurnsOfD(xp, Ann, unit), MaxTurns, D0))
<1> DEFINE N(f) == [turns \in 1 .. MaxTurns |-> [D \in Int |->
                      IF Distance(NextD(D, xp, Ann, unit), D) <= 1 \/ turns = 1 THEN NextD(D, xp, Ann, unit)
                      ELSE f[turns - 1][NextD(D, xp, Ann, unit)]]]
           F == CHOOSE f : f = N(f)
           g == [D \in Int |-> NextD(D, xp, Ann, unit)]
<1>1. EndOfD(xp, Ann, unit, D0) = F[MaxTurns][D0]
  BY DEF EndOfD, Settle
<1>2. MaxTurns \in Nat /\ MaxTurns \in 1 .. MaxTurns
  BY StableSwapAssumption
<1>3. \A D \in Int : g[D] = NextD(D, xp, Ann, unit)
  OBVIOUS
<1> HIDE DEF g
<1>4. ASSUME NEW f
      PROVE  Turned(g, MaxTurns, f) = N(f)
  BY <1>3 DEF Turned, TurnOf
<1>5. \E f : f = N(f)
  <2>1. PICK f : f = Turned(g, MaxTurns, f)
    BY <1>2, TurnsExist
  <2>2. Turned(g, MaxTurns, f) = N(f)
    BY <1>4
  <2> HIDE DEF N
  <2> QED
    BY <2>1, <2>2
<1>6. F = N(F)
  <2> HIDE DEF N
  <2> QED
    BY <1>5
<1> HIDE DEF F
<1>7. F = Turned(g, MaxTurns, F)
  BY <1>4, <1>6
<1>8. \A D \in K : /\ g[D] \in P
                   /\ Distance(g[D], D) <= 1 => g[D] \in R
                   /\ ~ Distance(g[D], D) <= 1 => g[D] \in K /\ Distance(g[D], D) > 1
  BY <1>3
<1> DEFINE z == F[MaxTurns][D0]
<1>9. z \in P /\ (z \in R \/ Restless(g, MaxTurns, D0))
  BY <1>7, <1>8, EndsIn
<1> QED
  BY <1>1, <1>9 DEF g, TurnsOfD

-----------------------------------------------------------------------------
(* What is folded from the coins of a pool: 0 stands for their sum, and    *)
(* any other kind for the product that D goes into.                        *)
Folded(kind, D, n, p, x) == IF kind = 0 THEN p + x ELSE (p * D) \div (x * n)

FoldsOf(kind, D, n, base, xp, g) ==
  [s \in SUBSET DOMAIN xp |->
     IF s = {} THEN base ELSE Folded(kind, D, n, g[s \ {Max(s)}], xp[Max(s)])]

FoldOf(kind, D, n, base, xp) == (CHOOSE g : g = FoldsOf(kind, D, n, base, xp, g))[DOMAIN xp]

LEMMA TotalIs ==
  ASSUME NEW xp
  PROVE  Total(xp) = FoldOf(0, 0, 0, 0, xp)
BY DEF Total, FoldLeft, MapThenFoldSet, FoldOf, FoldsOf, Folded

LEMMA ProductIs ==
  ASSUME NEW xp, NEW D, NEW n
  PROVE  FoldLeft(LAMBDA p, x : (p * D) \div (x * n), D, xp) = FoldOf(1, D, n, D, xp)
BY DEF FoldLeft, MapThenFoldSet, FoldOf, FoldsOf, Folded

LEMMA LargestIsOne ==
  ASSUME NEW n \in Nat, NEW s \in SUBSET (1 .. n), s # {}
  PROVE  Max(s) \in s
<1> DEFINE K == {m \in Nat : \A r \in SUBSET (1 .. m) : r # {} => Max(r) \in r}
<1>1. 0 \in K
  <2>1. 1 .. 0 = {}
    OBVIOUS
  <2> QED
    BY <2>1
<1>2. ASSUME NEW m \in K
      PROVE  m + 1 \in K
  <2>1. m \in Nat
    OBVIOUS
  <2>2. ASSUME NEW r \in SUBSET (1 .. m + 1), r # {}
        PROVE  Max(r) \in r
    <3>1. CASE m + 1 \in r
      <4>1. \A y \in r : m + 1 >= y
        BY <2>1
      <4> QED
        BY <3>1, <4>1 DEF Max
    <3>2. CASE m + 1 \notin r
      <4>1. \A y \in r : y \in 1 .. m
        BY <2>1, <3>2
      <4> QED
        BY <2>2, <4>1
    <3> QED
      BY <3>1, <3>2
  <2> QED
    BY <2>1, <2>2
<1>3. K = Nat
  <2>1. K \in SUBSET Nat
    OBVIOUS
  <2> HIDE DEF K
  <2> QED
    BY <1>1, <1>2, <2>1, Induction
<1> QED
  BY <1>3

LEMMA FoldsExist ==
  ASSUME NEW kind, NEW D, NEW n, NEW base, NEW xp, NEW l \in Nat, DOMAIN xp = 1 .. l
  PROVE  \E g : g = FoldsOf(kind, D, n, base, xp, g)
<1> DEFINE S == DOMAIN xp
           Upto(m) == {s \in SUBSET S : Cardinality(s) <= m}
           Folds(m, g) ==
             [s \in Upto(m) |-> IF s = {} THEN base ELSE Folded(kind, D, n, g[s \ {Max(s)}], xp[Max(s)])]
           Done == {m \in Nat : \E g : g = Folds(m, g)}
<1>0. IsFiniteSet(S)
  BY FS_Interval
<1>1. \A s \in SUBSET S : IsFiniteSet(s) /\ Cardinality(s) \in Nat
  BY <1>0, FS_Subset, FS_CardinalityType
<1>2. \A s \in SUBSET S : s # {} =>
        s \ {Max(s)} \in SUBSET S /\ Cardinality(s \ {Max(s)}) = Cardinality(s) - 1
  BY <1>1, LargestIsOne, FS_RemoveElement
<1>3. 0 \in Done
  <2>1. Upto(0) = {{}}
    BY <1>1, FS_EmptySet
  <2> DEFINE g == [s \in Upto(0) |-> base]
  <2>2. g = Folds(0, g)
    BY <2>1
  <2> HIDE DEF g, Folds
  <2> QED
    BY <2>2
<1>4. ASSUME NEW m \in Done
      PROVE  m + 1 \in Done
  <2>1. m \in Nat
    OBVIOUS
  <2>2. PICK g : g = Folds(m, g)
    OBVIOUS
  <2> DEFINE h == Folds(m + 1, g)
  <2>3. \A s \in Upto(m + 1) : s # {} => s \ {Max(s)} \in Upto(m)
    <3>1. ASSUME NEW s \in Upto(m + 1), s # {}
          PROVE  s \ {Max(s)} \in Upto(m)
      <4>1. s \in SUBSET S /\ Cardinality(s) \in Nat /\ Cardinality(s) <= m + 1
        BY <1>1
      <4>2. s \ {Max(s)} \in SUBSET S /\ Cardinality(s \ {Max(s)}) = Cardinality(s) - 1
        BY <1>2, <3>1, <4>1
      <4> QED
        BY <2>1, <4>1, <4>2
    <3> QED
      BY <3>1
  <2>4. Upto(m) \subseteq Upto(m + 1)
    BY <1>1, <2>1
  <2>5. \A s \in Upto(m) : h[s] = g[s]
    BY <2>2, <2>4
  <2>6. h = Folds(m + 1, h)
    <3>1. \A s \in Upto(m + 1) : s # {} => h[s \ {Max(s)}] = g[s \ {Max(s)}]
      BY <2>3, <2>5
    <3> QED
      BY <3>1
  <2> HIDE DEF h, Folds
  <2> QED
    BY <2>1, <2>6
<1>5. Done = Nat
  <2>1. Done \in SUBSET Nat
    OBVIOUS
  <2> HIDE DEF Done
  <2> QED
    BY <1>3, <1>4, <2>1, Induction
<1>6. Upto(Cardinality(S)) = SUBSET S
  BY <1>0, FS_Subset
<1>7. Cardinality(S) \in Nat
  BY <1>0, FS_CardinalityType
<1>8. PICK g : g = Folds(Cardinality(S), g)
  BY <1>5, <1>7
<1>9. g = FoldsOf(kind, D, n, base, xp, g)
  BY <1>6, <1>8 DEF FoldsOf
<1> QED
  BY <1>9

(* Coin by coin.                                                           *)
CoinByCoin(f, kind, D, n, base, xp, l) ==
  /\ f[0] = base
  /\ f[l] = FoldOf(kind, D, n, base, xp)
  /\ \A m \in 0 .. l - 1 : f[m + 1] = Folded(kind, D, n, f[m], xp[m + 1])

LEMMA FoldStepwise ==
  ASSUME NEW kind, NEW D, NEW n, NEW base, NEW xp, NEW l \in Nat, DOMAIN xp = 1 .. l
  PROVE  \E f : CoinByCoin(f, kind, D, n, base, xp, l)
<1> DEFINE g == CHOOSE g : g = FoldsOf(kind, D, n, base, xp, g)
           f == [m \in 0 .. l |-> g[1 .. m]]
<1>1. g = FoldsOf(kind, D, n, base, xp, g)
  BY FoldsExist
<1>2. FoldOf(kind, D, n, base, xp) = g[1 .. l]
  BY DEF FoldOf
<1> HIDE DEF g
<1>3. g[{}] = base
  BY <1>1 DEF FoldsOf
<1>4. f[0] = base
  <2>1. 1 .. 0 = {}
    OBVIOUS
  <2> QED
    BY <1>3, <2>1
<1>5. ASSUME NEW m \in 0 .. l - 1
      PROVE  f[m + 1] = Folded(kind, D, n, f[m], xp[m + 1])
  <2> DEFINE s == 1 .. m + 1
  <2>1. s \in SUBSET DOMAIN xp /\ s # {} /\ m + 1 \in s /\ s \ {m + 1} = 1 .. m
    OBVIOUS
  <2>2. Max(s) = m + 1
    BY DEF Max
  <2>3. m \in 0 .. l /\ m + 1 \in 0 .. l
    OBVIOUS
  <2> HIDE DEF s
  <2>4. g[s] = Folded(kind, D, n, g[s \ {Max(s)}], xp[Max(s)])
    BY <1>1, <2>1 DEF FoldsOf
  <2>5. g[s] = Folded(kind, D, n, g[1 .. m], xp[m + 1])
    BY <2>1, <2>2, <2>4
  <2> QED
    BY <2>3, <2>5 DEF s
<1>6. f[l] = FoldOf(kind, D, n, base, xp)
  BY <1>2
<1> HIDE DEF f
<1> QED
  BY <1>4, <1>5, <1>6 DEF CoinByCoin

(* What every coin keeps, the fold keeps.                                  *)
LEMMA FoldsIn ==
  ASSUME NEW kind, NEW D, NEW n, NEW base, NEW xp, NEW l \in Nat, DOMAIN xp = 1 .. l,
         NEW P, base \in P, \A p \in P : \A i \in 1 .. l : Folded(kind, D, n, p, xp[i]) \in P,
         NEW f, CoinByCoin(f, kind, D, n, base, xp, l)
  PROVE  \A m \in 0 .. l : f[m] \in P
<1>1. /\ f[0] = base
      /\ \A m \in 0 .. l - 1 : f[m + 1] = Folded(kind, D, n, f[m], xp[m + 1])
  BY DEF CoinByCoin
<1> DEFINE K == {m \in Nat : m <= l => f[m] \in P}
<1>2. 0 \in K
  BY <1>1
<1>3. ASSUME NEW m \in K
      PROVE  m + 1 \in K
  <2>1. m \in Nat /\ m + 1 \in Nat
    OBVIOUS
  <2>2. ASSUME m + 1 <= l
        PROVE  f[m + 1] \in P
    <3>1. m \in 0 .. l - 1 /\ m + 1 \in 1 .. l /\ f[m] \in P
      BY <2>1, <2>2
    <3>2. f[m + 1] = Folded(kind, D, n, f[m], xp[m + 1])
      BY <1>1, <3>1
    <3>3. Folded(kind, D, n, f[m], xp[m + 1]) \in P
      BY <3>1
    <3> QED
      BY <3>2, <3>3
  <2> QED
    BY <2>1, <2>2
<1>4. K = Nat
  <2>1. K \in SUBSET Nat
    OBVIOUS
  <2> HIDE DEF K
  <2> QED
    BY <1>2, <1>3, <2>1, Induction
<1> QED
  BY <1>4

EndsWith(kind, D, n, base, xp, P, x) ==
  \E p \in P : FoldOf(kind, D, n, base, xp) = Folded(kind, D, n, p, x)

LEMMA FoldIn ==
  ASSUME NEW kind, NEW D, NEW n, NEW base, NEW xp, NEW l \in Nat, DOMAIN xp = 1 .. l,
         NEW P, base \in P, \A p \in P : \A i \in 1 .. l : Folded(kind, D, n, p, xp[i]) \in P
  PROVE  /\ FoldOf(kind, D, n, base, xp) \in P
         /\ l > 0 => EndsWith(kind, D, n, base, xp, P, xp[l])
<1>1. PICK f : CoinByCoin(f, kind, D, n, base, xp, l)
  BY FoldStepwise
<1>2. \A m \in 0 .. l : f[m] \in P
  BY <1>1, FoldsIn
<1>3. FoldOf(kind, D, n, base, xp) = f[l]
  BY <1>1 DEF CoinByCoin
<1>4. l \in 0 .. l
  OBVIOUS
<1>5. ASSUME l > 0
      PROVE  f[l - 1] \in P /\ f[l] = Folded(kind, D, n, f[l - 1], xp[l])
  <2> DEFINE m == l - 1
  <2>1. m \in 0 .. l - 1 /\ m \in 0 .. l /\ m + 1 = l
    BY <1>5
  <2>2. f[m + 1] = Folded(kind, D, n, f[m], xp[m + 1])
    BY <1>1, <2>1 DEF CoinByCoin
  <2> QED
    BY <1>2, <2>1, <2>2
<1> QED
  BY <1>2, <1>3, <1>4, <1>5 DEF EndsWith

LEMMA TotalIsNatural ==
  ASSUME NEW xp \in Seq(Nat)
  PROVE  Total(xp) \in Nat
<1>1. Len(xp) \in Nat /\ DOMAIN xp = 1 .. Len(xp) /\ \A i \in 1 .. Len(xp) : xp[i] \in Nat
  OBVIOUS
<1>2. \A p \in Nat : \A i \in 1 .. Len(xp) : Folded(0, 0, 0, p, xp[i]) \in Nat
  BY <1>1 DEF Folded
<1>3. FoldOf(0, 0, 0, 0, xp) \in Nat
  BY <1>1, <1>2, FoldIn
<1> QED
  BY <1>3, TotalIs

LEMMA ProductIsNatural ==
  ASSUME NEW xp \in Seq(Nat \ {0}), NEW D \in Nat, NEW n \in Nat \ {0}
  PROVE  /\ FoldOf(1, D, n, D, xp) \in Nat
         /\ FoldLeft(LAMBDA p, x : (p * D) \div (x * n), D, xp) \in Nat
<1>1. Len(xp) \in Nat /\ DOMAIN xp = 1 .. Len(xp) /\ \A i \in 1 .. Len(xp) : xp[i] \in Nat \ {0}
  OBVIOUS
<1>2. ASSUME NEW p \in Nat, NEW i \in 1 .. Len(xp)
      PROVE  Folded(1, D, n, p, xp[i]) \in Nat
  <2>1. p * D \in Nat /\ xp[i] * n \in Nat \ {0}
    BY <1>1
  <2>2. (p * D) \div (xp[i] * n) \in Nat
    <3> DEFINE a == p * D
               b == xp[i] * n
    <3>1. a \in Nat /\ b \in Nat \ {0}
      BY <2>1
    <3> HIDE DEF a, b
    <3>2. b * 0 <= a /\ a \in Int
      BY <3>1
    <3>3. 0 <= a \div b /\ a \div b \in Int
      BY <3>1, <3>2, QuotientIsNoLess, DivisionRounds
    <3>4. a \div b \in Nat
      BY <3>3
    <3> QED
      BY <3>4 DEF a, b
  <2> QED
    BY <2>2 DEF Folded
<1>3. FoldOf(1, D, n, D, xp) \in Nat
  BY <1>1, <1>2, FoldIn
<1> QED
  BY <1>3, ProductIs

(* A turn of get_y.                                                        *)
LEMMA BalanceTurn ==
  ASSUME NEW b \in Nat, NEW c \in Nat, NEW D \in Nat \ {0}, NEW y \in Nat,
         NEW e, e = b - D, 2 * y + e > 0,
         NEW z, z = NextY(y, b, c, D)
  PROVE  /\ z \in Nat
         /\ c < (z + 1) * (z + 1 + e)
         /\ Distance(z, y) <= 1 => z * (z + e) <= c + 1
         /\ ~ Distance(z, y) <= 1 => Distance(z, y) > 1 /\ 2 * z + e > 0
<1> DEFINE m == 2 * y + e
           a == y * y + c
           s == y * y
           w == z + 1
<1>1. e \in Int /\ m \in Nat \ {0} /\ m = 2 * y + b - D
  OBVIOUS
<1>2. s \in Nat /\ a \in Nat /\ a = s + c
  OBVIOUS
<1>3. z = a \div m
  BY <1>1 DEF NextY
<1>4. z \in Int /\ m * z <= a /\ a < m * z + m
  <2> HIDE DEF a, m
  <2> QED
    BY <1>1, <1>2, <1>3, DivisionRounds
<1>5. z \in Nat
  <2> HIDE DEF a, m
  <2>1. m * 0 <= a
    BY <1>1, <1>2
  <2>2. 0 <= a \div m
    BY <1>1, <1>2, <2>1, QuotientIsNoLess
  <2> QED
    BY <1>3, <1>4, <2>2
<1>6. c < w * (w + e)
  <2> DEFINE v == w - y
             u == w * e
  <2>1. m * w = 2 * (y * w) + u
    BY <1>1, <1>5
  <2>2. m * z + m = m * w
    BY <1>1, <1>5
  <2>3. v * v = w * w - 2 * (y * w) + s /\ v * v >= 0
    BY <1>5
  <2>4. w * (w + e) = w * w + u
    BY <1>1, <1>5
  <2>5. y * w \in Int /\ u \in Int /\ w * w \in Int /\ v * v \in Int /\ m * w \in Int
    BY <1>1, <1>5
  <2>6. s + c < m * w
    BY <1>2, <1>4, <2>2
  <2> DEFINE yw == y * w
             ww == w * w
             vv == v * v
             mw == m * w
             we == w * (w + e)
  <2>7. /\ yw \in Int /\ u \in Int /\ ww \in Int /\ vv \in Int /\ mw \in Int
        /\ mw = 2 * yw + u /\ vv = ww - 2 * yw + s /\ vv >= 0 /\ s + c < mw /\ we = ww + u
    BY <2>1, <2>3, <2>4, <2>5, <2>6
  <2> HIDE DEF yw, ww, vv, mw, u, s, we
  <2>8. c < we
    BY <1>2, <2>7
  <2> QED
    BY <2>8 DEF we
<1>7. ASSUME Distance(z, y) <= 1
      PROVE  z * (z + e) <= c + 1
  <2> DEFINE v == y - z
             u == z * e
  <2>1. v \in {-1, 0, 1} /\ y = z + v
    BY <1>5, <1>7 DEF Distance
  <2>2. v * v \in {0, 1}
    BY <2>1
  <2>3. s = z * z + 2 * (z * v) + v * v
    <3> HIDE DEF v
    <3> QED
      BY <1>5, <2>1
  <2>4. m * z = 2 * (z * z) + 2 * (z * v) + u
    <3> HIDE DEF v
    <3> QED
      BY <1>1, <1>5, <2>1
  <2>5. z * (z + e) = z * z + u
    BY <1>1, <1>5
  <2> DEFINE zz == z * z
             zv == z * v
             mz == m * z
             vv == v * v
             ze == z * (z + e)
  <2>6. zz \in Int /\ zv \in Int /\ u \in Int /\ vv \in {0, 1}
    <3>1. v \in Int
      BY <2>1
    <3> HIDE DEF v
    <3> QED
      BY <1>1, <1>5, <2>2, <3>1
  <2>7. s = zz + 2 * zv + vv /\ mz = 2 * zz + 2 * zv + u /\ ze = zz + u /\ mz <= s + c
    BY <1>2, <1>4, <2>3, <2>4, <2>5
  <2> HIDE DEF zz, zv, mz, vv, ze, u, s
  <2>8. ze <= c + 1
    BY <2>6, <2>7
  <2> QED
    BY <2>8 DEF ze
<1>8. ASSUME ~ Distance(z, y) <= 1
      PROVE  Distance(z, y) > 1 /\ 2 * z + e > 0
  <2>1. Distance(z, y) > 1
    BY <1>5, <1>8 DEF Distance
  <2>2. w + e > 0
    <3> DEFINE h == w + e
    <3>1. w \in Nat \ {0} /\ h \in Int /\ w * 0 < w * h
      BY <1>1, <1>5, <1>6
    <3> HIDE DEF w, h
    <3>2. 0 < h
      BY <3>1, FactorIsLess
    <3> QED
      BY <3>2 DEF h
  <2>3. 2 * z + e > 0
    <3> SUFFICES ASSUME 2 * z + e <= 0
                 PROVE  FALSE
      BY <1>1, <1>5
    <3>1. z = 0 /\ e = 0
      BY <1>1, <1>5, <2>2
    <3>2. c = 0
      BY <1>6, <3>1
    <3>3. m = 2 * y /\ a = y * y
      BY <3>1, <3>2
    <3>4. y * y < 2 * y
      BY <1>4, <3>1, <3>3
    <3>5. y < 2
      BY <3>4
    <3> QED
      BY <1>8, <3>1, <3>5 DEF Distance
  <2> QED
    BY <2>1, <2>3
<1> QED
  BY <1>5, <1>6, <1>7, <1>8

(* The equation of get_y: y is not below its root by one or more, or not   *)
(* above it by one or more.                                                *)
LEMMA BalanceEnds ==
  ASSUME NEW b \in Nat, NEW c \in Nat, NEW D \in Nat \ {0},
         NEW y, y = EndOfY(b, c, D)
  PROVE  /\ y \in Nat
         /\ c < (y + 1) * (y + 1 + (b - D))
         /\ \/ y * (y + (b - D)) <= c + 1
            \/ Restless(TurnsOfY(b, c, D), MaxTurns, D)
<1> DEFINE e == b - D
           K == {z \in Nat : 2 * z + e > 0}
           P == {z \in Nat : c < (z + 1) * (z + 1 + e)}
           R == {z \in Nat : z * (z + e) <= c + 1}
           N(z) == NextY(z, b, c, D)
<1>1. e \in Int /\ e = b - D
  OBVIOUS
<1>2. ASSUME NEW z \in K
      PROVE  /\ N(z) \in P
             /\ Distance(N(z), z) <= 1 => N(z) \in R
             /\ ~ Distance(N(z), z) <= 1 => N(z) \in K /\ Distance(N(z), z) > 1
  <2> DEFINE n == N(z)
  <2>1. z \in Nat /\ 2 * z + e > 0
    OBVIOUS
  <2>2. n = NextY(z, b, c, D)
    OBVIOUS
  <2> HIDE DEF n, e
  <2>3. /\ n \in Nat
        /\ c < (n + 1) * (n + 1 + e)
        /\ Distance(n, z) <= 1 => n * (n + e) <= c + 1
        /\ ~ Distance(n, z) <= 1 => Distance(n, z) > 1 /\ 2 * n + e > 0
    BY <1>1, <2>1, <2>2, BalanceTurn
  <2>4. /\ n \in P
        /\ Distance(n, z) <= 1 => n \in R
        /\ ~ Distance(n, z) <= 1 => n \in K /\ Distance(n, z) > 1
    BY <2>3
  <2> QED
    BY <2>4 DEF n
<1>3. D \in K /\ K \in SUBSET Int
  OBVIOUS
<1> DEFINE T == Restless(TurnsOfY(b, c, D), MaxTurns, D)
<1>4. y \in P /\ (y \in R \/ T)
  <2> HIDE DEF K, P, R, e
  <2>1. \A z \in K : /\ NextY(z, b, c, D) \in P
                     /\ Distance(NextY(z, b, c, D), z) <= 1 => NextY(z, b, c, D) \in R
                     /\ ~ Distance(NextY(z, b, c, D), z) <= 1 =>
                            NextY(z, b, c, D) \in K /\ Distance(NextY(z, b, c, D), z) > 1
    BY <1>2
  <2> QED
    BY <1>3, <2>1, BalanceSettles
<1> HIDE DEF T
<1>5. y \in Nat /\ c < (y + 1) * (y + 1 + e) /\ (y * (y + e) <= c + 1 \/ T)
  BY <1>4
<1> QED
  BY <1>5 DEF T

LEMMA OthersAreBalances ==
  ASSUME NEW S, NEW xp \in Seq(S), NEW j \in 1 .. Len(xp)
  PROVE  RemoveAt(xp, j) \in Seq(S)
<1>1. Len(xp) \in Nat
  OBVIOUS
<1>2. SubSeq(xp, 1, j - 1) \in Seq(S)
  <2>1. \A i \in 1 .. j - 1 : xp[i] \in S
    BY <1>1
  <2> QED
    BY <2>1
<1>3. SubSeq(xp, j + 1, Len(xp)) \in Seq(S)
  <2>1. \A i \in j + 1 .. Len(xp) : xp[i] \in S
    BY <1>1
  <2> QED
    BY <1>1, <2>1
<1> QED
  BY <1>2, <1>3 DEF RemoveAt

LEMMA QuotientIsNatural ==
  ASSUME NEW a \in Nat, NEW d \in Nat \ {0}
  PROVE  a \div d \in Nat
<1>1. d * 0 <= a /\ a \in Int
  OBVIOUS
<1>2. 0 <= a \div d /\ a \div d \in Int
  BY <1>1, QuotientIsNoLess, DivisionRounds
<1> QED
  BY <1>2

(***************************************************************************)
(* The balance get_y makes of the other balances and D solves its          *)
(* equation y^2 + (b - D) y = c as whole numbers can: y + 1 is above the   *)
(* root in any case, so that what a pool gives beyond its `- 1` never      *)
(* comes out of the invariant, and y is not above the root by more than    *)
(* what a turn rounds, unless no turn of all MaxTurns came within 1 of     *)
(* the one before.                                                         *)
(***************************************************************************)
THEOREM BalanceIsTheRoot ==
  ASSUME NEW xp \in Seq(Nat \ {0}), NEW j \in 1 .. Len(xp), NEW D \in Nat \ {0},
         NEW Ann \in Nat \ {0}, NEW unit \in Nat,
         NEW b, b = LinearTerm(j, xp, D, Ann, unit),
         NEW c, c = ConstantTerm(j, xp, D, Ann, unit),
         NEW y, y = BalanceFor(j, xp, D, Ann, unit)
  PROVE  /\ y \in Nat
         /\ c < (y + 1) * (y + 1 + (b - D))
         /\ \/ y * (y + (b - D)) <= c + 1
            \/ Restless(TurnsOfY(b, c, D), MaxTurns, D)
<1>1. Len(xp) \in Nat \ {0}
  OBVIOUS
<1> DEFINE rest == RemoveAt(xp, j)
<1>2. rest \in Seq(Nat \ {0}) /\ rest \in Seq(Nat)
  <2>1. xp \in Seq(Nat)
    OBVIOUS
  <2> QED
    BY <2>1, OthersAreBalances
<1>3. b \in Nat
  <2> HIDE DEF rest
  <2>1. Total(rest) \in Nat
    BY <1>2, TotalIsNatural
  <2>2. D * unit \in Nat
    OBVIOUS
  <2>3. (D * unit) \div Ann \in Nat
    BY <2>2, QuotientIsNatural
  <2>4. Total(rest) + (D * unit) \div Ann \in Nat
    BY <2>1, <2>3
  <2> QED
    BY <2>4 DEF LinearTerm, rest
<1>4. c \in Nat
  <2> DEFINE product == FoldLeft(LAMBDA p, x : (p * D) \div (x * Len(xp)), D, rest)
  <2>1. product \in Nat
    <3> HIDE DEF rest
    <3> DEFINE n == Len(xp)
    <3>1. n \in Nat \ {0}
      BY <1>1
    <3> HIDE DEF n
    <3>2. FoldLeft(LAMBDA p, x : (p * D) \div (x * n), D, rest) \in Nat
      BY <1>2, <3>1, ProductIsNatural
    <3> QED
      BY <3>2 DEF n
  <2>2. c = (product * D * unit) \div (Ann * Len(xp))
    BY DEF ConstantTerm
  <2> HIDE DEF product
  <2>3. product * D \in Nat
    BY <2>1
  <2>4. product * D * unit \in Nat /\ Ann * Len(xp) \in Nat \ {0}
    BY <1>1, <2>3
  <2>5. (product * D * unit) \div (Ann * Len(xp)) \in Nat
    <3> DEFINE p == product * D * unit
               q == Ann * Len(xp)
    <3>1. p \in Nat /\ q \in Nat \ {0}
      BY <2>4
    <3> HIDE DEF p, q
    <3>2. p \div q \in Nat
      BY <3>1, QuotientIsNatural
    <3> QED
      BY <3>2 DEF p, q
  <2> QED
    BY <2>2, <2>5
<1>5. y = EndOfY(b, c, D)
  BY DEF BalanceFor, EndOfY
<1> QED
  BY <1>3, <1>4, <1>5, BalanceEnds

LEMMA TotalIsPositive ==
  ASSUME NEW xp \in Seq(Nat \ {0}), Len(xp) > 0
  PROVE  Total(xp) \in Nat \ {0}
<1>1. /\ Len(xp) \in Nat /\ DOMAIN xp = 1 .. Len(xp)
      /\ \A i \in 1 .. Len(xp) : xp[i] \in Nat \ {0}
  OBVIOUS
<1>2. \A p \in Nat : \A i \in 1 .. Len(xp) : Folded(0, 0, 0, p, xp[i]) \in Nat
  BY <1>1 DEF Folded
<1>3. EndsWith(0, 0, 0, 0, xp, Nat, xp[Len(xp)])
  BY <1>1, <1>2, FoldIn
<1>4. xp[Len(xp)] \in Nat \ {0}
  BY <1>1
<1>5. FoldOf(0, 0, 0, 0, xp) \in Nat \ {0}
  BY <1>3, <1>4 DEF Folded, EndsWith
<1> QED
  BY <1>5, TotalIs

LEMMA ProductTermFolds ==
  ASSUME NEW xp, NEW D
  PROVE  ProductTerm(D, xp) = FoldOf(1, D, Len(xp), D, xp)
BY DEF ProductTerm, FoldLeft, MapThenFoldSet, FoldOf, FoldsOf, Folded

LEMMA QuotientIs ==
  ASSUME NEW a \in Nat, NEW d \in Nat \ {0}, NEW q, q = a \div d
  PROVE  q \in Nat /\ d * q <= a /\ a < d * q + d
BY QuotientIsNatural, DivisionRounds

LEMMA LessThanItsDivisor ==
  ASSUME NEW d \in Nat, NEW a \in Nat, a < d
  PROVE  a \div d = 0
<1> DEFINE q == a \div d
<1>1. q \in Nat /\ d * q <= a
  BY QuotientIs
<1> HIDE DEF q
<1>2. q > 0 => d * q >= d
  BY <1>1
<1>3. d * q \in Nat
  BY <1>1
<1>4. q = 0
  BY <1>1, <1>2, <1>3
<1> QED
  BY <1>4 DEF q

LEMMA ProductTermIs ==
  ASSUME NEW xp \in Seq(Nat \ {0}), NEW n, n = Len(xp), n >= 2, NEW D \in Nat \ {0}
  PROVE  ProductTerm(D, xp) \in Nat /\ (D = 1 => ProductTerm(D, xp) = 0)
<1>1. /\ n \in Nat \ {0} /\ DOMAIN xp = 1 .. n
      /\ \A i \in 1 .. n : xp[i] \in Nat \ {0}
  OBVIOUS
<1>2. ProductTerm(D, xp) = FoldOf(1, D, n, D, xp)
  BY ProductTermFolds
<1>3. FoldOf(1, D, n, D, xp) \in Nat
  BY <1>1, ProductIsNatural
<1>4. ASSUME D = 1
      PROVE  FoldOf(1, D, n, D, xp) = 0
  <2>1. ASSUME NEW p \in {0, 1}, NEW i \in 1 .. n
        PROVE  Folded(1, D, n, p, xp[i]) = 0
    <3> DEFINE d == xp[i] * n
    <3>1. xp[i] * n \in Nat /\ xp[i] * n >= 2
      <4> DEFINE x == xp[i]
      <4>1. x \in Nat \ {0}
        BY <1>1
      <4> HIDE DEF x
      <4>2. x * n \in Nat /\ x * n >= n
        BY <1>1, <4>1
      <4> QED
        BY <1>1, <4>2 DEF x
    <3>2. d \in Nat /\ d >= 2 /\ p * D = p /\ p \in Int
      BY <1>4, <3>1
    <3> HIDE DEF d
    <3>3. p \div d = 0
      <4>1. p \in Nat /\ p < d
        BY <3>2
      <4> QED
        BY <3>2, <4>1, LessThanItsDivisor
    <3> QED
      BY <3>2, <3>3 DEF Folded, d
  <2>2. D \in {0, 1} /\ 0 \in {0, 1}
    BY <1>4
  <2>3. \A p \in {0, 1} : \A i \in 1 .. n : Folded(1, D, n, p, xp[i]) \in {0, 1}
    BY <2>1
  <2> DEFINE P == {0, 1}
  <2> HIDE DEF P
  <2>4. EndsWith(1, D, n, D, xp, P, xp[n])
    <3>1. D \in P /\ \A p \in P : \A i \in 1 .. n : Folded(1, D, n, p, xp[i]) \in P
      BY <2>2, <2>3 DEF P
    <3>2. n \in Nat /\ n > 0
      BY <1>1
    <3> QED
      BY <1>1, <3>1, <3>2, FoldIn
  <2>5. n \in 1 .. n
    BY <1>1
  <2> QED
    BY <2>1, <2>4, <2>5 DEF P, EndsWith
<1> QED
  BY <1>2, <1>3, <1>4

LEMMA OneMoreOf ==
  ASSUME NEW n \in Nat \ {0}, NEW p \in Nat
  PROVE  p * n \in Nat /\ p * n >= p /\ (n + 1) * p = p * n + p
<1>1. p * n >= p * 1
  OBVIOUS
<1> QED
  BY <1>1

(* A turn of get_D.                                                        *)
NumbersOfTurn(n, unit, D, p, u, A1, A2, N, M, z) ==
  /\ n \in Nat \ {0} /\ unit \in Nat \ {0} /\ D \in Nat \ {0}
  /\ p \in Nat /\ (D = 1 => p = 0)
  /\ u \in Nat /\ A1 \in Nat /\ u <= unit * A1
  /\ A2 \in Nat /\ unit * A2 <= u * D /\ A2 > 0
  /\ N = (A1 + p * n) * D /\ M = A2 + (n + 1) * p
  /\ z = N \div M

LEMMA OneMoreTimes ==
  ASSUME NEW z \in Nat, NEW M \in Nat
  PROVE  (z + 1) * M = M * z + M /\ (z = 0 => M * z + M = M)
OBVIOUS

LEMMA NextMultiple ==
  ASSUME NEW N \in Nat, NEW M \in Nat \ {0}, NEW z, z = N \div M
  PROVE  z \in Nat /\ N < (z + 1) * M /\ (M <= N => z # 0)
<1>1. z \in Nat /\ M * z <= N /\ N < M * z + M
  BY QuotientIs
<1>2. (z + 1) * M = M * z + M /\ (z = 0 => M * z + M = M)
  BY <1>1, OneMoreTimes
<1> QED
  BY <1>1, <1>2

LEMMA InvariantTurns ==
  ASSUME NEW n, NEW unit, NEW D, NEW p, NEW u, NEW A1, NEW A2, NEW N, NEW M, NEW z,
         NumbersOfTurn(n, unit, D, p, u, A1, A2, N, M, z)
  PROVE  z \in Nat \ {0} /\ N < (z + 1) * M
<1>0. /\ n \in Nat \ {0} /\ unit \in Nat \ {0} /\ D \in Nat \ {0}
      /\ p \in Nat /\ (D = 1 => p = 0)
      /\ u \in Nat /\ A1 \in Nat /\ u <= unit * A1
      /\ A2 \in Nat /\ unit * A2 <= u * D /\ A2 > 0
      /\ N = (A1 + p * n) * D /\ M = A2 + (n + 1) * p
      /\ z = N \div M
  BY DEF NumbersOfTurn
<1> DEFINE k == p * n
           x == A1 * D
           y == k * D
<1>1. k \in Nat /\ k >= p /\ (n + 1) * p = k + p
  BY <1>0, OneMoreOf
<1> HIDE DEF k
<1>2. x \in Nat /\ y \in Nat /\ N = x + y
  <2>1. N = (A1 + k) * D
    BY <1>0 DEF k
  <2> QED
    BY <1>0, <1>1, <2>1
<1>3. A2 <= x
  <2>1. u * D <= (unit * A1) * D
    <3> DEFINE q == unit * A1
    <3>1. q \in Nat /\ u <= q
      BY <1>0
    <3> HIDE DEF q
    <3>2. u * D <= q * D
      BY <1>0, <3>1
    <3> QED
      BY <3>2 DEF q
  <2>2. (unit * A1) * D = unit * x
    BY <1>0
  <2>3. unit * A2 <= unit * x
    <3> DEFINE ud == u * D
               ua == unit * A2
               ux == unit * x
    <3>1. ud \in Int /\ ua \in Int /\ ux \in Int /\ ua <= ud /\ ud <= ux
      BY <1>0, <1>2, <2>1, <2>2
    <3> HIDE DEF ud, ua, ux
    <3>2. ua <= ux
      BY <1>0, <3>1
    <3> QED
      BY <3>2 DEF ua, ux
  <2> HIDE DEF x
  <2> QED
    BY <1>0, <1>2, <2>3, FactorIsNoMore
<1>4. k + p <= y
  <2>1. CASE D = 1
    <3>1. p = 0 /\ y = k
      BY <1>0, <1>1, <2>1
    <3> QED
      BY <1>0, <1>1, <3>1
  <2>2. CASE D # 1
    <3>1. k * D >= k * 2
      BY <1>0, <1>1, <2>2
    <3> QED
      BY <1>0, <1>1, <3>1
  <2> QED
    BY <2>1, <2>2
<1>5. M \in Nat \ {0} /\ N \in Nat /\ M <= N
  <2>1. M = A2 + (k + p)
    BY <1>0, <1>1
  <2> HIDE DEF x, y
  <2> QED
    BY <1>0, <1>1, <1>2, <1>3, <1>4, <2>1
<1>6. z \in Nat /\ N < (z + 1) * M /\ z # 0
  BY <1>0, <1>5, NextMultiple
<1> QED
  BY <1>6

(* z is a turn from D, with the two quotients by unit that it rounds.      *)
LedBy(n, unit, Ann, D, p, S, z) ==
  \E A1, A2 \in Nat :
    /\ unit * A2 <= (Ann - unit) * D
    /\ Ann * S < unit * A1 + unit
    /\ (A1 + p * n) * D < (z + 1) * (A2 + (n + 1) * p)

LEMMA InvariantTurn ==
  ASSUME NEW xp \in Seq(Nat \ {0}), NEW n, n = Len(xp), n >= 2,
         NEW unit \in Nat \ {0}, NEW Ann \in Nat, Ann >= 2 * unit,
         NEW D \in Nat \ {0}, NEW z, z = NextD(D, xp, Ann, unit),
         NEW p, p = ProductTerm(D, xp), NEW S, S = Total(xp)
  PROVE  /\ z \in Nat \ {0} /\ p \in Nat /\ S \in Nat \ {0}
         /\ LedBy(n, unit, Ann, D, p, S, z)
<1>1. n \in Nat \ {0}
  OBVIOUS
<1>2. p \in Nat /\ (D = 1 => p = 0)
  BY ProductTermIs
<1>3. S \in Nat \ {0}
  BY <1>1, TotalIsPositive
<1> DEFINE u == Ann - unit
           AS == Ann * S
           uD == u * D
           A1 == AS \div unit
           A2 == uD \div unit
<1>4. u \in Nat /\ u >= unit
  OBVIOUS
<1>5. AS \in Nat /\ AS >= Ann
  <2>1. Ann * S >= Ann * 1
    BY <1>3
  <2> QED
    BY <1>3, <2>1
<1>6. uD \in Nat /\ uD >= unit
  <2> HIDE DEF u
  <2>1. u * D >= u * 1
    BY <1>4
  <2> QED
    BY <1>4, <2>1
<1>7. z = ((A1 + p * n) * D) \div (A2 + (n + 1) * p)
  <2>1. n * p = p * n
    BY <1>1, <1>2
  <2> QED
    BY <2>1 DEF NextD
<1>8. u = Ann - unit
  OBVIOUS
<1> DEFINE N == (A1 + p * n) * D
           M == A2 + (n + 1) * p
<1>16. z = N \div M /\ N = (A1 + p * n) * D /\ M = A2 + (n + 1) * p
  BY <1>7
<1> HIDE DEF N, M
<1> HIDE DEF u, AS, uD
<1>9. A1 \in Nat /\ AS < unit * A1 + unit
  BY <1>5, QuotientIs
<1>10. A2 \in Nat /\ unit * A2 <= uD /\ uD < unit * A2 + unit
  BY <1>6, QuotientIs
<1> HIDE DEF A1, A2
<1>11. A2 > 0
  <2>1. A2 = 0 => unit * A2 + unit = unit
    OBVIOUS
  <2> QED
    BY <1>6, <1>10, <2>1
<1>12. u <= unit * A1
  BY <1>5, <1>8, <1>9
<1>13. unit * A2 <= u * D
  BY <1>10 DEF uD
<1>14. z \in Nat \ {0} /\ N < (z + 1) * M
  <2>1. NumbersOfTurn(n, unit, D, p, u, A1, A2, N, M, z)
    BY <1>1, <1>2, <1>4, <1>16, <1>9, <1>10, <1>11, <1>12, <1>13 DEF NumbersOfTurn
  <2> QED
    BY <2>1, InvariantTurns
<1>15. unit * A2 <= (Ann - unit) * D /\ Ann * S < unit * A1 + unit
  BY <1>9, <1>10, <1>13 DEF u, AS
<1> QED
  <2>1. LedBy(n, unit, Ann, D, p, S, z)
    BY <1>9, <1>10, <1>16, <1>14, <1>15 DEF LedBy
  <2> QED
    BY <1>2, <1>3, <1>14, <2>1

LEMMA FarApart ==
  ASSUME NEW x \in Int, NEW y \in Int, ~ Distance(x, y) <= 1
  PROVE  Distance(x, y) > 1
BY DEF Distance

LEMMA InvariantEndsIn ==
  ASSUME NEW xp, NEW Ann, NEW unit, NEW D0 \in Nat \ {0}, NEW P \in SUBSET (Nat \ {0}),
         \A D \in Nat \ {0} : NextD(D, xp, Ann, unit) \in P
  PROVE  EndOfD(xp, Ann, unit, D0) \in P
<1> DEFINE K == Nat \ {0}
<1>1. K \in SUBSET Int /\ D0 \in K
  OBVIOUS
<1>2. \A D \in K : /\ NextD(D, xp, Ann, unit) \in P
                   /\ Distance(NextD(D, xp, Ann, unit), D) <= 1 => NextD(D, xp, Ann, unit) \in P
                   /\ ~ Distance(NextD(D, xp, Ann, unit), D) <= 1 =>
                          NextD(D, xp, Ann, unit) \in K /\ Distance(NextD(D, xp, Ann, unit), D) > 1
  <2>1. ASSUME NEW D \in K
        PROVE  /\ NextD(D, xp, Ann, unit) \in P /\ NextD(D, xp, Ann, unit) \in K
               /\ ~ Distance(NextD(D, xp, Ann, unit), D) <= 1 =>
                    Distance(NextD(D, xp, Ann, unit), D) > 1
    <3> DEFINE z == NextD(D, xp, Ann, unit)
    <3>0. z \in P /\ D \in Int
      OBVIOUS
    <3> HIDE DEF z
    <3>1. z \in P /\ z \in K /\ z \in Int /\ D \in Int
      BY <3>0
    <3>2. ~ Distance(z, D) <= 1 => Distance(z, D) > 1
      BY <3>1, FarApart
    <3> QED
      BY <3>1, <3>2 DEF z
  <2> HIDE DEF K
  <2> QED
    BY <2>1
<1> HIDE DEF K
<1> QED
  BY <1>1, <1>2, InvariantSettles

(* get_D comes to a number above zero, so that get_y can start from it. *)
LEMMA InvariantIsPositive ==
  ASSUME NEW xp \in Seq(Nat \ {0}), NEW n, n = Len(xp), n >= 2,
         NEW unit \in Nat \ {0}, NEW amp \in Nat, amp >= unit,
         NEW Ann, Ann = amp * n
  PROVE  /\ GetD(xp, amp, unit) \in Nat \ {0}
         /\ GetD(xp, amp, unit) = EndOfD(xp, Ann, unit, Total(xp))
         /\ Ann \in Nat \ {0} /\ Ann >= 2 * unit
<1>1. n \in Nat \ {0}
  OBVIOUS
<1>2. Ann \in Nat \ {0} /\ Ann >= 2 * unit
  <2>1. amp * n >= amp * 2
    BY <1>1
  <2>2. amp * n \in Nat
    BY <1>1
  <2> QED
    BY <2>1, <2>2
<1> DEFINE S == Total(xp)
<1>3. S \in Nat \ {0}
  BY <1>1, TotalIsPositive
<1>4. GetD(xp, amp, unit) = EndOfD(xp, Ann, unit, S)
  BY <1>3 DEF GetD, EndOfD
<1> DEFINE P == Nat \ {0}
<1>5. \A D \in Nat \ {0} : NextD(D, xp, Ann, unit) \in P
  BY <1>2, InvariantTurn
<1>6. P \in SUBSET (Nat \ {0})
  OBVIOUS
<1> HIDE DEF S, P
<1>7. EndOfD(xp, Ann, unit, S) \in P
  BY <1>3, <1>5, <1>6, InvariantEndsIn
<1> QED
  BY <1>2, <1>4, <1>7 DEF P, S

LEMMA ChangedIsBalances ==
  ASSUME NEW xp \in Seq(Nat \ {0}), NEW i \in 1 .. Len(xp), NEW x \in Nat \ {0}
  PROVE  With(xp, i, x) \in Seq(Nat \ {0}) /\ Len(With(xp, i, x)) = Len(xp)
<1>1. Len(xp) \in Nat /\ \A k \in 1 .. Len(xp) : xp[k] \in Nat \ {0}
  OBVIOUS
<1>2. \A k \in 1 .. Len(xp) : (IF k = i THEN x ELSE xp[k]) \in Nat \ {0}
  BY <1>1
<1> QED
  BY <1>1, <1>2 DEF With

(***************************************************************************)
(* What get_y gives for a pool with coin i at x: with the D that get_D     *)
(* came to, whether that had settled or not, y + 1 is above the root of    *)
(* its equation, and y is not beyond it by more than a turn rounds, unless *)
(* no turn of all MaxTurns settled.                                        *)
(***************************************************************************)
THEOREM NewBalanceIsTheRoot ==
  ASSUME NEW xp \in Seq(Nat \ {0}), Len(xp) >= 2,
         NEW i \in 1 .. Len(xp), NEW j \in 1 .. Len(xp), NEW x \in Nat \ {0},
         NEW unit \in Nat \ {0}, NEW amp \in Nat, amp >= unit,
         NEW D, D = GetD(xp, amp, unit),
         NEW b, b = LinearTerm(j, With(xp, i, x), D, amp * Len(xp), unit),
         NEW c, c = ConstantTerm(j, With(xp, i, x), D, amp * Len(xp), unit),
         NEW y, y = GetY(amp, i, j, x, xp, unit)
  PROVE  /\ y \in Nat
         /\ c < (y + 1) * (y + 1 + (b - D))
         /\ \/ y * (y + (b - D)) <= c + 1
            \/ Restless(TurnsOfY(b, c, D), MaxTurns, D)
<1> DEFINE new == With(xp, i, x)
           Ann == amp * Len(xp)
           n == Len(xp)
<1>1. new \in Seq(Nat \ {0}) /\ j \in 1 .. Len(new)
  BY ChangedIsBalances
<1>2. D \in Nat \ {0} /\ Ann \in Nat \ {0}
  <2>1. n = Len(xp) /\ n >= 2 /\ Ann = amp * n
    OBVIOUS
  <2> HIDE DEF n, Ann
  <2> QED
    BY <2>1, InvariantIsPositive
<1>3. y = BalanceFor(j, new, D, Ann, unit)
  BY DEF GetY
<1>4. b = LinearTerm(j, new, D, Ann, unit) /\ c = ConstantTerm(j, new, D, Ann, unit)
  OBVIOUS
<1>5. unit \in Nat
  OBVIOUS
<1> HIDE DEF new, Ann
<1> QED
  BY <1>1, <1>2, <1>3, <1>4, <1>5, BalanceIsTheRoot

LEMMA TwoFolds ==
  ASSUME NEW kind, NEW D, NEW n, NEW base, NEW a, NEW b
  PROVE  FoldOf(kind, D, n, base, <<a, b>>)
           = Folded(kind, D, n, Folded(kind, D, n, base, a), b)
<1> DEFINE xp == <<a, b>>
<1>1. DOMAIN xp = 1 .. 2 /\ xp[1] = a /\ xp[2] = b /\ 2 \in Nat
  OBVIOUS
<1> HIDE DEF xp
<1>2. PICK f : CoinByCoin(f, kind, D, n, base, xp, 2)
  BY <1>1, FoldStepwise
<1>3. /\ f[0] = base /\ f[2] = FoldOf(kind, D, n, base, xp)
      /\ \A m \in 0 .. 1 : f[m + 1] = Folded(kind, D, n, f[m], xp[m + 1])
  BY <1>2 DEF CoinByCoin
<1>4. f[1] = Folded(kind, D, n, base, a) /\ f[2] = Folded(kind, D, n, f[1], b)
  BY <1>1, <1>3
<1> QED
  BY <1>3, <1>4 DEF xp

(* The product of two coins with the product term is no more than D^3.     *)
LEMMA ProductOfTwo ==
  ASSUME NEW a \in Nat \ {0}, NEW b \in Nat \ {0}, NEW D \in Nat \ {0},
         NEW p, p = ProductTerm(D, <<a, b>>), NEW K, K = 4 * (a * b)
  PROVE  p \in Nat /\ p * K <= D * D * D
<1> DEFINE q == (D * D) \div (a * 2)
           dd == D * D
           e == a * 2
           g == b * 2
<1>1. p = (q * D) \div (b * 2)
  <2>1. Len(<<a, b>>) = 2
    OBVIOUS
  <2>2. p = FoldOf(1, D, 2, D, <<a, b>>)
    BY <2>1, ProductTermFolds
  <2> QED
    BY <2>2, TwoFolds DEF Folded
<1>2. dd \in Nat /\ e \in Nat \ {0} /\ g \in Nat \ {0} /\ q = dd \div e
  OBVIOUS
<1> HIDE DEF dd, e, g, q
<1>3. q \in Nat /\ e * q <= dd
  BY <1>2, QuotientIs
<1> DEFINE h == q * D
<1>4. h \in Nat /\ p = h \div g
  BY <1>1, <1>3 DEF g
<1> HIDE DEF h
<1>5. p \in Nat /\ g * p <= h
  BY <1>2, <1>4, QuotientIs
<1>6. e * (g * p) <= e * h
  <2> DEFINE r == g * p
  <2>1. r \in Nat /\ r <= h
    BY <1>2, <1>5
  <2> HIDE DEF r
  <2>2. e * r <= e * h
    BY <1>2, <1>4, <2>1
  <2> QED
    BY <2>2 DEF r
<1>7. (e * q) * D <= dd * D
  <2> DEFINE r == e * q
  <2>1. r \in Nat /\ r <= dd
    BY <1>2, <1>3
  <2> HIDE DEF r
  <2>2. r * D <= dd * D
    BY <1>2, <2>1
  <2> QED
    BY <2>2 DEF r
<1>8. e * h = (e * q) * D
  BY <1>2, <1>3 DEF h
<1>9. p * K = e * (g * p) /\ dd * D = D * D * D
  BY <1>5 DEF e, g, dd
<1> DEFINE A == p * K
           B == e * (g * p)
           C == e * h
           E == dd * D
<1>10. A \in Int /\ B \in Int /\ C \in Int /\ E \in Int
  BY <1>2, <1>4, <1>5
<1>11. A = B /\ B <= C /\ C <= E
  BY <1>6, <1>7, <1>8, <1>9
<1>12. E = D * D * D
  BY <1>9
<1> HIDE DEF A, B, C, E
<1>13. A <= E
  BY <1>10, <1>11
<1> QED
  BY <1>5, <1>12, <1>13 DEF A

(* (w - D)^2 (w + 2 D), which is never below zero.                         *)
LEMMA CubesMeet ==
  ASSUME NEW w \in Nat, NEW D \in Nat
  PROVE  (D * D) * (3 * w) <= w * w * w + 2 * (D * D * D)
<1> DEFINE v == w - D
           x == v * v
           y == w + 2 * D
<1>1. x \in Nat /\ y \in Nat
  <2>1. v \in Int
    OBVIOUS
  <2> HIDE DEF v
  <2>2. v * v >= 0 /\ v * v \in Int
    BY <2>1
  <2> QED
    BY <2>2
<1>2. x * y >= 0
  <2> HIDE DEF x, y
  <2> QED
    BY <1>1
<1>3. x = w * w - 2 * (w * D) + D * D
  OBVIOUS
<1>4. x * y = w * w * w + 2 * (D * D * D) - (D * D) * (3 * w)
  BY <1>3
<1> DEFINE xy == x * y
           A == w * w * w
           B == D * D * D
           C == (D * D) * (3 * w)
<1>5. xy \in Int /\ A \in Int /\ B \in Int /\ C \in Int /\ xy >= 0 /\ xy = A + 2 * B - C
  BY <1>1, <1>2, <1>4
<1> HIDE DEF xy, A, B, C
<1>6. C <= A + 2 * B
  BY <1>5
<1> QED
  BY <1>6 DEF A, B, C

LEMMA Scales ==
  ASSUME NEW k \in Nat \ {0}, NEW x \in Int, NEW y \in Int
  PROVE  /\ x < y => k * x < k * y
         /\ x <= y => k * x <= k * y
         /\ k * x < k * y => x < y
OBVIOUS

LEMMA WeaklyScales ==
  ASSUME NEW k \in Nat, NEW x \in Int, NEW y \in Int, x <= y
  PROVE  k * x <= k * y
OBVIOUS

LEMMA TwoCoinTurn ==
  ASSUME NEW U \in Nat \ {0}, NEW u \in Nat, NEW G \in Int, NEW D \in Nat \ {0},
         NEW K \in Nat \ {0}, NEW p \in Nat, p * K <= D * D * D,
         NEW A1 \in Nat, NEW A2 \in Nat, U * A2 <= u * D, G <= U * A1,
         NEW w \in Nat, (A1 + p * 2) * D < w * (A2 + 3 * p)
  PROVE  G * K < (u * w) * K + U * (w * w * w)
<1> DEFINE h == U * p
           X == u * w - G
<1>1. h \in Nat /\ X \in Int
  OBVIOUS
<1>2. G * D + 2 * (h * D) < (u * w) * D + 3 * (h * w)
  <2>1. U * ((A1 + p * 2) * D) < U * (w * (A2 + 3 * p))
    <3> DEFINE x == (A1 + p * 2) * D
               y == w * (A2 + 3 * p)
    <3>1. x \in Int /\ y \in Int /\ x < y
      OBVIOUS
    <3> HIDE DEF x, y
    <3>2. U * x < U * y
      BY <3>1, Scales
    <3> QED
      BY <3>2 DEF x, y
  <2>2. U * ((A1 + p * 2) * D) = (U * A1) * D + 2 * (h * D)
    OBVIOUS
  <2>3. U * (w * (A2 + 3 * p)) = w * (U * A2) + 3 * (h * w)
    OBVIOUS
  <2>4. G * D <= (U * A1) * D
    <3> DEFINE x == U * A1
    <3>1. x \in Int /\ G <= x
      OBVIOUS
    <3> HIDE DEF x
    <3>2. G * D <= x * D
      BY <3>1
    <3> QED
      BY <3>2 DEF x
  <2>5. w * (U * A2) <= (u * w) * D
    <3> DEFINE x == U * A2
               y == u * D
    <3>1. x \in Int /\ y \in Int /\ x <= y /\ w * y = (u * w) * D
      OBVIOUS
    <3> HIDE DEF x, y
    <3>2. w * x <= w * y
      BY <3>1, WeaklyScales
    <3> QED
      BY <3>1, <3>2 DEF x
  <2> DEFINE a == U * ((A1 + p * 2) * D)
             b == U * (w * (A2 + 3 * p))
             c == (U * A1) * D
             d == w * (U * A2)
             e == G * D
             f == (u * w) * D
             i == h * D
             j == h * w
  <2>6. /\ a \in Int /\ b \in Int /\ c \in Int /\ d \in Int
        /\ e \in Int /\ f \in Int /\ i \in Int /\ j \in Int
    OBVIOUS
  <2>7. a < b /\ a = c + 2 * i /\ b = d + 3 * j /\ e <= c /\ d <= f
    BY <2>1, <2>2, <2>3, <2>4, <2>5
  <2> HIDE DEF a, b, c, d, e, f, i, j
  <2>8. e + 2 * i < f + 3 * j
    BY <2>6, <2>7
  <2> QED
    BY <2>8 DEF e, f, i, j
<1> DEFINE t == 3 * w - 2 * D
<1>3. 0 < D * X + h * t
  <2>1. D * X = (u * w) * D - G * D
    OBVIOUS
  <2>2. h * t = 3 * (h * w) - 2 * (h * D)
    <3> HIDE DEF h
    <3> QED
      BY <1>1
  <2> DEFINE e == G * D
             f == (u * w) * D
             i == h * D
             j == h * w
             x == D * X
             y == h * t
  <2>3. e \in Int /\ f \in Int /\ i \in Int /\ j \in Int
    OBVIOUS
  <2>4. e + 2 * i < f + 3 * j /\ x = f - e /\ y = 3 * j - 2 * i
    BY <1>2, <2>1, <2>2
  <2> HIDE DEF e, f, i, j, x, y
  <2>5. 0 < x + y
    BY <2>3, <2>4
  <2> QED
    BY <2>5 DEF x, y
<1> DEFINE www == w * w * w
           XK == X * K
<1>4. www \in Nat /\ XK \in Int
  <2>1. w * w \in Nat
    OBVIOUS
  <2> HIDE DEF X
  <2> QED
    BY <1>1, <2>1
<1>5. 0 < XK + U * www
  <2>1. CASE t <= 0
    <3>1. h * t <= 0
      <4> HIDE DEF h, t
      <4>1. t \in Int
        BY DEF t
      <4> QED
        BY <1>1, <2>1, <4>1
    <3>2. 0 < X
      <4> DEFINE x == D * X
                 y == h * t
      <4>1. x \in Int /\ y \in Int /\ y <= 0 /\ 0 < x + y
        BY <1>1, <1>3, <3>1
      <4> HIDE DEF y
      <4>2. 0 < x
        BY <4>1
      <4>3. D * 0 < D * X
        BY <4>2
      <4> HIDE DEF X
      <4> QED
        BY <1>1, <4>3, Scales
    <3>3. 0 < XK
      <4> HIDE DEF X
      <4> QED
        BY <1>1, <3>2
    <3> HIDE DEF www, XK
    <3>4. 0 <= U * www /\ U * www \in Int
      BY <1>4
    <3> QED
      BY <1>4, <3>3, <3>4
  <2>2. CASE ~ t <= 0
    <3> DEFINE DDD == D * D * D
               DD == D * D
               hK == h * K
               y == DD * t
    <3>1. t \in Nat /\ DD \in Nat /\ DDD \in Nat /\ hK \in Nat /\ y \in Nat
      <4>1. t \in Nat /\ DD \in Nat
        BY <2>2
      <4> HIDE DEF t, DD
      <4>2. DD * D \in Nat /\ DD * t \in Nat
        BY <4>1
      <4> HIDE DEF h
      <4>3. h * K \in Nat
        BY <1>1
      <4> QED
        BY <4>1, <4>2, <4>3 DEF DD
    <3>2. hK <= U * DDD
      <4> DEFINE pK == p * K
      <4>1. pK \in Nat /\ pK <= DDD /\ hK = U * pK
        OBVIOUS
      <4> HIDE DEF pK, DDD, hK
      <4> QED
        BY <3>1, <4>1, WeaklyScales
    <3>3. 0 < D * XK + hK * t
      <4>1. K * (D * X + h * t) = D * XK + hK * t
        <5> HIDE DEF X, h, t
        <5> QED
          BY <1>1, <3>1
      <4>2. 0 < K * (D * X + h * t)
        <5> DEFINE x == D * X + h * t
        <5>1. x \in Int /\ 0 < x
          BY <1>1, <1>3, <3>1
        <5> HIDE DEF x
        <5>2. 0 < K * x
          BY <5>1
        <5> QED
          BY <5>2 DEF x
      <4> QED
        BY <4>1, <4>2
    <3>4. hK * t <= D * (U * y)
      <4>1. hK * t <= (U * DDD) * t
        <5> DEFINE x == U * DDD
        <5>1. x \in Nat /\ hK <= x
          BY <3>1, <3>2
        <5> HIDE DEF x, hK, t
        <5>2. hK * t <= x * t
          BY <3>1, <5>1
        <5> QED
          BY <5>2 DEF x
      <4>2. (U * DDD) * t = D * (U * y)
        <5> HIDE DEF t
        <5> QED
          BY <3>1
      <4> QED
        BY <4>1, <4>2
    <3>5. 0 < XK + U * y
      <4> DEFINE a == D * XK
                 b == hK * t
                 c == D * (U * y)
                 x == XK + U * y
      <4>1. a \in Int /\ b \in Int /\ c \in Int /\ x \in Int /\ a + c = D * x
        <5> HIDE DEF XK, y, hK, t
        <5> QED
          BY <1>4, <3>1
      <4>2. 0 < a + b /\ b <= c
        BY <3>3, <3>4
      <4> HIDE DEF a, b, c, x
      <4>3. 0 < D * x
        BY <4>1, <4>2
      <4>4. D * 0 < D * x
        BY <4>3
      <4>5. 0 < x
        BY <4>1, <4>4, Scales
      <4> QED
        BY <4>5 DEF x
    <3>6. y <= www
      <4>1. DD * (3 * w) <= www + 2 * DDD
        BY CubesMeet
      <4>2. y = DD * (3 * w) - 2 * DDD
        OBVIOUS
      <4> DEFINE x == DD * (3 * w)
      <4>3. x \in Int
        BY <3>1
      <4> HIDE DEF x, DDD, www, y
      <4> QED
        BY <1>4, <3>1, <4>1, <4>2, <4>3 DEF x
    <3>7. U * y <= U * www
      <4> HIDE DEF y, www
      <4> QED
        BY <1>4, <3>1, <3>6, WeaklyScales
    <3> DEFINE a == U * y
               b == U * www
    <3>8. a \in Int /\ b \in Int
      <4> HIDE DEF y, www
      <4> QED
        BY <1>4, <3>1
    <3> HIDE DEF a, b, XK
    <3>9. a <= b /\ 0 < XK + a
      BY <3>5, <3>7 DEF a, b
    <3>10. 0 < XK + b
      BY <1>4, <3>8, <3>9
    <3> QED
      BY <3>10 DEF b
  <2> QED
    BY <2>1, <2>2
<1>6. XK = (u * w) * K - G * K
  OBVIOUS
<1> DEFINE a == (u * w) * K
           b == G * K
           c == U * www
<1>7. a \in Int /\ b \in Int /\ c \in Int
  <2> HIDE DEF www
  <2> QED
    BY <1>4
<1>8. 0 < XK + c /\ XK = a - b
  BY <1>5, <1>6
<1> HIDE DEF a, b, c, XK
<1>9. b < a + c
  BY <1>4, <1>7, <1>8
<1> QED
  BY <1>9 DEF a, b, c

LEMMA TotalOfTwo ==
  ASSUME NEW a \in Nat, NEW b \in Nat
  PROVE  Total(<<a, b>>) = a + b
<1>1. Total(<<a, b>>) = FoldOf(0, 0, 0, 0, <<a, b>>)
  BY TotalIs
<1>2. FoldOf(0, 0, 0, 0, <<a, b>>) = Folded(0, 0, 0, Folded(0, 0, 0, 0, a), b)
  BY TwoFolds
<1>3. Folded(0, 0, 0, Folded(0, 0, 0, 0, a), b) = a + b
  BY DEF Folded
<1> QED
  BY <1>1, <1>2, <1>3

(* Of two coins, with unit the unit of the amplification: the number w is  *)
(* above the D at which Ann S + D = Ann D + D^3 / (4 a b).                 *)
AboveTheInvariant(w, a, b, Ann, unit) ==
  (Ann * (a + b) - unit + 1) * (4 * (a * b))
    < ((Ann - unit) * w) * (4 * (a * b)) + unit * (w * w * w)

(***************************************************************************)
(* For two coins, what get_D comes to is not below the invariant of the    *)
(* balances by one or more, however many turns it took and whether it      *)
(* settled or not: the numbers below the root rise above it in one turn,   *)
(* and those above it never fall further than a turn rounds.               *)
(***************************************************************************)
THEOREM InvariantIsNoLower ==
  ASSUME NEW a \in Nat \ {0}, NEW b \in Nat \ {0},
         NEW unit \in Nat \ {0}, NEW amp \in Nat, amp >= unit,
         NEW D, D = GetD(<<a, b>>, amp, unit)
  PROVE  D \in Nat \ {0} /\ AboveTheInvariant(D + 1, a, b, amp * 2, unit)
<1> DEFINE xp == <<a, b>>
           Ann == amp * Len(xp)
           P == {z \in Nat \ {0} : AboveTheInvariant(z + 1, a, b, Ann, unit)}
           K == 4 * (a * b)
<1>1. xp \in Seq(Nat \ {0}) /\ Len(xp) = 2
  OBVIOUS
<1>2. Ann = amp * 2 /\ Ann \in Nat /\ Ann >= 2 * unit
  OBVIOUS
<1>3. Total(xp) = a + b /\ a + b \in Nat \ {0}
  BY TotalOfTwo
<1>10. D = EndOfD(xp, Ann, unit, Total(xp))
  <2>1. D = GetD(xp, amp, unit) /\ Total(xp) # 0
    BY <1>3
  <2> QED
    BY <2>1 DEF GetD, EndOfD
<1>4. K \in Nat \ {0}
  <2>1. a * b \in Nat \ {0}
    OBVIOUS
  <2> QED
    BY <2>1
<1>5. ASSUME NEW d \in Nat \ {0}
      PROVE  NextD(d, xp, Ann, unit) \in P
  <2> DEFINE z == NextD(d, xp, Ann, unit)
             p == ProductTerm(d, xp)
             S == Total(xp)
             u == Ann - unit
             G == Ann * S - unit + 1
             w == z + 1
  <2>1. z = NextD(d, xp, Ann, unit) /\ p = ProductTerm(d, xp) /\ S = Total(xp)
    OBVIOUS
  <2> HIDE DEF z, p, S
  <2>2. z \in Nat \ {0} /\ p \in Nat /\ S \in Nat \ {0} /\ LedBy(2, unit, Ann, d, p, S, z)
    <3> DEFINE n == 2
    <3>1. n = Len(xp) /\ n >= 2
      BY <1>1
    <3> HIDE DEF n, xp, Ann
    <3>2. z \in Nat \ {0} /\ p \in Nat /\ S \in Nat \ {0} /\ LedBy(n, unit, Ann, d, p, S, z)
      BY <1>1, <1>2, <2>1, <3>1, InvariantTurn
    <3> QED
      BY <3>2 DEF n
  <2>3. PICK A1 \in Nat, A2 \in Nat :
          /\ unit * A2 <= (Ann - unit) * d
          /\ Ann * S < unit * A1 + unit
          /\ (A1 + p * 2) * d < (z + 1) * (A2 + (2 + 1) * p)
    BY <2>2 DEF LedBy
  <2>4. p * K <= d * d * d
    <3>1. p = ProductTerm(d, <<a, b>>) /\ K = 4 * (a * b)
      BY <2>1
    <3> HIDE DEF K
    <3> QED
      BY <3>1, ProductOfTwo
  <2>5. u \in Nat /\ G \in Int /\ w \in Nat
    BY <1>2, <2>2
  <2>6. unit * A2 <= u * d /\ (A1 + p * 2) * d < w * (A2 + 3 * p)
    BY <2>3
  <2>7. G <= unit * A1
    <3> DEFINE x == unit * A1
               y == Ann * S
    <3>1. x \in Int /\ y \in Int /\ y < x + unit /\ G = y - unit + 1
      BY <1>2, <2>2, <2>3
    <3> HIDE DEF x, y, G
    <3>2. G <= x
      BY <3>1
    <3> QED
      BY <3>2 DEF x
  <2> HIDE DEF u, G, w, K
  <2>8. G * K < (u * w) * K + unit * (w * w * w)
    BY <1>4, <2>2, <2>4, <2>5, <2>6, <2>7, TwoCoinTurn
  <2>9. AboveTheInvariant(z + 1, a, b, Ann, unit)
    <3>1. S = a + b
      BY <1>3, <2>1
    <3> HIDE DEF Ann
    <3> QED
      BY <2>8, <3>1 DEF AboveTheInvariant, G, u, w, K
  <2> QED
    BY <2>1, <2>2, <2>9
<1>6. P \in SUBSET (Nat \ {0})
  OBVIOUS
<1> DEFINE S == Total(xp)
<1>7. S \in Nat \ {0}
  BY <1>3
<1> HIDE DEF P, xp, Ann, S
<1>8. EndOfD(xp, Ann, unit, S) \in P
  BY <1>5, <1>6, <1>7, InvariantEndsIn
<1>9. D \in Nat \ {0} /\ AboveTheInvariant(D + 1, a, b, Ann, unit)
  BY <1>10, <1>8 DEF P, S
<1> QED
  BY <1>2, <1>9
=============================================================================
