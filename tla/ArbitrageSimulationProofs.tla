----------------------- MODULE ArbitrageSimulationProofs -----------------------
(***************************************************************************)
(* Theorems about ArbitrageSimulation, for any number of paths and         *)
(* amounts, any gains and any deployment, with and without torn calls.     *)
(***************************************************************************)
EXTENDS ArbitrageSimulation, ForkEvmProofs

InProbe == {"revert", "victim", "fund", "arbitrage", "record"}

(* Types, a fork that revert can bring back, and a probe of this search.   *)
BaseInv == TypeOK /\ EvmInv /\ path \in Paths

LEMMA BaseInvInit == Init => BaseInv
<1> SUFFICES ASSUME Init PROVE BaseInv
  OBVIOUS
<1>1. EvmInv
  BY EvmInvInit DEF Init
<1>2. TypeOK
  BY <1>1, SimulationAssumption DEF Init, TypeOK, EvmInv, Nothing, Counts
<1>3. path \in Paths
  BY SimulationAssumption DEF Init, Paths
<1> QED
  BY <1>1, <1>2, <1>3 DEF BaseInv

(* What a call of the probe, counted, uncounted or torn, leaves.           *)
LEMMA CallInv ==
  ASSUME BaseInv, NEW kind \in Kinds,
         \/ CountedCall(<<Probe, kind>>)
         \/ UncountedCall(<<Probe, kind>>)
         \/ TornCall(<<Probe, kind>>)
  PROVE  EvmInv'
<1>1. EvmInv /\ commitCount \in Nat
  BY DEF BaseInv, EvmInv, EvmTypeOK
<1>2. Probe \in Paths \X Counts
  BY DEF BaseInv, TypeOK, Probe
<1>3. <<Probe, kind>> \in Effects \ Deployment
  BY <1>2, SimulationAssumption
<1>4. commitCount' \in Nat
  BY <1>1 DEF CountedCall, UncountedCall, TornCall, CountIncreased
<1> QED
  BY <1>1, <1>3, <1>4, PerformInv DEF CountedCall, UncountedCall, TornCall, Perform

LEMMA BaseInvNext == BaseInv /\ [Next]_vars => BaseInv'
<1> SUFFICES ASSUME BaseInv, [Next]_vars PROVE BaseInv'
  OBVIOUS
<1> USE SimulationAssumption DEF At, Goto
<1>0. TypeOK /\ EvmInv /\ path \in Paths /\ (EvmInv' => EvmTypeOK')
  BY DEF BaseInv, EvmInv
<1>1. CASE StartSimulation
  <2>1. EvmInv'
    BY <1>0, <1>1, RevertInv DEF StartSimulation
  <2> QED
    BY <1>0, <1>1, <2>1 DEF StartSimulation, BaseInv, TypeOK, Nothing, Counts
<1>2. CASE BeginProbe
  <2>1. EvmInv'
    BY <1>0, <1>2, RevertInv DEF BeginProbe
  <2> QED
    BY <1>0, <1>2, <2>1 DEF BeginProbe, BaseInv, TypeOK
<1>3. CASE VictimCall
  <2>1. EvmInv'
    BY <1>3, CallInv DEF VictimCall, Kinds
  <2> QED
    BY <1>0, <1>3, <2>1 DEF VictimCall, BaseInv, TypeOK
<1>4. CASE Fund
  <2>1. EvmInv'
    BY <1>4, CallInv DEF Fund, Kinds
  <2> QED
    BY <1>0, <1>4, <2>1 DEF Fund, BaseInv, TypeOK
<1>5. CASE Arbitrage
  <2>1. EvmInv'
    BY <1>5, CallInv DEF Arbitrage, Kinds
  <2>2. amountOut' \in Int /\ pc' \in {"next", "record"}
    <3>1. amountOut \in Int
      BY <1>0 DEF TypeOK
    <3>2. CASE count = 0
      BY <1>5, <3>1, <3>2 DEF Arbitrage
    <3>3. CASE count # 0
      <4>1. amountOut' \in Gains \union {0} /\ pc' = "record"
        BY <1>5, <3>3 DEF Arbitrage
      <4>2. Gains \subseteq Int
        BY SimulationAssumption
      <4> QED
        BY <4>1, <4>2
    <3> QED
      BY <3>2, <3>3
  <2> QED
    BY <1>0, <1>5, <2>1, <2>2 DEF Arbitrage, BaseInv, TypeOK
<1>6. ASSUME NEW kind \in Kinds, CallRaises(kind) PROVE BaseInv'
  <2>1. EvmInv'
    BY <1>0, <1>6, CallInv, UnchangedFork DEF CallRaises, FailedCall
  <2>2. amountOut' \in Int /\ pc' \in {"report", "record"}
    BY <1>6 DEF CallRaises, ProbeFails
  <2> QED
    BY <1>0, <1>6, <2>1, <2>2 DEF CallRaises, BaseInv, TypeOK
<1>7. CASE RecordGas
  <2>1. EvmInv'
    BY <1>0, <1>7, UnchangedFork DEF RecordGas
  <2>2. gas' \in Counts
    BY <1>0, <1>7 DEF RecordGas, TypeOK
  <2> QED
    BY <1>0, <1>7, <2>1, <2>2 DEF RecordGas, BaseInv, TypeOK
<1>8. CASE NextAmount
  <2>1. EvmInv'
    BY <1>0, <1>8, UnchangedFork DEF NextAmount
  <2>2. count' \in Counts
    BY <1>0, <1>8 DEF NextAmount, Exhausted, TypeOK, Counts
  <2>3. best' \in [revenue: Int, amount: Counts]
    BY <1>0, <1>8 DEF NextAmount, TypeOK
  <2>4. pc' \in {"revert", "report"}
    BY <1>8 DEF NextAmount
  <2> QED
    BY <1>0, <1>8, <2>1, <2>2, <2>3, <2>4 DEF NextAmount, BaseInv, TypeOK
<1>9. CASE Judge
  <2>1. EvmInv'
    BY <1>0, <1>9, UnchangedFork DEF Judge
  <2>2. path' \in Paths /\ path' \in Nat
    BY <1>0, <1>9 DEF Judge, Paths
  <2>3. attack' \in [amount: Counts, gas: Counts] \union {None}
    BY <1>0, <1>9 DEF Judge, TypeOK
  <2>4. pc' \in {"done", "raised", "simulate"}
    BY <1>9 DEF Judge
  <2> QED
    BY <1>0, <1>9, <2>1, <2>2, <2>3, <2>4 DEF Judge, BaseInv, TypeOK
<1>10. CASE UNCHANGED vars
  <2>1. EvmInv'
    BY <1>0, <1>10, UnchangedFork DEF vars
  <2> QED
    BY <1>0, <1>10, <2>1 DEF vars, searchVars, BaseInv, TypeOK
<1> QED
  BY <1>1, <1>2, <1>3, <1>4, <1>5, <1>6, <1>7, <1>8, <1>9, <1>10 DEF Next, Step, Ended

LEMMA BaseInvariant == Spec => []BaseInv
  BY BaseInvInit, BaseInvNext, PTL DEF Spec

(* The search's variables and the fork's keep their types.                 *)
THEOREM ArbitrageTypeCorrect == Spec => []TypeOK
<1>1. BaseInv => TypeOK
  BY DEF BaseInv
<1> QED
  BY <1>1, BaseInvariant, PTL

-----------------------------------------------------------------------------
(* Isolation, until the node behind the fork fails in mid-call.            *)

Store == IF Untorn THEN state \ Deployment ELSE {}

ProbeCalls(kinds) == {<<Probe, kind>> : kind \in kinds}

(***************************************************************************)
(* What the fork shows at every place.  That a transfer is not counted     *)
(* does no harm because of the second line: with nothing counted there is  *)
(* nothing to take back, since the victim, which is, always comes first.   *)
(***************************************************************************)
Content ==
  Untorn =>
    /\ pc = "victim" => commitCount = 0
    /\ commitCount = 0 => state = Deployment
    /\ pc = "fund" => commitCount > 0 /\ state = Deployment \union ProbeCalls({"victim"})
    /\ pc = "arbitrage" =>
         /\ commitCount > 0
         /\ \/ state = Deployment \union ProbeCalls({"victim"})
            \/ state = Deployment \union ProbeCalls({"victim", "fund"})

LEMMA ContentInit == Init => Content
BY DEF Init, EvmInit, Content

(* A torn call is not forgotten: what came before it was untorn.           *)
LEMMA DepthGrows ==
  ASSUME BaseInv, [Next]_vars
  PROVE  Untorn' => Untorn /\ depth' = depth
<1>1. EvmInv /\ depth \in Nat /\ depth > 0
  BY DEF BaseInv, EvmInv, EvmTypeOK
<1>2. ASSUME Revert PROVE depth' = depth
  BY <1>1, <1>2, RevertInv
<1>3. ASSUME NEW e, TornCall(e) PROVE depth' = depth + 1
  BY <1>3 DEF TornCall
<1>4. ASSUME NEW e, CountedCall(e) \/ UncountedCall(e) PROVE depth' = depth
  BY <1>4 DEF CountedCall, UncountedCall, Perform
<1>5. ASSUME UNCHANGED evmVars PROVE depth' = depth
  BY <1>5 DEF evmVars
<1>6. depth' = depth \/ depth' = depth + 1
  BY <1>2, <1>3, <1>4, <1>5
  DEF Next, Step, Ended, vars, StartSimulation, BeginProbe, VictimCall, Fund, Arbitrage,
      CallRaises, FailedCall, RecordGas, NextAmount, Judge
<1> QED
  BY <1>1, <1>6 DEF Untorn

(* A call of the probe, made after those it may find made.                 *)
LEMMA CallIsApplied ==
  ASSUME BaseInv, Untorn, Untorn', NEW call \in Kinds, NEW made \in CallOrder[call],
         state = Deployment \union ProbeCalls(made),
         state' = state \union {<<Probe, call>>}
  PROVE  /\ state' = Deployment \union ProbeCalls(made \union {call})
         /\ Copies!Next
<1>1. Probe \in Paths \X Counts
  BY DEF BaseInv, TypeOK, Probe
<1>2. made \subseteq Kinds
  BY DEF CallOrder, Kinds
<1>3. <<Probe, call>> \notin Deployment /\ ProbeCalls(made) \intersect Deployment = {}
  BY <1>1, <1>2, SimulationAssumption DEF ProbeCalls
<1>4. state \ Deployment = {<<Probe, c>> : c \in made}
  BY <1>3 DEF ProbeCalls
<1>5. state' \ Deployment = (state \ Deployment) \union {<<Probe, call>>}
  BY <1>3
<1>6. Copies!Apply(Probe, call)
  BY <1>4, <1>5 DEF Copies!Apply
<1>7. Copies!Next
  BY <1>1, <1>6 DEF Copies!Next
<1> QED
  BY <1>7 DEF ProbeCalls

LEMMA UntornNext ==
  ASSUME BaseInv, Content, [Next]_vars, Untorn, Untorn'
  PROVE  Content' /\ [Copies!Next]_Store
<1> USE DEF At, Goto
<1>0. EvmInv /\ commitCount \in Nat /\ depth' = depth /\ depth \in Nat /\ funds \in BOOLEAN
  BY DepthGrows DEF BaseInv, EvmInv, EvmTypeOK, TypeOK
<1>1. ASSUME Revert, pc' = "victim"
      PROVE Content' /\ [Copies!Next]_Store
  <2>1. commitCount' = 0 /\ state' = Deployment
    BY <1>0, <1>1, RevertInv DEF Content
  <2>2. Copies!Discard
    BY <2>1 DEF Copies!Discard
  <2> QED
    BY <1>1, <2>1, <2>2 DEF Content, Copies!Next
<1>2. ASSUME UNCHANGED <<state, commitCount>>, pc' \notin {"victim", "fund", "arbitrage"}
      PROVE Content' /\ [Copies!Next]_Store
  BY <1>2 DEF Content, Store
<1>3. CASE StartSimulation \/ BeginProbe
  BY <1>1, <1>3 DEF StartSimulation, BeginProbe
<1>4. CASE VictimCall
  <2>1. /\ commitCount' > 0 /\ state' = state \union {<<Probe, "victim">>}
        /\ pc' \in {"fund", "arbitrage"} /\ Probe' = Probe
    BY <1>0, <1>4 DEF VictimCall, CountedCall, CountIncreased, Perform, Probe
  <2>2. state = Deployment \union ProbeCalls({})
    BY <1>4 DEF VictimCall, Content, ProbeCalls
  <2>3. {} \in CallOrder["victim"] /\ "victim" \in Kinds /\ {} \union {"victim"} = {"victim"}
    BY DEF CallOrder, Kinds
  <2>4. Copies!Next /\ state' = Deployment \union ProbeCalls({"victim"})
    BY <2>1, <2>2, <2>3, CallIsApplied
  <2> QED
    BY <2>1, <2>4 DEF Content, ProbeCalls
<1>5. CASE Fund
  <2>1. /\ commitCount' > 0 /\ state' = state \union {<<Probe, "fund">>}
        /\ pc' = "arbitrage" /\ Probe' = Probe
    BY <1>5 DEF Fund, UncountedCall, Perform, Probe, Content
  <2>2. state = Deployment \union ProbeCalls({"victim"})
    BY <1>5 DEF Fund, Content
  <2>3. /\ {"victim"} \in CallOrder["fund"] /\ "fund" \in Kinds
        /\ {"victim"} \union {"fund"} = {"victim", "fund"}
    BY DEF CallOrder, Kinds
  <2>4. Copies!Next /\ state' = Deployment \union ProbeCalls({"victim", "fund"})
    BY <2>1, <2>2, <2>3, CallIsApplied
  <2> QED
    BY <2>1, <2>4 DEF Content, ProbeCalls
<1>6. CASE Arbitrage
  <2>1. /\ commitCount' > 0 /\ state' = state \union {<<Probe, "arbitrage">>}
        /\ pc' \in {"next", "record"}
    BY <1>0, <1>6 DEF Arbitrage, CountedCall, CountIncreased, Perform
  <2>2. /\ CallOrder["arbitrage"] = {{"victim"}, {"victim", "fund"}}
        /\ "arbitrage" \in Kinds
    BY DEF CallOrder, Kinds
  <2>3. \E made \in CallOrder["arbitrage"] : state = Deployment \union ProbeCalls(made)
    BY <1>6, <2>2 DEF Arbitrage, Content
  <2>4. Copies!Next
    BY <2>1, <2>2, <2>3, CallIsApplied
  <2> QED
    BY <2>1, <2>4 DEF Content
<1>7. ASSUME NEW kind \in Kinds, CallRaises(kind)
      PROVE Content' /\ [Copies!Next]_Store
  <2>1. UNCHANGED evmVars /\ pc' \in {"report", "record"}
    BY <1>0, <1>7 DEF CallRaises, FailedCall, TornCall, ProbeFails
  <2> QED
    BY <1>2, <2>1 DEF evmVars
<1>8. CASE RecordGas \/ NextAmount \/ Judge
  <2>1. /\ UNCHANGED <<state, commitCount>>
        /\ pc' \in {"next", "revert", "report", "done", "raised", "simulate"}
    BY <1>8 DEF RecordGas, NextAmount, Judge, evmVars
  <2> QED
    BY <1>2, <2>1
<1>9. CASE UNCHANGED vars
  BY <1>9 DEF vars, evmVars, searchVars, Content, ProbeCalls, Probe, Store
<1> QED
  BY <1>3, <1>4, <1>5, <1>6, <1>7, <1>8, <1>9 DEF Next, Step, Ended

(* With a torn call the refinement lets go of the store, for good.         *)
LEMMA ContentNext ==
  ASSUME BaseInv, Content, [Next]_vars
  PROVE  Content' /\ [Copies!Next]_Store
<1>1. CASE Untorn'
  BY <1>1, DepthGrows, UntornNext
<1>2. CASE ~Untorn'
  <2>1. Copies!Discard
    BY <1>2 DEF Copies!Discard
  <2> QED
    BY <1>2, <2>1 DEF Content, Copies!Next
<1> QED
  BY <1>1, <1>2

LEMMA ContentInvariant == Spec => [](BaseInv /\ Content)
<1>1. BaseInv /\ Content /\ [Next]_vars => Content'
  BY ContentNext
<1> QED
  BY <1>1, ContentInit, BaseInvariant, PTL DEF Spec

(***************************************************************************)
(* Until a call is torn every probe starts from the fork as EVM.set made   *)
(* it, though the transfer in each is not counted.                         *)
(***************************************************************************)
THEOREM ArbitrageProbesAreIsolated == Spec => []ProbeIsolated
<1>1. BaseInv /\ Content => ProbeIsolated
  BY DEF Content, ProbeIsolated
<1> QED
  BY <1>1, ContentInvariant, PTL

(***************************************************************************)
(* The search on one fork, reverted from probe to probe, implements probes *)
(* that have a copy of the chain each, until a call is torn.               *)
(***************************************************************************)
THEOREM ArbitrageRefinesCopies == Spec => RunsOnCopies
<1>1. Init => Copies!Init
  BY DEF Init, EvmInit, Copies!Init
<1>2. BaseInv /\ Content /\ [Next]_vars => [Copies!Next]_Store
  BY ContentNext
<1> QED
  BY <1>1, <1>2, ContentInvariant, PTL DEF Spec, RunsOnCopies, Copies!Spec, Store

-----------------------------------------------------------------------------
(* What is kept.                                                           *)

(***************************************************************************)
(* BestIsOneProbe speaks of the end of a simulation.  Between the loop's   *)
(* step and the iterator's the two disagree by the probe just made.        *)
(***************************************************************************)
KeptTogether ==
  /\ best = Nothing \/ (best.revenue > 0 /\ best.amount > 0)
  /\ pc = "record" => count > 0
  /\ pc # "next" => gas = best.amount
  /\ pc = "next" => gas = IF count > 0 /\ Improves THEN count ELSE best.amount

LEMMA KeptInit == Init => KeptTogether
BY DEF Init, KeptTogether, Nothing

LEMMA KeptNext ==
  ASSUME BaseInv, KeptTogether, [Next]_vars
  PROVE  KeptTogether'
<1> USE DEF At, Goto
<1>0. /\ best \in [revenue: Int, amount: Counts] /\ best.revenue >= 0
      /\ count \in Nat /\ amountOut \in Int /\ gas \in Nat
  BY SimulationAssumption DEF BaseInv, TypeOK, KeptTogether, Nothing, Counts
<1>1. CASE StartSimulation
  BY <1>1 DEF StartSimulation, KeptTogether, Nothing
<1>2. CASE BeginProbe \/ VictimCall \/ Fund
  BY <1>2 DEF BeginProbe, VictimCall, Fund, KeptTogether
<1>3. CASE Arbitrage
  <2>1. CASE count = 0
    BY <1>3, <2>1 DEF Arbitrage, KeptTogether
  <2>2. CASE count > 0
    BY <1>3, <2>2 DEF Arbitrage, KeptTogether
  <2> QED
    BY <1>0, <2>1, <2>2
<1>4. ASSUME NEW kind \in Kinds, CallRaises(kind) PROVE KeptTogether'
  <2>1. /\ pc # "next" /\ pc' # "next" /\ UNCHANGED <<gas, best, count>>
        /\ pc' = "record" => count > 0
    BY <1>0, <1>4 DEF CallRaises, ProbeFails, Kinds
  <2> QED
    BY <2>1 DEF KeptTogether
<1>5. CASE RecordGas
  BY <1>0, <1>5 DEF RecordGas, Improves, KeptTogether
<1>6. CASE NextAmount
  <2>1. CASE count = 0
    BY <1>6, <2>1 DEF NextAmount, KeptTogether
  <2>2. CASE count > 0 /\ Improves
    <3>1. best' = [revenue |-> amountOut, amount |-> count] /\ pc' \notin {"next", "record"} /\ gas' = gas
      BY <1>0, <1>6, <2>2 DEF NextAmount
    <3>2. gas = count /\ amountOut > 0
      BY <1>0, <1>6, <2>2 DEF NextAmount, KeptTogether, Improves
    <3> QED
      BY <2>2, <3>1, <3>2 DEF KeptTogether
  <2>3. CASE count > 0 /\ ~Improves
    <3>1. best' = best /\ pc' \notin {"next", "record"} /\ gas' = gas
      BY <1>0, <1>6, <2>3 DEF NextAmount
    <3>2. gas = best.amount
      BY <1>6, <2>3 DEF NextAmount, KeptTogether
    <3> QED
      BY <3>1, <3>2 DEF KeptTogether
  <2> QED
    BY <1>0, <2>1, <2>2, <2>3
<1>7. CASE Judge
  BY <1>7 DEF Judge, KeptTogether
<1>8. CASE UNCHANGED vars
  BY <1>8 DEF vars, searchVars, KeptTogether, Improves
<1> QED
  BY <1>1, <1>2, <1>3, <1>4, <1>5, <1>6, <1>7, <1>8 DEF Next, Step, Ended

(***************************************************************************)
(* The gas an arbitrage is judged by was measured with the amount it uses, *)
(* whatever calls of whatever probes failed or were torn.                  *)
(***************************************************************************)
THEOREM ArbitrageIsOneProbe == Spec => []BestIsOneProbe
<1>1. BaseInv /\ KeptTogether /\ [Next]_vars => KeptTogether'
  BY KeptNext
<1>2. KeptTogether => BestIsOneProbe
  BY DEF KeptTogether, BestIsOneProbe, Nothing
<1> QED
  BY <1>1, <1>2, KeptInit, BaseInvariant, PTL DEF Spec
=============================================================================
