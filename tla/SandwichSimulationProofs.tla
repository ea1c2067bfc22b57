----------------------- MODULE SandwichSimulationProofs -----------------------
(***************************************************************************)
(* Theorems about SandwichSimulation, for any number of paths and amounts, *)
(* any revenues and any deployment.                                        *)
(***************************************************************************)
EXTENDS SandwichSimulation, ForkEvmProofs

InProbe == {"revert", "front", "rate", "victim", "back", "record"}

(* The probe a call is made for is one the search may make.                *)
ProbeOK ==
  /\ path \in Paths
  /\ pc \in InProbe => count \in Counts

(***************************************************************************)
(* The invariant the others rest on: types, a fork that revert can bring   *)
(* back, and a probe whose calls the deployment has not made.              *)
(***************************************************************************)
BaseInv == TypeOK /\ EvmInv /\ ProbeOK

LEMMA BaseInvInit == Init => BaseInv
<1> SUFFICES ASSUME Init PROVE BaseInv
  OBVIOUS
<1>1. EvmInv
  BY EvmInvInit DEF Init
<1>2. TypeOK
  BY <1>1, SimulationAssumption DEF Init, TypeOK, EvmInv, Nothing, Best
<1>3. ProbeOK
  BY SimulationAssumption DEF Init, ProbeOK, InProbe, Paths
<1> QED
  BY <1>1, <1>2, <1>3 DEF BaseInv

(* What a call adds is none of the deployment.                             *)
LEMMA CallIsNew ==
  ASSUME BaseInv, pc \in Kinds
  PROVE  /\ Probe \in Paths \X Counts
         /\ <<Probe, pc>> \in Effects \ Deployment
<1>1. Probe \in Paths \X Counts
  BY DEF BaseInv, ProbeOK, Probe, Kinds, InProbe
<1> QED
  BY <1>1, SimulationAssumption

LEMMA CountedCallInv ==
  ASSUME BaseInv, pc \in Kinds, CountedCall(<<Probe, pc>>)
  PROVE  EvmInv'
<1>1. EvmInv /\ commitCount' \in Nat /\ <<Probe, pc>> \in Effects \ Deployment
  BY CallIsNew DEF BaseInv, EvmInv, EvmTypeOK, CountedCall, CountIncreased
<1> QED
  BY <1>1, PerformInv DEF CountedCall, Perform

LEMMA TornCallInv ==
  ASSUME BaseInv, pc \in Kinds, TornCall(<<Probe, pc>>)
  PROVE  EvmInv'
<1>1. EvmInv /\ commitCount' \in Nat /\ <<Probe, pc>> \in Effects \ Deployment
  BY CallIsNew DEF BaseInv, EvmInv, EvmTypeOK, TornCall
<1> QED
  BY <1>1, PerformInv DEF TornCall

LEMMA BaseInvNext == BaseInv /\ [Next]_vars => BaseInv'
<1> SUFFICES ASSUME BaseInv, [Next]_vars PROVE BaseInv'
  OBVIOUS
<1> USE SimulationAssumption DEF At, Goto
<1>0. TypeOK /\ EvmInv /\ ProbeOK
  BY DEF BaseInv
<1>1. ASSUME EvmInv' PROVE EvmTypeOK'
  BY <1>1 DEF EvmInv
<1>2. CASE StartSimulation
  <2>1. EvmInv'
    BY <1>0, <1>2, RevertInv DEF StartSimulation
  <2>2. TypeOK'
    BY <1>0, <1>1, <1>2, <2>1 DEF StartSimulation, TypeOK, Nothing, Best
  <2>3. ProbeOK'
    BY <1>0, <1>2 DEF StartSimulation, ProbeOK, InProbe
  <2> QED
    BY <2>1, <2>2, <2>3 DEF BaseInv
<1>3. CASE NextAmount
  <2>1. EvmInv'
    BY <1>0, <1>3, UnchangedFork DEF NextAmount
  <2>2. count \in Nat /\ count <= MaxCount
    BY <1>0 DEF TypeOK
  <2>3. count' \in 0 .. MaxCount /\ (pc' \in InProbe => count' \in Counts)
    BY <1>3, <2>2 DEF NextAmount, Exhausted, CountedProbe, InProbe, Counts
  <2>4. TypeOK'
    BY <1>0, <1>1, <1>3, <2>1, <2>3 DEF NextAmount, TypeOK
  <2>5. ProbeOK'
    BY <1>0, <1>3, <2>3 DEF NextAmount, ProbeOK
  <2> QED
    BY <2>1, <2>4, <2>5 DEF BaseInv
<1>4. CASE BeginProbe
  <2>1. EvmInv'
    BY <1>0, <1>4, RevertInv DEF BeginProbe
  <2>2. TypeOK' /\ ProbeOK'
    BY <1>0, <1>1, <1>4, <2>1 DEF BeginProbe, TypeOK, ProbeOK, InProbe
  <2> QED
    BY <2>1, <2>2 DEF BaseInv
<1>5. ASSUME NEW kind \in Kinds, CallRaises(kind)
      PROVE BaseInv'
  <2>1. pc = kind /\ pc \in Kinds
    BY <1>5 DEF CallRaises
  <2>2. EvmInv'
    BY <1>0, <1>5, <2>1, UnchangedFork, TornCallInv DEF CallRaises, FailedCall, BaseInv
  <2>3. TypeOK' /\ ProbeOK'
    BY <1>0, <1>1, <1>5, <2>1, <2>2
    DEF CallRaises, ProbeFails, TypeOK, ProbeOK, InProbe, Kinds
  <2> QED
    BY <2>2, <2>3 DEF BaseInv
<1>6. CASE FrontRun
  <2>1. EvmInv'
    BY <1>6, CountedCallInv DEF FrontRun, Kinds
  <2>2. TypeOK' /\ ProbeOK'
    BY <1>0, <1>1, <1>6, <2>1 DEF FrontRun, TypeOK, ProbeOK, InProbe
  <2> QED
    BY <2>1, <2>2 DEF BaseInv
<1>7. CASE CheckRate
  <2>1. EvmInv'
    BY <1>0, <1>7, UnchangedFork DEF CheckRate
  <2>2. TypeOK' /\ ProbeOK'
    BY <1>0, <1>1, <1>7, <2>1 DEF CheckRate, ProbeFails, TypeOK, ProbeOK, InProbe
  <2> QED
    BY <2>1, <2>2 DEF BaseInv
<1>8. CASE VictimCall
  <2>1. EvmInv'
    BY <1>8, CountedCallInv DEF VictimCall, Kinds
  <2>2. TypeOK' /\ ProbeOK'
    BY <1>0, <1>1, <1>8, <2>1 DEF VictimCall, TypeOK, ProbeOK, InProbe
  <2> QED
    BY <2>1, <2>2 DEF BaseInv
<1>9. CASE BackRun
  <2>1. EvmInv'
    BY <1>9, CountedCallInv DEF BackRun, Kinds
  <2>2. TypeOK' /\ ProbeOK'
    BY <1>0, <1>1, <1>9, <2>1 DEF BackRun, TypeOK, ProbeOK, InProbe
  <2> QED
    BY <2>1, <2>2 DEF BaseInv
<1>10. CASE Record
  <2>1. EvmInv'
    BY <1>0, <1>10, UnchangedFork DEF Record
  <2>2. best' \in Best
    BY <1>0, <1>10 DEF Record, TypeOK, Best
  <2>3. TypeOK' /\ ProbeOK'
    BY <1>0, <1>1, <1>10, <2>1, <2>2 DEF Record, TypeOK, ProbeOK, InProbe
  <2> QED
    BY <2>1, <2>3 DEF BaseInv
<1>11. CASE Judge
  <2>1. EvmInv'
    BY <1>0, <1>11, UnchangedFork DEF Judge
  <2>2. TypeOK' /\ ProbeOK'
    BY <1>0, <1>1, <1>11, <2>1 DEF Judge, TypeOK, ProbeOK, InProbe, Paths
  <2> QED
    BY <2>1, <2>2 DEF BaseInv
<1>12. CASE CleanFork
  <2>1. EvmInv'
    BY <1>0, <1>12, RevertInv DEF CleanFork
  <2>2. TypeOK' /\ ProbeOK'
    BY <1>0, <1>1, <1>12, <2>1 DEF CleanFork, TypeOK, ProbeOK, InProbe
  <2> QED
    BY <2>1, <2>2 DEF BaseInv
<1>13. CASE Return
  <2>1. EvmInv'
    BY <1>0, <1>13, UnchangedFork DEF Return
  <2>2. attack' \in Attacks \union {None}
    BY <1>0, <1>13 DEF Return, TypeOK, Best, Attacks, Kinds
  <2>3. TypeOK' /\ ProbeOK'
    BY <1>0, <1>1, <1>13, <2>1, <2>2 DEF Return, TypeOK, ProbeOK, InProbe
  <2> QED
    BY <2>1, <2>3 DEF BaseInv
<1>14. CASE UNCHANGED vars
  <2>1. EvmInv'
    BY <1>0, <1>14, UnchangedFork DEF vars
  <2>2. TypeOK' /\ ProbeOK'
    BY <1>0, <1>1, <1>14, <2>1 DEF vars, searchVars, TypeOK, ProbeOK
  <2> QED
    BY <2>1, <2>2 DEF BaseInv
<1> QED
  BY <1>2, <1>3, <1>4, <1>5, <1>6, <1>7, <1>8, <1>9, <1>10, <1>11, <1>12, <1>13, <1>14
  DEF Next, Step, Ended

LEMMA BaseInvariant == Spec => []BaseInv
  BY BaseInvInit, BaseInvNext, PTL DEF Spec

(* The search's variables and the fork's keep their types.                 *)
THEOREM SimulationTypeCorrect == Spec => []TypeOK
<1>1. BaseInv => TypeOK
  BY DEF BaseInv
<1> QED
  BY <1>1, BaseInvariant, PTL

-----------------------------------------------------------------------------
(* Isolation, until the node behind the fork fails in mid-call.            *)

(* The fork as the refinement shows it.                                    *)
Store == IF Untorn THEN state \ Deployment ELSE {}

ProbeCalls(kinds) == {<<Probe, kind>> : kind \in kinds}

(***************************************************************************)
(* Neither ProbeIsolated nor RunsOnCopies is inductive: what the fork      *)
(* shows has to be known at every place, and revert, which does nothing    *)
(* while no call has been counted, needs that to mean that there is        *)
(* nothing to take back.                                                   *)
(***************************************************************************)
Content ==
  Untorn =>
    /\ pc \in {"front", "balance"} => commitCount = 0
    /\ commitCount = 0 => state = Deployment
    /\ pc \in {"rate", "victim"} => state = Deployment \union ProbeCalls({"front"})
    /\ pc = "back" => state = Deployment \union ProbeCalls({"front", "victim"})

(* A torn call is not forgotten: what came before it was untorn.           *)
LEMMA DepthGrows ==
  ASSUME BaseInv, [Next]_vars
  PROVE  Untorn' => Untorn /\ depth' = depth
<1>1. EvmInv /\ depth \in Nat /\ depth > 0
  BY DEF BaseInv, EvmInv, EvmTypeOK
<1>2. ASSUME Revert PROVE depth' = depth
  BY <1>1, <1>2, RevertInv
<1>3. ASSUME NEW e, TornCall(e) PROVE depth' = depth + 1
  BY <1>3 DEF TornCall
<1>4. ASSUME NEW e, CountedCall(e) PROVE depth' = depth
  BY <1>4 DEF CountedCall, Perform
<1>5. ASSUME UNCHANGED evmVars PROVE depth' = depth
  BY <1>5 DEF evmVars
<1>6. depth' = depth \/ depth' = depth + 1
  BY <1>2, <1>3, <1>4, <1>5
  DEF Next, Step, Ended, vars, StartSimulation, NextAmount, BeginProbe, CallRaises,
      FailedCall, FrontRun, CheckRate, VictimCall, BackRun, Record, Judge, CleanFork, Return
<1> QED
  BY <1>1, <1>6 DEF Untorn

LEMMA ContentInit == Init => Content
BY DEF Init, EvmInit, Content

LEMMA RevertContent ==
  ASSUME EvmInv, Content, Untorn, Revert
  PROVE  commitCount' = 0 /\ state' = Deployment
<1>1. commitCount > 0 \/ commitCount = 0
  BY DEF EvmInv, EvmTypeOK
<1> QED
  BY <1>1, RevertInv DEF Content

(* Every step keeps it, and is a step of PrivateCopies or none.            *)
LEMMA UntornNext ==
  ASSUME BaseInv, Content, [Next]_vars, Untorn, Untorn'
  PROVE  Content' /\ [Copies!Next]_Store
<1> USE DEF At, Goto
<1>0. EvmInv /\ commitCount \in Nat /\ pc \in {"simulate", "next", "revert", "front", "rate",
        "victim", "back", "record", "report", "clean", "balance", "done", "raised"}
  BY DEF BaseInv, EvmInv, EvmTypeOK, TypeOK
<1>1. ASSUME Revert, pc' \notin {"rate", "victim", "back"}
      PROVE Content' /\ [Copies!Next]_Store
  <2>1. commitCount' = 0 /\ state' = Deployment
    BY <1>0, <1>1, RevertContent
  <2>2. Copies!Discard
    BY <2>1 DEF Copies!Discard
  <2> QED
    BY <1>1, <2>1, <2>2 DEF Content, Copies!Next
<1>2. ASSUME UNCHANGED <<state, commitCount>>,
             pc' \notin {"front", "rate", "victim", "back", "balance"}
      PROVE Content' /\ [Copies!Next]_Store
  BY <1>2 DEF Content, Store
<1>3. ASSUME NEW call \in Kinds, NEW before, pc = call, CountedCall(<<Probe, call>>),
             before \in CallOrder[call], state = Deployment \union ProbeCalls(before)
      PROVE  /\ commitCount' # 0
             /\ state' = Deployment \union ProbeCalls(before \union {call})
             /\ Copies!Next
  <2>1. commitCount' # 0 /\ state' = state \union {<<Probe, call>>}
    BY <1>0, <1>3 DEF CountedCall, CountIncreased, Perform
  <2>2. Probe \in Paths \X Counts
    BY <1>3, CallIsNew
  <2>3. <<Probe, call>> \notin Deployment /\ before \subseteq Kinds
    BY <1>3, CallIsNew DEF CallOrder, Kinds
  <2>4. ProbeCalls(before) \intersect Deployment = {}
    BY <2>2, <2>3, SimulationAssumption DEF ProbeCalls
  <2>5. state \ Deployment = {<<Probe, c>> : c \in before}
    BY <1>3, <2>4 DEF ProbeCalls
  <2>6. state' \ Deployment = (state \ Deployment) \union {<<Probe, call>>}
    BY <2>1, <2>3
  <2>7. Copies!Apply(Probe, call)
    BY <1>3, <2>5, <2>6 DEF Copies!Apply
  <2>8. Copies!Next
    BY <2>2, <2>7 DEF Copies!Next
  <2> QED
    BY <1>3, <2>1, <2>8 DEF ProbeCalls
<1>4. CASE StartSimulation
  BY <1>1, <1>4 DEF StartSimulation
<1>5. CASE NextAmount
  BY <1>2, <1>5 DEF NextAmount, evmVars
<1>6. CASE BeginProbe
  BY <1>1, <1>6 DEF BeginProbe
<1>7. ASSUME NEW kind \in Kinds, CallRaises(kind)
      PROVE Content' /\ [Copies!Next]_Store
  <2>1. depth' = depth /\ depth \in Nat
    BY <1>0, DepthGrows DEF EvmInv, EvmTypeOK
  <2>2. UNCHANGED evmVars /\ pc' = "record"
    BY <1>7, <2>1 DEF CallRaises, FailedCall, TornCall, ProbeFails
  <2> QED
    BY <1>2, <2>2 DEF evmVars
<1>8. CASE FrontRun
  <2>1. pc = "front" /\ pc' = "rate" /\ Probe' = Probe /\ CountedCall(<<Probe, "front">>)
    BY <1>8 DEF FrontRun, Probe
  <2>2. state = Deployment \union ProbeCalls({})
    BY <2>1 DEF Content, ProbeCalls
  <2>3. /\ commitCount' # 0 /\ Copies!Next
        /\ state' = Deployment \union ProbeCalls({"front"})
    BY <1>3, <2>1, <2>2 DEF Kinds, CallOrder
  <2> QED
    BY <2>1, <2>3 DEF Content, ProbeCalls
<1>9. CASE CheckRate
  <2>1. pc = "rate" /\ UNCHANGED <<state, commitCount>>
    BY <1>9 DEF CheckRate, evmVars
  <2>2. CASE pc' = "victim" /\ Probe' = Probe
    BY <2>1, <2>2 DEF Content, ProbeCalls, Store
  <2>3. CASE pc' = "record"
    BY <1>2, <2>1, <2>3
  <2> QED
    BY <1>9, <2>2, <2>3 DEF CheckRate, ProbeFails, Probe
<1>10. CASE VictimCall
  <2>1. pc = "victim" /\ pc' = "back" /\ Probe' = Probe /\ CountedCall(<<Probe, "victim">>)
    BY <1>10 DEF VictimCall, Probe
  <2>2. state = Deployment \union ProbeCalls({"front"})
    BY <2>1 DEF Content
  <2>3. /\ commitCount' # 0 /\ Copies!Next
        /\ state' = Deployment \union ProbeCalls({"front", "victim"})
    <3>1. {"front"} \in CallOrder["victim"] /\ "victim" \in Kinds
      BY DEF Kinds, CallOrder
    <3>2. {"front"} \union {"victim"} = {"front", "victim"}
      OBVIOUS
    <3> QED
      BY <1>3, <2>1, <2>2, <3>1, <3>2
  <2> QED
    BY <2>1, <2>3 DEF Content, ProbeCalls
<1>11. CASE BackRun
  <2>1. pc = "back" /\ pc' = "record" /\ CountedCall(<<Probe, "back">>)
    BY <1>11 DEF BackRun
  <2>2. state = Deployment \union ProbeCalls({"front", "victim"})
    BY <2>1 DEF Content
  <2>3. commitCount' # 0 /\ Copies!Next
    BY <1>3, <2>1, <2>2 DEF Kinds, CallOrder
  <2> QED
    BY <2>1, <2>3 DEF Content
<1>12. CASE Record
  BY <1>2, <1>12 DEF Record, evmVars
<1>13. CASE Judge
  BY <1>2, <1>13 DEF Judge, evmVars
<1>14. CASE CleanFork
  BY <1>1, <1>14 DEF CleanFork
<1>15. CASE Return
  BY <1>2, <1>15 DEF Return, evmVars
<1>16. CASE UNCHANGED vars
  BY <1>16 DEF vars, evmVars, searchVars, Content, ProbeCalls, Probe, Store
<1> QED
  BY <1>4, <1>5, <1>6, <1>7, <1>8, <1>9, <1>10, <1>11, <1>12, <1>13, <1>14, <1>15, <1>16
  DEF Next, Step, Ended

(* With a torn call the refinement lets go of the store, for good.         *)
LEMMA ContentNext ==
  ASSUME BaseInv, Content, [Next]_vars
  PROVE  Content' /\ [Copies!Next]_Store
<1>1. CASE Untorn'
  BY <1>1, DepthGrows, UntornNext
<1>2. CASE ~Untorn'
  <2>1. Copies!Discard
    BY <1>2 DEF Copies!Discard
  <2> QED
    BY <1>2, <2>1 DEF Content, Copies!Next
<1> QED
  BY <1>1, <1>2

LEMMA ContentInvariant == Spec => [](BaseInv /\ Content)
<1>1. BaseInv /\ Content /\ [Next]_vars => Content'
  BY ContentNext
<1> QED
  BY <1>1, ContentInit, BaseInvariant, PTL DEF Spec

(***************************************************************************)
(* As long as no call is torn, every probe and the last reading of the     *)
(* pool's balance start from the fork as EVM.set made it.                  *)
(***************************************************************************)
THEOREM ProbesAreIsolated == Spec => []ProbeIsolated
<1>1. BaseInv /\ Content => ProbeIsolated
  BY DEF Content, ProbeIsolated
<1> QED
  BY <1>1, ContentInvariant, PTL

(***************************************************************************)
(* The search on one fork, reverted from probe to probe, implements probes *)
(* that have a copy of the chain each, until a call is torn.               *)
(***************************************************************************)
THEOREM SearchRefinesCopies == Spec => RunsOnCopies
<1>1. Init => Copies!Init
  BY DEF Init, EvmInit, Copies!Init
<1>2. BaseInv /\ Content /\ [Next]_vars => [Copies!Next]_Store
  BY ContentNext
<1> QED
  BY <1>1, <1>2, ContentInvariant, PTL DEF Spec, RunsOnCopies, Copies!Spec, Store

-----------------------------------------------------------------------------
(* Reverts, and what is kept, also when calls are torn.                    *)

(***************************************************************************)
(* Once a call of a probe has been counted the next revert brings back the *)
(* fork as EVM.set made it, though calls may have been torn in between.    *)
(***************************************************************************)
THEOREM SearchReverts == Spec => RevertRestores
<1>1. BaseInv /\ [Next]_vars
        => [commitCount > 0 /\ commitCount' = 0 => state' = Deployment]_evmVars
  <2> SUFFICES ASSUME BaseInv, [Next]_vars, commitCount > 0, commitCount' = 0
               PROVE  state' = Deployment
    OBVIOUS
  <2>1. commitCount \in Nat /\ EvmInv
    BY DEF BaseInv, EvmInv, EvmTypeOK
  <2>2. CASE Revert
    BY <2>1, <2>2, RevertInv
  <2>3. ASSUME NEW e, CountedCall(e) \/ TornCall(e) PROVE FALSE
    BY <2>1, <2>3 DEF CountedCall, TornCall, CountIncreased
  <2>4. CASE UNCHANGED evmVars
    BY <2>1, <2>4 DEF evmVars
  <2> QED
    BY <2>2, <2>3, <2>4
    DEF Next, Step, Ended, vars, StartSimulation, NextAmount, BeginProbe, CallRaises,
        FailedCall, FrontRun, CheckRate, VictimCall, BackRun, Record, Judge, CleanFork, Return
<1> QED
  BY <1>1, BaseInvariant, PTL DEF Spec, RevertRestores

(***************************************************************************)
(* BestIsOneProbe strengthened: at every place of a probe, the figures     *)
(* already taken are its own, and a revenue that is not zero means that    *)
(* they all are.                                                           *)
(***************************************************************************)
FiguresAreProbes ==
  /\ BestIsOneProbe
  /\ pc \in {"rate", "victim", "back"} => frontGas = count
  /\ pc = "back" => backAmount = count
  /\ pc = "record" /\ revenue # 0 => {frontGas, backGas, backAmount} = {count}
  /\ count > BreakIfZero => best.revenue > 0

LEMMA FiguresInit == Init => FiguresAreProbes
BY SimulationAssumption DEF Init, FiguresAreProbes, BestIsOneProbe

LEMMA FiguresNext ==
  ASSUME BaseInv, FiguresAreProbes, [Next]_vars
  PROVE  FiguresAreProbes'
<1> USE SimulationAssumption DEF At, Goto
<1>0. /\ best.revenue >= 0 /\ best.revenue \in Int
      /\ count \in Nat /\ revenue \in Int
  BY DEF BaseInv, TypeOK, Best, FiguresAreProbes, BestIsOneProbe, Nothing
<1>1. ASSUME UNCHANGED best, BestIsOneProbe PROVE BestIsOneProbe'
  BY <1>1 DEF BestIsOneProbe
<1>2. CASE StartSimulation
  BY <1>2 DEF StartSimulation, FiguresAreProbes, BestIsOneProbe, Nothing
<1>3. CASE NextAmount
  <2>1. count' > BreakIfZero => best'.revenue > 0
    BY <1>0, <1>3 DEF NextAmount, Exhausted, CountedProbe, FiguresAreProbes
  <2> QED
    BY <1>1, <1>3, <2>1 DEF NextAmount, FiguresAreProbes
<1>4. ASSUME NEW kind \in Kinds, CallRaises(kind)
      PROVE FiguresAreProbes'
  BY <1>1, <1>4 DEF CallRaises, ProbeFails, FiguresAreProbes
<1>5. CASE Record
  <2>1. CASE Improves
    <3>1. revenue > 0 /\ {frontGas, backGas, backAmount} = {count} /\ count \in Counts
      BY <1>0, <1>5, <2>1
      DEF Record, Improves, FiguresAreProbes, BaseInv, ProbeOK, InProbe
    <3>2. BestIsOneProbe' /\ best'.revenue > 0
      BY <1>5, <2>1, <3>1 DEF Record, BestIsOneProbe
    <3> QED
      BY <1>5, <3>2 DEF Record, FiguresAreProbes
  <2>2. CASE ~Improves
    BY <1>1, <1>5, <2>2 DEF Record, FiguresAreProbes
  <2> QED
    BY <2>1, <2>2
<1>6. CASE BeginProbe \/ FrontRun
  BY <1>1, <1>6 DEF BeginProbe, FrontRun, FiguresAreProbes
<1>7. CASE CheckRate
  BY <1>1, <1>7 DEF CheckRate, ProbeFails, FiguresAreProbes
<1>8. CASE VictimCall \/ BackRun
  BY <1>1, <1>8 DEF VictimCall, BackRun, FiguresAreProbes
<1>9. CASE Judge \/ CleanFork \/ Return
  BY <1>1, <1>9 DEF Judge, CleanFork, Return, FiguresAreProbes
<1>10. CASE UNCHANGED vars
  BY <1>1, <1>10 DEF vars, searchVars, FiguresAreProbes
<1> QED
  BY <1>2, <1>3, <1>4, <1>5, <1>6, <1>7, <1>8, <1>9, <1>10 DEF Next, Step, Ended

LEMMA FiguresInvariant == Spec => []FiguresAreProbes
<1>1. BaseInv /\ FiguresAreProbes /\ [Next]_vars => FiguresAreProbes'
  BY FiguresNext
<1> QED
  BY <1>1, FiguresInit, BaseInvariant, PTL DEF Spec

(***************************************************************************)
(* The figures an attack is made of were all measured in the one probe it  *)
(* repeats, whatever calls of whatever probes failed or were torn.         *)
(***************************************************************************)
THEOREM AttackIsOneProbe == Spec => []BestIsOneProbe
<1>1. FiguresAreProbes => BestIsOneProbe
  BY DEF FiguresAreProbes
<1> QED
  BY <1>1, FiguresInvariant, PTL

(* A path without a revenue costs BreakIfZero probes and no more.          *)
THEOREM PathsAreGivenUp == Spec => []GivesUpEarly
<1>1. FiguresAreProbes => GivesUpEarly
  BY DEF FiguresAreProbes, GivesUpEarly
<1> QED
  BY <1>1, FiguresInvariant, PTL
=============================================================================
