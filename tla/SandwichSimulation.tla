-------------------------- MODULE SandwichSimulation --------------------------
(***************************************************************************)
(* search_sandwich from evm.set on (src/src/sandwich/search.py), with      *)
(* simulate_sandwich and SimulationIterator (src/src/sandwich/             *)
(* simulation.py): path after path, amount after amount, a front run, the  *)
(* victim and a back run are executed on the one fork, and the best amount *)
(* is kept.                                                                *)
(*                                                                         *)
(* An amount, an output or a gas figure matters only by where it was       *)
(* measured: each is the number of the probe it is from.  What the calls   *)
(* return, and whether they raise, is up to the chain.                     *)
(***************************************************************************)
EXTENDS ForkEvm

CONSTANTS
  MaxPath,      \* bound: candidate paths
  MaxCount,     \* SimulationIterator.max_count
  BreakIfZero,  \* SimulationIterator.break_count_if_zero
  Revenues,     \* what a complete probe may leave in the contract
  None

Paths == 1 .. MaxPath
Counts == 1 .. MaxCount
Kinds == {"front", "victim", "back"}

ASSUME SimulationAssumption ==
  /\ MaxPath \in Nat \ {0}
  /\ MaxCount \in Nat \ {0}
  /\ BreakIfZero \in Nat \ {0}
  /\ Revenues \subseteq Int
  /\ (Paths \X Counts) \X Kinds \subseteq Effects \ Deployment
  /\ None \notin Nat

VARIABLES
  pc,          \* where the search is
  path,        \* the candidate path it tries
  count,       \* SimulationIterator.count, the number of the probe
  revenue,     \* SimulationIterator.revenue: of the last probe
  frontGas,    \* the probe front_run_gas_used was measured in, or 0
  backGas,     \* the same of back_run_gas_used
  backAmount,  \* the same of back_run_amount_in
  best,        \* the maximized_ variables
  attack       \* what search_sandwich returns

searchVars == <<pc, path, count, revenue, frontGas, backGas, backAmount, best, attack>>
vars == <<evmVars, searchVars>>

Nothing == [revenue |-> 0, amount |-> 0, backAmount |-> 0, frontGas |-> 0, backGas |-> 0]
Best == [revenue: Int, amount: Nat, backAmount: Nat, frontGas: Nat, backGas: Nat]

(* An attack's gas figures are also told apart by the call they measure.   *)
Attacks == [amount: Nat, backAmount: Nat, frontGas: Kinds \X Nat, backGas: Kinds \X Nat]

TypeOK ==
  /\ EvmTypeOK
  /\ pc \in {"simulate", "next", "revert", "front", "rate", "victim", "back", "record",
             "report", "clean", "balance", "done", "raised"}
  /\ path \in Nat
  /\ count \in 0 .. MaxCount
  /\ revenue \in Int
  /\ {frontGas, backGas, backAmount} \subseteq 0 .. MaxCount
  /\ best \in Best
  /\ attack \in Attacks \union {None}

Init ==
  /\ EvmInit
  /\ pc = "simulate"
  /\ path = 1
  /\ count = 0
  /\ revenue = 0
  /\ frontGas = 0 /\ backGas = 0 /\ backAmount = 0
  /\ best = Nothing
  /\ attack = None

At(place) == pc = place
Goto(place) == pc' = place
Probe == <<path, count>>

-----------------------------------------------------------------------------
(* simulate_sandwich.                                                      *)

(***************************************************************************)
(* The reverted fork, the contract's balance, which may raise, and a new   *)
(* iterator with nothing maximized; a victim that does not swap in the     *)
(* path's last pool ends the simulation with nothing.                      *)
(***************************************************************************)
StartSimulation ==
  /\ At("simulate")
  /\ Revert
  /\ count' = 0 /\ revenue' = 0
  /\ frontGas' = 0 /\ backGas' = 0 /\ backAmount' = 0
  /\ best' = Nothing
  /\ Goto("next") \/ Goto("report") \/ Goto("raised")
  /\ UNCHANGED <<path, attack>>

(* No more amounts: none of the first pays, or as many as allowed.         *)
Exhausted ==
  \/ count >= BreakIfZero /\ best.revenue = 0
  \/ count >= MaxCount

NotCounted == count

CountedProbe == count + 1

(***************************************************************************)
(* SimulationIterator.__next__.  The first amount is taken as it is.  The  *)
(* iteration also ends, with the probe already counted, when an amount     *)
(* comes up twice.                                                         *)
(***************************************************************************)
NextAmount ==
  /\ At("next")
  /\ \/ /\ count = 0 \/ ~Exhausted
        /\ count' = CountedProbe
        /\ Goto("revert") \/ (count > 0 /\ Goto("report"))
     \/ /\ count > 0 /\ Exhausted
        /\ Goto("report")
        /\ UNCHANGED count
  /\ UNCHANGED <<evmVars, path, revenue, frontGas, backGas, backAmount, best, attack>>

BeginProbe ==
  /\ At("revert")
  /\ Revert
  /\ Goto("front")
  /\ UNCHANGED <<path, count, revenue, frontGas, backGas, backAmount, best, attack>>

(* The handler around a probe's calls: no revenue, and no back run amount. *)
ProbeFails ==
  /\ backAmount' = 0
  /\ revenue' = 0
  /\ Goto("record")
  /\ UNCHANGED <<path, count, frontGas, backGas, best, attack>>

(* A call raises: reverted by the chain, torn by the node, or before it    *)
(* begins, in one of the balance queries around it.                        *)
CallRaises(kind) ==
  /\ At(kind)
  /\ FailedCall \/ TornCall(<<Probe, kind>>)
  /\ ProbeFails

FrontRun ==
  /\ At("front")
  /\ CountedCall(<<Probe, "front">>)
  /\ frontGas' = count
  /\ Goto("rate")
  /\ UNCHANGED <<path, count, revenue, backGas, backAmount, best, attack>>

(* The front run must leave enough of each pool, else "Invalid rate".      *)
CheckRate ==
  /\ At("rate")
  /\ \/ Goto("victim") /\ UNCHANGED <<path, count, revenue, frontGas, backGas, backAmount,
                                      best, attack>>
     \/ ProbeFails
  /\ UNCHANGED evmVars

VictimCall ==
  /\ At("victim")
  /\ CountedCall(<<Probe, "victim">>)
  /\ backAmount' = count
  /\ Goto("back")
  /\ UNCHANGED <<path, count, revenue, frontGas, backGas, best, attack>>

BackRun ==
  /\ At("back")
  /\ CountedCall(<<Probe, "back">>)
  /\ backGas' = count
  /\ revenue' \in Revenues
  /\ Goto("record")
  /\ UNCHANGED <<path, count, frontGas, backAmount, best, attack>>

ImprovesOrEquals == revenue >= best.revenue

Improves == revenue > best.revenue

Record ==
  /\ At("record")
  /\ IF Improves
     THEN best' = [revenue |-> revenue, amount |-> count, backAmount |-> backAmount,
                   frontGas |-> frontGas, backGas |-> backGas]
     ELSE UNCHANGED best
  /\ Goto("next")
  /\ UNCHANGED <<evmVars, path, count, revenue, frontGas, backGas, backAmount, attack>>

-----------------------------------------------------------------------------
(* search_sandwich.                                                        *)

(***************************************************************************)
(* A path that pays ends the search, unless the token's price cannot be    *)
(* had; the others make room for the next.  Paths whose estimate is low    *)
(* are not simulated: they are not among those counted here.               *)
(***************************************************************************)
Judge ==
  /\ At("report")
  /\ \/ best.revenue # 0 /\ (Goto("clean") \/ Goto("raised")) /\ UNCHANGED path
     \/ best.revenue = 0 /\ path < MaxPath /\ path' = path + 1 /\ Goto("simulate")
     \/ best.revenue = 0 /\ Goto("done") /\ UNCHANGED path
  /\ UNCHANGED <<evmVars, count, revenue, frontGas, backGas, backAmount, best, attack>>

CleanFork ==
  /\ At("clean")
  /\ Revert
  /\ Goto("balance")
  /\ UNCHANGED <<path, count, revenue, frontGas, backGas, backAmount, best, attack>>

(***************************************************************************)
(* The pool's balance is read, which may raise, and the attack returned:   *)
(* simulate_sandwich has returned maximized_front_run_gas_used twice.      *)
(***************************************************************************)
Return ==
  /\ At("balance")
  /\ \/ /\ attack' = [amount |-> best.amount,
                      backAmount |-> best.backAmount,
                      frontGas |-> <<"front", best.frontGas>>,
                      backGas |-> <<"front", best.frontGas>>]
        /\ Goto("done")
     \/ Goto("raised") /\ UNCHANGED attack
  /\ UNCHANGED <<evmVars, path, count, revenue, frontGas, backGas, backAmount, best>>

Step ==
  \/ StartSimulation \/ NextAmount \/ BeginProbe
  \/ \E kind \in Kinds : CallRaises(kind)
  \/ FrontRun \/ CheckRate \/ VictimCall \/ BackRun \/ Record
  \/ Judge \/ CleanFork \/ Return

(* The caller has the attack, or the exception.                            *)
Ended == pc \in {"done", "raised"} /\ UNCHANGED vars

Next == Step \/ Ended

Spec == Init /\ [][Next]_vars

(* The search is one thread of a worker and runs on.                       *)
FairSpec == Spec /\ WF_vars(Step)

-----------------------------------------------------------------------------
(* Properties.                                                             *)

(***************************************************************************)
(* Every probe, and the last reading of the pool's balance, starts from    *)
(* the fork as EVM.set made it, however the probe before it ended: only a  *)
(* torn call may leave something behind.                                   *)
(***************************************************************************)
ProbeIsolated == pc \in {"front", "balance"} /\ Untorn => state = Deployment

(***************************************************************************)
(* What is kept as the best was all measured in one probe, one whose back  *)
(* run was executed: no figure is left over from an earlier probe.         *)
(***************************************************************************)
BestIsOneProbe ==
  \/ best = Nothing
  \/ /\ best.revenue > 0
     /\ best.amount \in Counts
     /\ {best.backAmount, best.frontGas, best.backGas} = {best.amount}

(***************************************************************************)
(* After BreakIfZero probes without a revenue no further amount is tried.  *)
(***************************************************************************)
GivesUpEarly == count > BreakIfZero => best.revenue > 0

(* The search ends, with an attack, without one, or with an exception.     *)
SearchEnds == <>(pc \in {"done", "raised"})

(***************************************************************************)
(* The attack's back_run_gas_used is gas that the back run used.           *)
(***************************************************************************)
BackGasIsBackRuns == attack # None => attack.backGas[1] = "back"

(***************************************************************************)
(* Until a call is torn the probes behave as if each had a copy of the     *)
(* chain of its own, in the order front run, victim, back run.             *)
(***************************************************************************)
CallOrder ==
  [kind \in Kinds |->
     CASE kind = "front" -> {{}}
       [] kind = "victim" -> {{"front"}}
       [] kind = "back" -> {{"front", "victim"}}]

Copies == INSTANCE PrivateCopies
            WITH Probes <- Paths \X Counts, Calls <- Kinds, Before <- CallOrder,
                 store <- IF Untorn THEN state \ Deployment ELSE {}

RunsOnCopies == Copies!Spec
=============================================================================
