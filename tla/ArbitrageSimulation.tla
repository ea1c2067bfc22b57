-------------------------- MODULE ArbitrageSimulation --------------------------
(***************************************************************************)
(* search_arbitrage once its candidate paths are known (src/src/arbitrage/ *)
(* search.py), with simulate_arbitrage and SimulationIterator (src/src/    *)
(* arbitrage/simulation.py): on each path the victim and then the round    *)
(* trip are executed on the one fork, once to see whether it can be done   *)
(* and then for amount after amount.                                       *)
(*                                                                         *)
(* A victim that is a call of the contract itself, as in tests, leaves its *)
(* amount to be put on the contract, by a transfer that EVM does not       *)
(* count.  Amounts and gas figures matter only by the probe they are from. *)
(***************************************************************************)
EXTENDS ForkEvm

CONSTANTS
  MaxPath,      \* bound: candidate paths
  MaxCount,     \* SimulationIterator.max_count
  BreakIfZero,  \* SimulationIterator.break_count_if_zero
  Gains,        \* what a round trip may add to the contract's balance
  None

Paths == 1 .. MaxPath
Counts == 0 .. MaxCount
Kinds == {"victim", "fund", "arbitrage"}

ASSUME SimulationAssumption ==
  /\ MaxPath \in Nat \ {0}
  /\ MaxCount \in Nat \ {0}
  /\ BreakIfZero \in Nat \ {0}
  /\ Gains \subseteq Int
  /\ (Paths \X Counts) \X Kinds \subseteq Effects \ Deployment
  /\ None \notin Nat

VARIABLES
  funds,      \* whether the victim's receiver is the contract
  pc,         \* where the search is
  path,       \* the candidate path it tries
  count,      \* SimulationIterator.count, the number of the probe; 0: the check
  amountOut,  \* SimulationIterator.amount_out: of the last probe
  gas,        \* the probe maximized_gas_used was measured in, or 0
  best,       \* maximized_revenue and the probe of maximized_amount_in
  attack      \* what search_arbitrage returns

searchVars == <<funds, pc, path, count, amountOut, gas, best, attack>>
vars == <<evmVars, searchVars>>

Nothing == [revenue |-> 0, amount |-> 0]

TypeOK ==
  /\ EvmTypeOK
  /\ funds \in BOOLEAN
  /\ pc \in {"simulate", "victim", "fund", "arbitrage", "next", "revert", "record",
             "report", "done", "raised"}
  /\ path \in Nat
  /\ count \in Counts
  /\ amountOut \in Int
  /\ gas \in Counts
  /\ best \in [revenue: Int, amount: Counts]
  /\ attack \in [amount: Counts, gas: Counts] \union {None}

Init ==
  /\ EvmInit
  /\ funds \in BOOLEAN
  /\ pc = "simulate"
  /\ path = 1
  /\ count = 0
  /\ amountOut = 0
  /\ gas = 0
  /\ best = Nothing
  /\ attack = None

At(place) == pc = place
Goto(place) == pc' = place
Probe == <<path, count>>

-----------------------------------------------------------------------------
(* simulate_arbitrage.                                                     *)

StartSimulation ==
  /\ At("simulate")
  /\ Revert
  /\ count' = 0 /\ amountOut' = 0
  /\ gas' = 0
  /\ best' = Nothing
  /\ Goto("victim")
  /\ UNCHANGED <<funds, path, attack>>

BeginProbe ==
  /\ At("revert")
  /\ Revert
  /\ Goto("victim")
  /\ UNCHANGED <<funds, path, count, amountOut, gas, best, attack>>

VictimCall ==
  /\ At("victim")
  /\ CountedCall(<<Probe, "victim">>)
  /\ Goto(IF funds THEN "fund" ELSE "arbitrage")
  /\ UNCHANGED <<funds, path, count, amountOut, gas, best, attack>>

(* put_balance: a transfer, which no decorator counts.                     *)
Fund ==
  /\ At("fund")
  /\ UncountedCall(<<Probe, "fund">>)
  /\ Goto("arbitrage")
  /\ UNCHANGED <<funds, path, count, amountOut, gas, best, attack>>

(* The round trip; the balance it leaves is not looked at in the check.    *)
Arbitrage ==
  /\ At("arbitrage")
  /\ CountedCall(<<Probe, "arbitrage">>)
  /\ IF count = 0
     THEN Goto("next") /\ UNCHANGED amountOut
     ELSE Goto("record") /\ amountOut' \in Gains \union {0}
  /\ UNCHANGED <<funds, path, count, gas, best, attack>>

(***************************************************************************)
(* The two handlers: a check that fails ends the simulation with nothing,  *)
(* and so does no probe, whose amount is 0.                                *)
(***************************************************************************)
ProbeFails ==
  /\ Goto(IF count = 0 THEN "report" ELSE "record")
  /\ amountOut' = 0

(* A call raises, reverted by the chain or torn by the node; or a balance. *)
CallRaises(kind) ==
  /\ At(kind)
  /\ FailedCall \/ TornCall(<<Probe, kind>>)
  /\ ProbeFails
  /\ UNCHANGED <<funds, path, count, gas, best, attack>>

Improves == amountOut > best.revenue

(* The loop's own part of keeping the best: the gas.                       *)
RecordGas ==
  /\ At("record")
  /\ gas' = IF Improves THEN count ELSE gas
  /\ Goto("next")
  /\ UNCHANGED <<evmVars, funds, path, count, amountOut, best, attack>>

(* No more amounts: none of the first pays, or as many as allowed.         *)
Exhausted(b) ==
  \/ count >= BreakIfZero /\ b.revenue = 0
  \/ count >= MaxCount

(***************************************************************************)
(* SimulationIterator.__next__: its part of keeping the best, revenue and  *)
(* amount, and the next amount.  The first is taken as it is.  With the    *)
(* probe already counted the iteration also ends when an amount comes up   *)
(* twice, or when a path that paid no longer does.                         *)
(***************************************************************************)
NextAmount ==
  /\ At("next")
  /\ IF count = 0
     THEN count' = 1 /\ Goto("revert") /\ UNCHANGED best
     ELSE LET b == IF Improves THEN [revenue |-> amountOut, amount |-> count] ELSE best
          IN  /\ best' = b
              /\ IF Exhausted(b)
                 THEN Goto("report") /\ UNCHANGED count
                 ELSE /\ count' = count + 1
                      /\ \/ Goto("report")
                         \/ ~(b.revenue > 0 /\ amountOut = 0) /\ Goto("revert")
  /\ UNCHANGED <<evmVars, funds, path, amountOut, gas, attack>>

-----------------------------------------------------------------------------
(* search_arbitrage.                                                       *)

(***************************************************************************)
(* The revenue in the native token ends the search when it is large        *)
(* enough; its price may not be had, which raises.  Paths whose estimate   *)
(* is low are not simulated and not among those counted here.              *)
(***************************************************************************)
Judge ==
  /\ At("report")
  /\ \/ /\ best.revenue # 0
        /\ \/ /\ attack' = [amount |-> best.amount, gas |-> gas]
              /\ Goto("done")
           \/ Goto("raised") /\ UNCHANGED attack
        /\ UNCHANGED path
     \/ /\ path < MaxPath
        /\ path' = path + 1
        /\ Goto("simulate") /\ UNCHANGED attack
     \/ Goto("done") /\ UNCHANGED <<path, attack>>
  /\ UNCHANGED <<evmVars, funds, count, amountOut, gas, best>>

Step ==
  \/ StartSimulation \/ BeginProbe
  \/ VictimCall \/ Fund \/ Arbitrage
  \/ \E kind \in Kinds : CallRaises(kind)
  \/ RecordGas \/ NextAmount \/ Judge

(* The caller has the attack, None, or the exception.                      *)
Ended == pc \in {"done", "raised"} /\ UNCHANGED vars

Next == Step \/ Ended

Spec == Init /\ [][Next]_vars

-----------------------------------------------------------------------------
(* Properties.                                                             *)

(***************************************************************************)
(* Every probe, the check among them, starts from the fork as EVM.set made *)
(* it: also when the probe before ended right after the transfer that is   *)
(* not counted.  Only a torn call may leave something behind.              *)
(***************************************************************************)
ProbeIsolated == pc = "victim" /\ Untorn => state = Deployment

(***************************************************************************)
(* What the loop and the iterator keep, each on its own, is in the end of  *)
(* one probe: the gas belongs to the amount, and the amount to a revenue.  *)
(***************************************************************************)
BestIsOneProbe ==
  pc = "report" =>
    \/ best = Nothing /\ gas = 0
    \/ best.revenue > 0 /\ best.amount > 0 /\ gas = best.amount

(***************************************************************************)
(* Until a call is torn the probes behave as if each had a copy of the     *)
(* chain of its own, on which the round trip follows the victim.           *)
(***************************************************************************)
CallOrder ==
  [kind \in Kinds |->
     CASE kind = "victim" -> {{}}
       [] kind = "fund" -> {{"victim"}}
       [] kind = "arbitrage" -> {{"victim"}, {"victim", "fund"}}]

Copies == INSTANCE PrivateCopies
            WITH Probes <- Paths \X Counts, Calls <- Kinds, Before <- CallOrder,
                 store <- IF Untorn THEN state \ Deployment ELSE {}

RunsOnCopies == Copies!Spec
=============================================================================
