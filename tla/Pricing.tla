------------------------------ MODULE Pricing ------------------------------
(***************************************************************************)
(* What deals with pools, side by side: the paths that may be tried        *)
(* (CandidatePaths), the walk of a concentrated liquidity pool on them     *)
(* (TickWalk), the other pools that src/src/dex prices (Exchanges), and    *)
(* the contract that swaps along a path (AttackContract).  They share no   *)
(* state, so that a behaviour is of one of them.                           *)
(***************************************************************************)
EXTENDS TickWalk, Exchanges, CandidatePaths, AttackContract

NoPool == [kind |-> "none", balances |-> <<>>]

NoWalk ==
  /\ height = MaxHeight
  /\ minted = {}
  /\ start = CHOOSE t \in Starts : TRUE
  /\ info = Unset
  /\ infoAt = 0
  /\ bitmap = [w \in Words |-> Unset]
  /\ tickData = [t \in Ends |-> Unset]
  /\ pc = "parked"
  /\ walk = Idle
  /\ reading = Unset
  /\ quotes = <<>>

NoSwaps == pool = NoPool /\ swaps = <<>>

NoSearch ==
  /\ search = "none"
  /\ victim = <<>>
  /\ held = <<>>
  /\ stage = "none"
  /\ found = {}
  /\ answered = {}
  /\ candidates = <<>>

NoAttacks ==
  /\ balance = <<>>
  /\ book = <<>>
  /\ attack = NoAttack
  /\ run = NoRun
  /\ aside = <<>>
  /\ attacks = MaxAttacks
  /\ trades = MaxTrades

WalkOnly == Init /\ NoSwaps /\ NoSearch /\ NoAttacks
SwapsOnly == SwapsInit /\ NoWalk /\ NoSearch /\ NoAttacks
SearchOnly == PathsInit /\ NoWalk /\ NoSwaps /\ NoAttacks
ContractOnly == ContractInit /\ NoWalk /\ NoSwaps /\ NoSearch

PricingInit == WalkOnly \/ SwapsOnly \/ SearchOnly \/ ContractOnly

PricingNext ==
  \/ Next /\ UNCHANGED <<swapVars, pathVars, contractVars>>
  \/ SwapsNext /\ UNCHANGED <<vars, pathVars, contractVars>>
  \/ PathsNext /\ UNCHANGED <<vars, swapVars, contractVars>>
  \/ book # <<>> /\ ContractNext /\ UNCHANGED <<vars, swapVars, pathVars>>

PricingSpec == PricingInit /\ [][PricingNext]_<<vars, swapVars, pathVars, contractVars>>
=============================================================================
