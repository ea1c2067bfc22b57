------------------------- MODULE MCSandwichSimulation -------------------------
(* Small instances of SandwichSimulation for TLC.                          *)
EXTENDS SandwichSimulation

CONSTANTS contract, funds

Deployed == {contract, funds}
AllEffects == Deployed \union ((Paths \X Counts) \X Kinds)
SmallRevenues == {-1, 0, 1, 2}
NoDeployment == {}
NoFaults == {}
DbFaults == {"db"}
=============================================================================
