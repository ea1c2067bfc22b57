------------------------ MODULE MCArbitrageSimulation ------------------------
(* A small instance of ArbitrageSimulation for TLC.                        *)
EXTENDS ArbitrageSimulation

CONSTANTS contract, balance

Deployed == {contract, balance}
AllEffects == Deployed \union ((Paths \X Counts) \X Kinds)
SmallGains == {-1, 0, 1, 2}
DbFaults == {"db"}
=============================================================================
