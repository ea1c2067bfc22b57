------------------------- MODULE MCArbitragePipeline -------------------------
(* A small instance of ArbitragePipeline for TLC.                          *)
EXTENDS ArbitragePipeline

CONSTANTS t1, t2, w1, w2

TwoTxs == {t1, t2}
TwoWorkers == {w1, w2}
AllValidators == ValidatorKinds
NodeFaults == {"rpc", "drop"}
=============================================================================
