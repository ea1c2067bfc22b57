-------------------------- MODULE MCSandwichPipeline --------------------------
(* Small instances of SandwichPipeline for TLC.                            *)
EXTENDS SandwichPipeline

CONSTANTS t1, t2, w1, w2

TwoTxs == {t1, t2}
OneNative == {t2}
OneWorker == {w1}
TwoWorkers == {w1, w2}
GeneralAndBloxroute == {"general", "bloxroute"}
AllValidators == ValidatorKinds
NoFaults == {}
AllFaults == {"rpc", "drop", "index"}
=============================================================================
