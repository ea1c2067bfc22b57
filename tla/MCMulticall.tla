----------------------------- MODULE MCMulticall -----------------------------
(* Small instances of Multicall for TLC.                                    *)
EXTENDS Multicall

UpToEight == 0 .. 8
OneToEight == 1 .. 8
NodeErrors == {"oversize", "gas", "other"}
NoErrors == {}
Resets == {"reset"}
=============================================================================
