----------------------------- MODULE MCSwapTrace -----------------------------
(* Small instances of SwapTrace for TLC.                                    *)
EXTENDS SwapTrace

CONSTANTS pool, trader, bnb, usd, Nothing

TwoAddresses == {pool, trader}
OnePool == {pool}
TwoTokens == {bnb, usd}
ProperHops == {h \in TwoAddresses \X TwoAddresses : h[1] # h[2]}
SmallValues == {1, 2}
OneValue == {2}
=============================================================================
