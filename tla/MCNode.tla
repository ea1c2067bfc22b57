-------------------------------- MODULE MCNode --------------------------------
(***************************************************************************)
(* What is asked of a node and what is read out of its answers, side by    *)
(* side for TLC: the batches of a multicall (Multicall) and the call trace *)
(* of a transaction (SwapTrace).  They share no state, so that a behaviour *)
(* is of one of them.                                                      *)
(***************************************************************************)
EXTENDS MCMulticall, MCSwapTrace

NoTrace ==
  /\ events = <<>>
  /\ flow = [a \in Addresses |-> [t \in Tokens |-> 0]]
  /\ faked = {}
  /\ calls = MaxCalls

NoMulticall ==
  /\ step = InitialStep
  /\ size = 0
  /\ status = "parked"
  /\ fetches = {}

NodeInit == (Init /\ NoTrace) \/ (TraceInit /\ NoMulticall)

(* A trace has no more calls than the bound; that one is read is no deadlock. *)
TraceIsRead == status = "parked" /\ calls = MaxCalls /\ UNCHANGED <<vars, traceVars>>

NodeNext ==
  \/ status # "parked" /\ Next /\ UNCHANGED traceVars
  \/ TraceNext /\ UNCHANGED vars
  \/ TraceIsRead

NodeSpec ==
  NodeInit /\ [][NodeNext]_<<vars, traceVars>> /\ WF_vars(Fetch) /\ WF_vars(Finish)
=============================================================================
