------------------------------ MODULE SwapTrace ------------------------------
(***************************************************************************)
(* How a call trace becomes swap events: search_dex_transaction and what   *)
(* it calls in src/src/apis/trace_tx.py.  The calls are visited one after  *)
(* another in the order they were made; those beneath a transfer that      *)
(* moved something are not visited, and are not steps here.                *)
(*                                                                         *)
(* An event nets, for one address, what came in of one token against what  *)
(* went out of another.  Beside the events the specification keeps what    *)
(* the calls really moved, which the code does not.                        *)
(***************************************************************************)
EXTENDS Integers, Sequences

CONSTANTS
  Addresses,    \* pools and traders
  Pools,        \* those whose swap function is called
  Tokens,
  Native,       \* the wrapped native token
  Hops,         \* who sends to whom: pairs of addresses
  Values,       \* what a transfer may move
  MinNative,    \* the native amount below which a swap is not reported
  Unset,        \* Python's None
  MaxCalls      \* bound: calls visited

Dexes == {"UNISWAP_V2", "UNISWAP_V3", "BAKERYSWAP"}

ASSUME TraceAssumption ==
  /\ Pools \subseteq Addresses
  /\ Hops \subseteq Addresses \X Addresses
  /\ Values \subseteq Nat \ {0}
  /\ MinNative \in Nat
  /\ Unset \notin Tokens \union Dexes
  /\ MaxCalls \in Nat

VARIABLES
  events,   \* swap_events
  flow,     \* the net amount of each token each address received
  faked,    \* addresses of transfers that were taken back
  calls     \* calls visited

traceVars == <<events, flow, faked, calls>>

SwapEvent ==
  [dex: Dexes \union {Unset}, address: Addresses, tokenIn: Tokens \union {Unset},
   tokenOut: Tokens \union {Unset}, amountIn: Int, amountOut: Int]

TraceTypeOK ==
  /\ events \in Seq(SwapEvent)
  /\ flow \in [Addresses -> [Tokens -> Int]]
  /\ faked \subseteq Addresses
  /\ calls \in 0 .. MaxCalls

TraceInit ==
  /\ events = <<>>
  /\ flow = [a \in Addresses |-> [t \in Tokens |-> 0]]
  /\ faked = {}
  /\ calls = 0

NewEvent(a) ==
  [dex |-> Unset, address |-> a, tokenIn |-> Unset, tokenOut |-> Unset,
   amountIn |-> 0, amountOut |-> 0]

-----------------------------------------------------------------------------
(* set_swap_event.                                                         *)

(* Every event of the pool is the dex's; the first is made if need be.     *)
WithSwap(es, dex, pool) ==
  IF \E i \in DOMAIN es : es[i].address = pool
  THEN [i \in DOMAIN es |-> IF es[i].address = pool THEN [es[i] EXCEPT !.dex = dex] ELSE es[i]]
  ELSE Append(es, [NewEvent(pool) EXCEPT !.dex = dex])

-----------------------------------------------------------------------------
(* set_transfer_event.                                                     *)

(***************************************************************************)
(* What a transfer is to an event: more in, more out, some of what went    *)
(* out coming back, or some of what came in going back; tested in this     *)
(* order.                                                                  *)
(***************************************************************************)
Role(e, from, to, token) ==
  IF e.address = to /\ e.tokenIn \in {Unset, token} THEN "in"
  ELSE IF e.address = from /\ e.tokenOut \in {Unset, token} THEN "out"
  ELSE IF e.address = to /\ e.tokenOut = token THEN "outBack"
  ELSE IF e.address = from /\ e.tokenIn = token THEN "inBack"
  ELSE "none"

(* Mutations, here and below, are what a slip in the code would make of the
   definition that follows; no action uses them.                           *)
TurnedWithoutSign(e) ==
  IF e.amountIn < 0 \/ e.amountOut < 0
  THEN [e EXCEPT !.tokenIn = e.tokenOut, !.tokenOut = e.tokenIn,
                 !.amountIn = e.amountOut, !.amountOut = e.amountIn]
  ELSE e

NotTurned(e) == e

(* swap_in_out_if_minus: the swap was the other way round.                 *)
Turned(e) ==
  IF e.amountIn < 0 \/ e.amountOut < 0
  THEN [e EXCEPT !.tokenIn = e.tokenOut, !.tokenOut = e.tokenIn,
                 !.amountIn = -e.amountOut, !.amountOut = -e.amountIn]
  ELSE e

Booked(e, role, token, value) ==
  CASE role = "in"      -> [e EXCEPT !.tokenIn = token, !.amountIn = @ + value]
    [] role = "out"     -> [e EXCEPT !.tokenOut = token, !.amountOut = @ + value]
    [] role = "outBack" -> Turned([e EXCEPT !.amountOut = @ - value])
    [] role = "inBack"  -> Turned([e EXCEPT !.amountIn = @ - value])
    [] role = "none"    -> e

(* Whoever has no event the transfer could be booked on gets a new one.    *)
WithTransfer(es, from, to, token, value) ==
  LET role == [i \in DOMAIN es |-> Role(es[i], from, to, token)]
      Has(roles) == \E i \in DOMAIN es : role[i] \in roles
  IN  [i \in DOMAIN es |-> Booked(es[i], role[i], token, value)]
        \o (IF Has({"in", "outBack"}) THEN <<>>
            ELSE <<[NewEvent(to) EXCEPT !.tokenIn = token, !.amountIn = value]>>)
        \o (IF Has({"out", "inBack"}) THEN <<>>
            ELSE <<[NewEvent(from) EXCEPT !.tokenOut = token, !.amountOut = value]>>)

-----------------------------------------------------------------------------
(* filter_swap_events and the end of trace_transaction.                    *)

IsValid(e) ==
  /\ Unset \notin {e.dex, e.tokenIn, e.tokenOut}
  /\ e.amountIn > 0 /\ e.amountOut > 0

TooSmall(e) == e.tokenIn = Native /\ e.amountIn < MinNative

(* Those of the first n events that are valid swaps of a dex, in order.    *)
SwapsOf(dex, n) ==
  LET Counts(e) == e.dex = dex /\ IsValid(e) /\ ~TooSmall(e)
      kept[k \in 0 .. n] ==
        IF k = 0 THEN <<>>
        ELSE IF Counts(events[k]) THEN Append(kept[k - 1], events[k])
        ELSE kept[k - 1]
  IN  kept[n]

(* The transaction's swap events, sorted by the number of their dex.       *)
Reported ==
  LET Of(dex) == SwapsOf(dex, Len(events))
  IN  Of("UNISWAP_V2") \o Of("UNISWAP_V3") \o Of("BAKERYSWAP")

-----------------------------------------------------------------------------
(* search_dex_transaction.                                                 *)

Visit == calls < MaxCalls /\ calls' = calls + 1

SwapCall(dex, pool) ==
  /\ Visit
  /\ events' = WithSwap(events, dex, pool)
  /\ UNCHANGED <<flow, faked>>

(* transfer and transferFrom.                                              *)
TransferCall(from, to, token, value) ==
  /\ Visit
  /\ events' = WithTransfer(events, from, to, token, value)
  /\ flow' = [a \in Addresses |->
                [flow[a] EXCEPT ![token] = @ + (IF a = to THEN value ELSE 0)
                                             - (IF a = from THEN value ELSE 0)]]
  /\ UNCHANGED faked

(* A call that was taken back, inside a trace that succeeds, is not told   *)
(* from one that was not: nobody looks at its error.                       *)
RevertedTransferCall(from, to, token, value) ==
  /\ Visit
  /\ events' = WithTransfer(events, from, to, token, value)
  /\ faked' = faked \union {from, to}
  /\ UNCHANGED flow

TraceNext ==
  \/ \E dex \in Dexes, pool \in Pools : SwapCall(dex, pool)
  \/ \E hop \in Hops, token \in Tokens, value \in Values :
        \/ TransferCall(hop[1], hop[2], token, value)
        \/ RevertedTransferCall(hop[1], hop[2], token, value)

TraceSpec == TraceInit /\ [][TraceNext]_traceVars

-----------------------------------------------------------------------------
(* Properties.  The trace may end after any call.                          *)

EventsOf(a) == {i \in DOMAIN events : events[i].address = a}

Net(e, token) ==
  (IF e.tokenIn = token THEN e.amountIn ELSE 0)
    - (IF e.tokenOut = token THEN e.amountOut ELSE 0)

(***************************************************************************)
(* However often in and out changed sides on the way, an address that has  *)
(* one event has in it exactly what the calls moved to and from it.        *)
(***************************************************************************)
OneEventIsTheFlow ==
  \A a \in Addresses \ faked :
    \A i \in EventsOf(a) :
      EventsOf(a) = {i} => \A t \in Tokens : Net(events[i], t) = flow[a][t]

(* The pool took in one token and gave out another, and nothing else.      *)
Swapped(p, in, out) ==
  /\ flow[p][in] > 0 /\ flow[p][out] < 0
  /\ \A t \in Tokens \ {in, out} : flow[p][t] = 0

(***************************************************************************)
(* A pool with one event that took in one token for another is reported,   *)
(* with these tokens and amounts, if its swap function was called and the  *)
(* amount is not too small.                                                *)
(***************************************************************************)
SwapsAreReported ==
  \A p \in Pools \ faked, in, out \in Tokens :
    \A i \in EventsOf(p) :
      /\ EventsOf(p) = {i}
      /\ events[i].dex # Unset
      /\ Swapped(p, in, out)
      /\ in = Native => flow[p][in] >= MinNative
      => \E j \in DOMAIN Reported :
           /\ Reported[j].address = p
           /\ Reported[j].tokenIn = in /\ Reported[j].amountIn = flow[p][in]
           /\ Reported[j].tokenOut = out /\ Reported[j].amountOut = -flow[p][out]

(***************************************************************************)
(* The swaps of a transaction in one pool are merged into one event.       *)
(***************************************************************************)
OneReportPerPool ==
  \A i, j \in DOMAIN Reported : Reported[i].address = Reported[j].address => i = j
=============================================================================
