---------------------------- MODULE PrivateCopies ----------------------------
(***************************************************************************)
(* What simulations on a fork promise: every probe runs on a copy of the   *)
(* chain of its own.  The store shows the calls of one probe at most, each *)
(* made after those it has to follow, and is thrown away before the next   *)
(* probe calls anything.                                                   *)
(***************************************************************************)
CONSTANTS
  Probes,
  Calls,
  Before  \* for every call the sets of calls it may find made

VARIABLE store

Init == store = {}

Apply(p, call) ==
  /\ \E made \in Before[call] : store = {<<p, c>> : c \in made}
  /\ store' = store \union {<<p, call>>}

Discard == store' = {}

Next == Discard \/ \E p \in Probes, call \in Calls : Apply(p, call)

Spec == Init /\ [][Next]_store
=============================================================================
