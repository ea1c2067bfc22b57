------------------------------- MODULE ForkEvm -------------------------------
(***************************************************************************)
(* The forked chain a search runs its simulations on: the class EVM of     *)
(* src/src/evm.py over pyrevm.  What a simulation relies on is that        *)
(* EVM.revert takes back everything the calls since EVM.set or since the   *)
(* last revert have done.  The wrapper has one checkpoint and counts calls *)
(* to know whether there is anything to take back; pyrevm keeps a journal  *)
(* whose levels a checkpoint indexes.                                      *)
(*                                                                         *)
(* A call's work is an element of Effects.  A checkpoint is its place in   *)
(* the journal; its place in the log, which moves along, is left out.      *)
(***************************************************************************)
EXTENDS Integers, Sequences, FiniteSets

CONSTANTS
  Effects,     \* what calls can do to the chain
  Deployment,  \* done while the fork is set up: the contract and its balance
  Faults,      \* "db": the node behind the fork may fail in mid-call
  MaxJournal,  \* bound: levels of the journal
  MaxDepth     \* bound: depth

ASSUME ForkAssumption ==
  /\ Deployment \subseteq Effects
  /\ Faults \subseteq {"db"}
  /\ MaxJournal \in Nat
  /\ MaxDepth \in Nat

VARIABLES
  state,        \* the effects the fork's accounts and storage show
  journal,      \* pyrevm's journal: what each level would undo
  depth,        \* journaled_state.depth
  checkpoints,  \* the keys of pyrevm's table of checkpoints
  snapshot,     \* EVM.snapshot, the checkpoint revert goes back to
  commitCount   \* EVM.commit_count

evmVars == <<state, journal, depth, checkpoints, snapshot, commitCount>>

EvmTypeOK ==
  /\ state \subseteq Effects
  /\ journal \in Seq(SUBSET Effects)
  /\ depth \in Nat
  /\ checkpoints \subseteq Nat
  /\ snapshot \in Nat
  /\ commitCount \in Nat

(***************************************************************************)
(* EVM.set: a fresh fork, with the contract deployed and funded when there *)
(* is no address for it, and then the checkpoint.                          *)
(***************************************************************************)
EvmInit ==
  /\ state = Deployment
  /\ journal = <<Deployment, {}>>
  /\ depth = 1
  /\ checkpoints = {1}
  /\ snapshot = 1
  /\ commitCount = 0

-----------------------------------------------------------------------------
(* Calls.                                                                  *)

(* A call runs in a frame of its own: a level of the journal that stays.   *)
Perform(e) ==
  /\ state' = state \union {e}
  /\ journal' = Append(journal, {e})
  /\ UNCHANGED <<depth, checkpoints, snapshot>>

(* Mutations, here and below, are what a slip in the code would make of the
   definition that follows; no action uses them.                           *)
CountForgotten == commitCount

CountIncreased == commitCount + 1

(* The callers that update_commit_count_decorator wraps.                   *)
CountedCall(e) == Perform(e) /\ commitCount' = CountIncreased

(* The others: transfer, put_balance and call_deposit.                     *)
UncountedCall(e) == Perform(e) /\ UNCHANGED commitCount

(* A call that reverts or halts raises; its frame has taken it back.       *)
FailedCall == UNCHANGED evmVars

(***************************************************************************)
(* When the node fails to deliver a part of the state, run_evm returns     *)
(* before the frame is closed: what the call did so far stays, with its    *)
(* level and its depth, and the exception passes the count by.  No revert  *)
(* brings the depth back: MaxDepth bounds it.                              *)
(***************************************************************************)
TornCall(e) ==
  /\ "db" \in Faults
  /\ depth < MaxDepth
  /\ state' = state \union {e}
  /\ journal' = Append(journal, {e})
  /\ depth' = depth + 1
  /\ UNCHANGED <<checkpoints, snapshot, commitCount>>

-----------------------------------------------------------------------------
(* EVM.revert.                                                             *)

UndoneFromSnapshot == IF depth = 0 THEN {} ELSE snapshot .. Len(journal)

(***************************************************************************)
(* The levels pyrevm's revert takes back: those after the snapshot.  None  *)
(* at depth 0, where it raises the OverflowError that EVM.revert ignores.  *)
(***************************************************************************)
Undone == IF depth = 0 THEN {} ELSE (snapshot + 1) .. Len(journal)

Kept == SubSeq(journal, 1, Len(journal) - Cardinality(Undone))

(* Down by one with the checkpoint, and up again with the next.            *)
NewDepth == IF depth = 0 THEN 1 ELSE depth

RevertToSnapshot ==
  /\ state' = state \ UNION {journal[i] : i \in Undone}
  /\ journal' = Append(Kept, {})
  /\ checkpoints' = (IF depth = 0 THEN checkpoints ELSE checkpoints \ {snapshot})
                       \union {Len(Kept)}
  /\ snapshot' = Len(Kept)
  /\ depth' = NewDepth
  /\ commitCount' = 0

Revert ==
  IF commitCount > 0 THEN RevertToSnapshot ELSE UNCHANGED evmVars

(* No call has been torn so far: only those leave depth behind.            *)
Untorn == depth = 1

-----------------------------------------------------------------------------
(* The fork under any client; a call does what has not been done before.   *)

EvmNext ==
  \/ /\ Len(journal) < MaxJournal
     /\ \E e \in Effects \ state : CountedCall(e) \/ UncountedCall(e) \/ TornCall(e)
  \/ Revert

EvmSpec == EvmInit /\ [][EvmNext]_evmVars

-----------------------------------------------------------------------------
(* Properties.                                                             *)

(***************************************************************************)
(* The journal accounts for the state: every effect the fork shows is in   *)
(* one level, the one that would undo it, also after a torn call.          *)
(***************************************************************************)
JournalSound ==
  /\ state = UNION {journal[i] : i \in 1 .. Len(journal)}
  /\ \A i, j \in 1 .. Len(journal) : journal[i] \intersect journal[j] # {} => i = j

(***************************************************************************)
(* EVM.revert never finds its checkpoint gone: neither the OverflowError   *)
(* it ignores nor the KeyError it does not handle can come up.             *)
(***************************************************************************)
CheckpointAlive ==
  /\ depth > 0
  /\ snapshot \in checkpoints
  /\ snapshot < Len(journal)

(***************************************************************************)
(* Once a call has been counted, revert brings back the state EVM.set      *)
(* made, whatever uncounted or torn calls came in between.                 *)
(***************************************************************************)
RevertRestores ==
  [][commitCount > 0 /\ commitCount' = 0 => state' = Deployment]_evmVars
=============================================================================
