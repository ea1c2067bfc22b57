-------------------------------- MODULE Chain --------------------------------
(***************************************************************************)
(* What the bot reads and changes through its node and its relays: the     *)
(* nonce of its one account, the account's transactions in the node's      *)
(* pool, the bundles the relays hold, the receipts, and which validator    *)
(* builds the next block.  The node is not in the repository; it is        *)
(* modelled from how src/src/apis/simple.py and                            *)
(* src/src/apis/transaction.py use it.                                     *)
(*                                                                         *)
(* A block height matters to the code only through "is it the block I      *)
(* saw" and "is it the next one", so heights are relative: a transaction   *)
(* pinned to a height is `due' while that height is the next block's.      *)
(*                                                                         *)
(* A sandwich sends a front run, a back run and at times a recovery; an    *)
(* arbitrage one transaction, the run.                                     *)
(*                                                                         *)
(* An attack is named by the victim transaction it was built for.  Each    *)
(* attack ends in a token of its own, so that the contract holds the       *)
(* output of a front run exactly while that attack is in `position'.       *)
(***************************************************************************)
EXTENDS Integers, FiniteSets

CONSTANTS
  Txs,        \* victim transactions that reach the mempool
  NativeEnd,  \* those whose attack path ends in the wrapped native token
  Validators, \* who may build a block, a subset of ValidatorKinds
  Faults      \* "rpc": a call to the node may fail; "drop": the pool evicts;
              \* "index": receipts may be asked for while they are indexed

ValidatorKinds == {"general", "48club", "bloxroute"}

ASSUME ChainAssumption ==
  /\ IsFiniteSet(Txs)
  /\ NativeEnd \subseteq Txs
  /\ Validators \subseteq ValidatorKinds
  /\ Validators # {}
  /\ Faults \subseteq {"rpc", "drop", "index"}

VARIABLES
  nonce,      \* get_transaction_count of the account at the latest block
  pool,       \* the account's transactions the node holds, not yet mined
  bundles,    \* the bundles the relays hold
  receipts,   \* the account's mined transactions and whether they succeeded
  victim,     \* where each victim transaction is
  position,   \* attacks whose front run's output the contract still holds
  validator   \* who builds the next block

chainVars == <<nonce, pool, bundles, receipts, victim, position, validator>>

RawTxKinds == {"front", "back", "recover", "run"}
RawTxs == [tx: Txs, kind: RawTxKinds, nonce: Nat, due: BOOLEAN]
Receipts == [tx: Txs, kind: RawTxKinds, ok: BOOLEAN]

(***************************************************************************)
(* The shared value accessible_block_number: 0, -1 or a height, read as    *)
(* the kind of validator it stands for and, for a height, whether it is    *)
(* still the height of the next block.                                     *)
(***************************************************************************)
Accessible == [kind: ValidatorKinds, due: BOOLEAN]
Bundles == [tx: Txs, relay: {"48club", "bloxroute"}, nonce: Nat, target: Accessible]

ChainTypeOK ==
  /\ nonce \in Nat
  /\ pool \subseteq RawTxs
  /\ bundles \subseteq Bundles
  /\ receipts \subseteq Receipts
  /\ victim \in [Txs -> {"new", "pending", "mined"}]
  /\ position \subseteq Txs
  /\ validator \in ValidatorKinds

ChainInit ==
  /\ nonce = 0
  /\ pool = {}
  /\ bundles = {}
  /\ receipts = {}
  /\ victim = [t \in Txs |-> "new"]
  /\ position = {}
  /\ validator \in Validators

-----------------------------------------------------------------------------
(* What the code asks the node.                                            *)

IsPending(t, kind) == \E p \in pool : p.tx = t /\ p.kind = kind

HasReceipt(t, kind, ok) == [tx |-> t, kind |-> kind, ok |-> ok] \in receipts

(***************************************************************************)
(* send_raw_transaction.  The node accepts a transaction of a nonce that   *)
(* is not used up; one of the same nonce in the pool is then replaced.  It *)
(* refuses a used nonce ("nonce too low") and may refuse a replacement     *)
(* ("replacement transaction underpriced"): prices are abstracted to that  *)
(* choice.                                                                 *)
(***************************************************************************)
Rivals(r) == {p \in pool : p.nonce = r.nonce}

Accept(r) ==
  /\ r.nonce >= nonce
  /\ pool' = (pool \ Rivals(r)) \union {r}
  /\ UNCHANGED <<nonce, bundles, receipts, victim, position, validator>>

MayRefuse(r) == r.nonce < nonce \/ Rivals(r) # {}

-----------------------------------------------------------------------------
(* The next block.                                                         *)

(***************************************************************************)
(* What remains once the block is built: the pool forgets used nonces, no  *)
(* pinned height is the next one any more, bloXroute's bundles for the     *)
(* block are void, and some of the pending victims, the bundle's own among *)
(* them, are in the block.                                                 *)
(***************************************************************************)
Seal(newNonce, carried) ==
  /\ nonce' = newNonce
  /\ pool' = {[p EXCEPT !.due = FALSE] : p \in {q \in pool : q.nonce >= newNonce}}
  /\ bundles' = {b \in bundles : b.relay = "48club" /\ b.nonce >= newNonce}
  /\ \E mined \in SUBSET {t \in Txs : victim[t] = "pending"} :
        victim' = [t \in Txs |-> IF t \in mined \union carried THEN "mined" ELSE victim[t]]
  /\ validator' \in Validators

(***************************************************************************)
(* Success of a contract call: a back run needs the tokens it sells (the   *)
(* contract requires the balance) and, pinned by sandwichBackRunDifficult, *)
(* its block; anything else may revert for reasons of the pools.           *)
(***************************************************************************)
MaySucceed(p, ok) ==
  /\ p.kind = "back" => p.due
  /\ p.kind # "front" /\ p.tx \notin NativeEnd =>
        \/ p.tx \in position
        \/ \E q \in ok : q.tx = p.tx /\ q.kind = "front" /\ q.nonce < p.nonce

(* A block with the account's next k transactions, of which ok succeed.    *)
MineBlock(k) ==
  LET included == {p \in pool : p.nonce < nonce + k}
      Of(kinds, S) == {p.tx : p \in {q \in S : q.kind \in kinds}}
  IN  /\ {p.nonce : p \in included} = nonce .. (nonce + k - 1)
      /\ \E ok \in SUBSET included :
           /\ \A p \in ok : MaySucceed(p, ok)
           /\ receipts' = receipts \union
                {[tx |-> p.tx, kind |-> p.kind, ok |-> p \in ok] : p \in included}
           /\ position' = (position \union (Of({"front"}, ok) \ NativeEnd))
                             \ Of({"back", "recover"}, ok)
      /\ Seal(nonce + k, {})

(***************************************************************************)
(* A block with a bundle: front run, victim and back run execute in order  *)
(* and all succeed, or the bundle is not included.  48 Club's bundle also  *)
(* carries the account's own fee transaction.                              *)
(***************************************************************************)
MineBundle(b) ==
  /\ b.nonce = nonce
  /\ validator = b.relay
  /\ b.relay = "bloxroute" => b.target.due
  /\ victim[b.tx] = "pending"
  /\ receipts' = receipts \union
       {[tx |-> b.tx, kind |-> k, ok |-> TRUE] : k \in {"front", "back"}}
  /\ UNCHANGED position
  /\ Seal(nonce + IF b.relay = "48club" THEN 3 ELSE 2, {b.tx})

(* 48 Club drops a bundle when its maxTimestamp passes.                    *)
ExpireBundle(b) ==
  /\ bundles' = bundles \ {b}
  /\ UNCHANGED <<nonce, pool, receipts, victim, position, validator>>

(* The pool evicts a transaction.                                          *)
Evict(p) ==
  /\ "drop" \in Faults
  /\ pool' = pool \ {p}
  /\ UNCHANGED <<nonce, bundles, receipts, victim, position, validator>>

=============================================================================
