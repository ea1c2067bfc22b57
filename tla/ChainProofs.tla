----------------------------- MODULE ChainProofs -----------------------------
(***************************************************************************)
(* Lemmas about Chain: what the node's and the chain's steps keep, whoever *)
(* sends.                                                                  *)
(***************************************************************************)
EXTENDS Chain, TLAPS

(* Sending a well-formed transaction, or having it refused.                *)
LEMMA AcceptType ==
  ASSUME ChainTypeOK, NEW r \in RawTxs, Accept(r)
  PROVE  ChainTypeOK'
BY DEF ChainTypeOK, Accept, Rivals

(* The end of a block: used nonces leave the pool, pins expire.            *)
LEMMA SealType ==
  ASSUME ChainTypeOK, NEW n \in Nat, NEW carried, Seal(n, carried)
  PROVE  /\ nonce' \in Nat
         /\ pool' \subseteq RawTxs
         /\ bundles' \subseteq Bundles
         /\ victim' \in [Txs -> {"new", "pending", "mined"}]
         /\ validator' \in ValidatorKinds
<1>1. pool' \subseteq RawTxs
  <2>1. \A p \in RawTxs : [p EXCEPT !.due = FALSE] \in RawTxs
    BY DEF RawTxs
  <2>2. pool \subseteq RawTxs
    BY DEF ChainTypeOK
  <2>3. pool' = {[p EXCEPT !.due = FALSE] : p \in {q \in pool : q.nonce >= n}}
    BY DEF Seal
  <2> QED
    BY <2>1, <2>2, <2>3
<1>2. victim' \in [Txs -> {"new", "pending", "mined"}]
  BY DEF ChainTypeOK, Seal
<1>3. validator' \in ValidatorKinds
  BY ChainAssumption DEF Seal
<1> QED
  BY <1>1, <1>2, <1>3 DEF ChainTypeOK, Seal

(* A block with the next k transactions of the account.                    *)
LEMMA MineBlockType ==
  ASSUME ChainTypeOK, NEW k \in Nat, MineBlock(k)
  PROVE  ChainTypeOK'
<1>1. nonce + k \in Nat /\ Seal(nonce + k, {})
  BY DEF ChainTypeOK, MineBlock
<1>2. receipts' \subseteq Receipts /\ position' \subseteq Txs
  <2> DEFINE included == {p \in pool : p.nonce < nonce + k}
             Of(kinds, S) == {p.tx : p \in {q \in S : q.kind \in kinds}}
  <2>1. PICK ok \in SUBSET included :
          /\ receipts' = receipts \union
               {[tx |-> p.tx, kind |-> p.kind, ok |-> p \in ok] : p \in included}
          /\ position' = (position \union (Of({"front"}, ok) \ NativeEnd))
                            \ Of({"back", "recover"}, ok)
    BY DEF MineBlock
  <2>2. included \subseteq RawTxs
    BY DEF ChainTypeOK
  <2>3. \A p \in included : [tx |-> p.tx, kind |-> p.kind, ok |-> p \in ok] \in Receipts
    BY <2>2 DEF RawTxs, Receipts
  <2>4. Of({"front"}, ok) \subseteq Txs
    BY <2>1, <2>2 DEF RawTxs
  <2> QED
    BY <2>1, <2>3, <2>4 DEF ChainTypeOK
<1> QED
  BY <1>1, <1>2, SealType DEF ChainTypeOK

(* A block with a bundle.                                                  *)
LEMMA MineBundleType ==
  ASSUME ChainTypeOK, NEW b \in bundles, MineBundle(b)
  PROVE  ChainTypeOK'
<1>1. b \in Bundles
  BY DEF ChainTypeOK
<1>2. PICK n \in Nat : Seal(n, {b.tx})
  BY DEF ChainTypeOK, MineBundle
<1>3. receipts' \subseteq Receipts
  <2>1. \A k \in {"front", "back"} : [tx |-> b.tx, kind |-> k, ok |-> TRUE] \in Receipts
    BY <1>1 DEF Bundles, Receipts, RawTxKinds
  <2>2. receipts' = receipts \union
          {[tx |-> b.tx, kind |-> k, ok |-> TRUE] : k \in {"front", "back"}}
    BY DEF MineBundle
  <2> QED
    BY <2>1, <2>2 DEF ChainTypeOK
<1>4. position' \subseteq Txs
  BY DEF ChainTypeOK, MineBundle
<1> QED
  BY <1>2, <1>3, <1>4, SealType DEF ChainTypeOK
=============================================================================
