----------------------- MODULE ArbitragePipelineProofs -----------------------
(***************************************************************************)
(* Theorems about ArbitragePipeline, for every number of workers and       *)
(* transactions and every queue bound.                                     *)
(***************************************************************************)
EXTENDS ArbitragePipeline, ChainProofs

(***************************************************************************)
(* TypeOK is not inductive: SendSingle and SendBundle take the transaction *)
(* from wtx, and only the control state says there is one.                 *)
(***************************************************************************)
Occupied == \A w \in Workers : wtx[w] = NoTx <=> pc[w] \in {"idle", "get"}

TypeInv == TypeOK /\ Occupied

-----------------------------------------------------------------------------
(* Type correctness.                                                       *)

(***************************************************************************)
(* How a worker goes from one of its states to another: within the         *)
(* handling of a transaction, back to the top of the loop, or to the get.  *)
(***************************************************************************)
Moves(w) ==
  \/ Finish(w)
  \/ At(w, "idle") /\ Goto(w, "get")
  \/ /\ pc[w] \notin {"idle", "get"}
     /\ \E s \in WorkerStates \ {"idle", "get"} : Goto(w, s)

LEMMA MovesType ==
  ASSUME TypeInv, NEW w \in Workers, Moves(w)
  PROVE  /\ pc' \in [Workers -> WorkerStates]
         /\ wtx' \in [Workers -> Txs \union {NoTx}]
         /\ \A v \in Workers : wtx'[v] = NoTx <=> pc'[v] \in {"idle", "get"}
<1> USE DEF TypeInv, TypeOK, Occupied
<1>1. CASE Finish(w)
  BY <1>1 DEF Finish, WorkerStates
<1>2. CASE At(w, "idle") /\ Goto(w, "get")
  BY <1>2 DEF At, Goto, WorkerStates
<1>3. ASSUME pc[w] \notin {"idle", "get"},
             NEW s \in WorkerStates \ {"idle", "get"}, Goto(w, s)
      PROVE  /\ pc' \in [Workers -> WorkerStates]
             /\ wtx' \in [Workers -> Txs \union {NoTx}]
             /\ \A v \in Workers : wtx'[v] = NoTx <=> pc'[v] \in {"idle", "get"}
  BY <1>3 DEF Goto
<1> QED
  BY <1>1, <1>2, <1>3 DEF Moves

(***************************************************************************)
(* The steps of a worker that neither take a transaction nor send one only *)
(* move it, and set what it has read of the nonce or of the target.        *)
(***************************************************************************)
LEMMA WorkerMoves ==
  ASSUME NEW w \in Workers, Work(w) \/ RpcFails(w),
         ~Get(w), ~SendSingle(w), ~SendBundle(w)
  PROVE  /\ UNCHANGED <<chainVars, txQueue, accessible>>
         /\ Moves(w)
         /\ seqno' \in {seqno, [seqno EXCEPT ![w] = nonce]}
         /\ target' \in {target, [target EXCEPT ![w] = accessible]}
<1> USE DEF At, Rest, Quiet, Moves, WorkerStates
<1>1. CASE CheckEmpty(w) \/ Search(w) \/ CheckVictim(w) \/ RpcFails(w)
  BY <1>1 DEF CheckEmpty, Search, CheckVictim, RpcFails
<1>2. CASE CheckProfit(w) \/ CheckFees(w) \/ ReadTarget(w)
  BY <1>2 DEF CheckProfit, Route, CheckFees, ReadTarget
<1>3. CASE ReadNonce(w, "singleNonce", "singleSend") \/ ReadNonce(w, "bundleNonce", "bundleSend")
  BY <1>3 DEF ReadNonce, NextNonce
<1> QED
  BY <1>1, <1>2, <1>3 DEF Work

LEMMA TypeInit == Init => TypeInv
BY ChainAssumption
DEF Init, ChainInit, TypeInv, Occupied, TypeOK, ChainTypeOK, WorkerStates, NoTarget,
    Accessible, ValidatorKinds

LEMMA StreamType ==
  ASSUME TypeInv, Announce \/ \E t \in Txs : Receive(t)
  PROVE  TypeInv'
<1> USE DEF TypeInv, Occupied, TypeOK, ChainTypeOK, workerVars
<1>1. ASSUME NEW t \in Txs, Receive(t) PROVE TypeInv'
  <2>1. victim' \in [Txs -> {"new", "pending", "mined"}]
    BY <1>1 DEF Receive
  <2>2. txQueue' \in Seq(Txs)
    <3>1. txQueue' = Append(txQueue, t) \/ txQueue' = txQueue
      BY <1>1 DEF Receive
    <3>2. txQueue \in Seq(Txs)
      OBVIOUS
    <3> HIDE DEF TypeInv, TypeOK, Occupied, ChainTypeOK, workerVars
    <3> QED
      BY <3>1, <3>2
  <2> QED
    BY <1>1, <2>1, <2>2 DEF Receive
<1>2. CASE Announce
  BY <1>2 DEF Announce, chainVars, Accessible
<1> QED
  BY <1>1, <1>2

(* A block with a bundle: what becomes of the nonce and of the receipts.   *)
LEMMA RunMinedType ==
  ASSUME ChainTypeOK, NEW b \in bundles, MineWithBundle(b)
  PROVE  ChainTypeOK'
<1>1. [tx |-> b.tx, kind |-> "run", ok |-> TRUE] \in Receipts
  BY DEF ChainTypeOK, Bundles, Receipts, RawTxKinds
<1>2. nonce + 1 \in Nat /\ Seal(nonce + 1, {b.tx})
  BY DEF ChainTypeOK, MineWithBundle
<1> QED
  BY <1>1, <1>2, SealType DEF ChainTypeOK, MineWithBundle

LEMMA NodeType ==
  ASSUME TypeInv, Node
  PROVE  TypeInv'
<1>1. ASSUME ViewsAge, ChainTypeOK' PROVE TypeInv'
  <2>1. accessible' \in Accessible /\ target' \in [Workers -> Accessible]
    BY <1>1 DEF ViewsAge, TypeInv, TypeOK, Accessible
  <2> QED
    BY <1>1, <2>1 DEF ViewsAge, TypeInv, TypeOK, Occupied
<1>2. ASSUME NEW k \in 0 .. Cardinality(pool), Mine(k) PROVE TypeInv'
  BY <1>1, <1>2, MineBlockType DEF Mine, TypeInv, TypeOK
<1>3. ASSUME NEW b \in bundles, MineWithBundle(b) PROVE TypeInv'
  BY <1>1, <1>3, RunMinedType DEF MineWithBundle, TypeInv, TypeOK
<1>4. ASSUME NEW p \in pool, NodeForgets(p) PROVE TypeInv'
  BY <1>4 DEF NodeForgets, Evict, TypeInv, Occupied, TypeOK, ChainTypeOK, workerVars
<1> QED
  BY <1>2, <1>3, <1>4 DEF Node

LEMMA WorkerType ==
  ASSUME TypeInv, NEW w \in Workers, Work(w) \/ RpcFails(w)
  PROVE  TypeInv'
<1> USE DEF At
<1>1. CASE ~Get(w) /\ ~SendSingle(w) /\ ~SendBundle(w)
  <2>1. seqno' \in [Workers -> Nat] /\ target' \in [Workers -> Accessible]
    BY <1>1, WorkerMoves DEF TypeInv, TypeOK, ChainTypeOK
  <2> QED
    BY <1>1, <2>1, WorkerMoves, MovesType DEF TypeInv, Occupied, TypeOK, ChainTypeOK, chainVars
<1>2. CASE Get(w)
  <2>1. Head(txQueue) \in Txs /\ txQueue' \in Seq(Txs)
    BY <1>2 DEF Get, Dequeued, TypeInv, TypeOK
  <2> QED
    BY <1>2, <2>1, ArbitrageAssumption
    DEF Get, TypeInv, Occupied, TypeOK, ChainTypeOK, chainVars, WorkerStates
<1>3. CASE SendSingle(w)
  <2> DEFINE run == [tx |-> wtx[w], kind |-> "run", nonce |-> seqno[w], due |-> FALSE]
  <2>1. wtx[w] \in Txs
    BY <1>3 DEF SendSingle, TypeInv, Occupied, TypeOK
  <2>2. run \in RawTxs
    BY <2>1 DEF RawTxs, RawTxKinds, TypeInv, TypeOK
  <2>3. ChainTypeOK'
    BY <1>3, <2>2, AcceptType DEF SendSingle, chainVars, ChainTypeOK, TypeInv, TypeOK
  <2>4. Moves(w)
    BY <1>3 DEF SendSingle, AfterSingle, Moves
  <2> QED
    BY <1>3, <2>3, <2>4, MovesType DEF SendSingle, Rest, TypeInv, Occupied, TypeOK
<1>4. CASE SendBundle(w)
  <2>1. [tx |-> wtx[w], relay |-> "bloxroute", nonce |-> seqno[w], target |-> target[w]]
          \in Bundles
    BY <1>4 DEF SendBundle, Bundles, TypeInv, Occupied, TypeOK
  <2>2. bundles' \subseteq Bundles
    BY <1>4, <2>1 DEF SendBundle, TypeInv, TypeOK, ChainTypeOK
  <2> QED
    BY <1>4, <2>2, MovesType
    DEF SendBundle, Moves, TypeInv, Occupied, TypeOK, ChainTypeOK, Rest
<1> QED
  BY <1>1, <1>2, <1>3, <1>4

LEMMA TypeNext == TypeInv /\ [Next]_vars => TypeInv'
<1> SUFFICES ASSUME TypeInv, [Next]_vars PROVE TypeInv'
  OBVIOUS
<1>1. CASE Next
  BY <1>1, StreamType, NodeType, WorkerType DEF Next
<1>2. CASE UNCHANGED vars
  BY <1>2 DEF vars, chainVars, workerVars, TypeInv, Occupied, TypeOK, ChainTypeOK
<1> QED
  BY <1>1, <1>2

(***************************************************************************)
(* Every variable keeps its type; what reaches the pool or a relay names a *)
(* transaction and a nonce that was read.                                  *)
(***************************************************************************)
THEOREM TypeCorrect == Spec => []TypeOK
<1>1. TypeInv => TypeOK
  BY DEF TypeInv
<1> QED
  BY <1>1, TypeInit, TypeNext, PTL DEF Spec

THEOREM TypeInvariant == Spec => []TypeInv
BY TypeInit, TypeNext, PTL DEF Spec

-----------------------------------------------------------------------------
(* The pool.                                                               *)

(***************************************************************************)
(* A nonce that a worker has read was the next one then, and the next one  *)
(* only grows.  So the chain takes what it sends only if it still is the   *)
(* next one, and then all that is in the pool is its rival.                *)
(***************************************************************************)
NoncesAreRead == \A w \in Workers : seqno[w] <= nonce

AloneInv == TypeInv /\ RunsNeverQueue /\ NoncesAreRead

LEMMA AloneInit == Init => AloneInv
BY TypeInit DEF Init, ChainInit, AloneInv, RunsNeverQueue, NoncesAreRead

(***************************************************************************)
(* The end of a block: what is left in the pool is what was there, and     *)
(* only when the nonce stands.                                             *)
(***************************************************************************)
LEMMA SealAlone ==
  ASSUME TypeInv, RunsNeverQueue, NoncesAreRead, NEW k \in Nat, NEW carried,
         Seal(nonce + k, carried), UNCHANGED seqno
  PROVE  RunsNeverQueue' /\ NoncesAreRead'
<1>1. nonce \in Nat /\ \A w \in Workers : seqno[w] \in Nat
  BY DEF TypeInv, TypeOK, ChainTypeOK
<1>2. \A p \in pool : p.nonce = nonce /\ [p EXCEPT !.due = FALSE].nonce = nonce
  BY DEF RunsNeverQueue, TypeInv, TypeOK, ChainTypeOK, RawTxs
<1>3. NoncesAreRead'
  BY <1>1 DEF NoncesAreRead, Seal
<1>4. /\ nonce' = nonce + k
      /\ pool' = {[p EXCEPT !.due = FALSE] : p \in {q \in pool : q.nonce >= nonce + k}}
  BY DEF Seal
<1>5. ASSUME NEW p \in pool' PROVE p.nonce = nonce /\ k = 0
  <2>1. PICK q \in pool : q.nonce >= nonce + k /\ p = [q EXCEPT !.due = FALSE]
    BY <1>4
  <2> QED
    BY <1>1, <1>2, <2>1
<1>6. \A p, q \in pool' : p = q
  BY <1>4 DEF RunsNeverQueue
<1> QED
  BY <1>1, <1>3, <1>4, <1>5, <1>6 DEF RunsNeverQueue

LEMMA AloneNext == AloneInv /\ [Next]_vars => AloneInv'
<1> SUFFICES ASSUME AloneInv, [Next]_vars PROVE RunsNeverQueue' /\ NoncesAreRead'
  BY TypeNext DEF AloneInv
<1>1. ASSUME UNCHANGED <<nonce, pool, seqno>> PROVE RunsNeverQueue' /\ NoncesAreRead'
  BY <1>1 DEF AloneInv, RunsNeverQueue, NoncesAreRead
<1>2. CASE Announce \/ \E t \in Txs : Receive(t)
  BY <1>1, <1>2 DEF Announce, Receive, chainVars, workerVars
<1>3. ASSUME NEW k \in 0 .. Cardinality(pool), Mine(k)
      PROVE  RunsNeverQueue' /\ NoncesAreRead'
  <2>1. k \in Nat /\ Seal(nonce + k, {}) /\ UNCHANGED seqno
    BY <1>3 DEF Mine, MineBlock, ViewsAge
  <2> QED
    BY <2>1, SealAlone DEF AloneInv
<1>4. ASSUME NEW b \in bundles, MineWithBundle(b)
      PROVE  RunsNeverQueue' /\ NoncesAreRead'
  <2>1. Seal(nonce + 1, {b.tx}) /\ UNCHANGED seqno
    BY <1>4 DEF MineWithBundle, ViewsAge
  <2> QED
    BY <2>1, SealAlone DEF AloneInv
<1>5. ASSUME NEW p \in pool, NodeForgets(p) PROVE RunsNeverQueue' /\ NoncesAreRead'
  BY <1>5 DEF NodeForgets, Evict, workerVars, AloneInv, RunsNeverQueue, NoncesAreRead
<1>6. ASSUME NEW w \in Workers, Work(w) \/ RpcFails(w)
      PROVE  RunsNeverQueue' /\ NoncesAreRead'
  <2>1. CASE ~Get(w) /\ ~SendSingle(w) /\ ~SendBundle(w)
    <3>1. UNCHANGED <<nonce, pool>> /\ seqno' \in {seqno, [seqno EXCEPT ![w] = nonce]}
      BY <1>6, <2>1, WorkerMoves DEF chainVars
    <3>2. NoncesAreRead'
      BY <3>1 DEF AloneInv, NoncesAreRead, TypeInv, TypeOK, ChainTypeOK
    <3> QED
      BY <3>1, <3>2 DEF AloneInv, RunsNeverQueue
  <2>2. CASE Get(w) \/ SendBundle(w)
    BY <1>1, <2>2 DEF Get, SendBundle, Rest, chainVars
  <2>3. CASE SendSingle(w)
    <3> DEFINE run == [tx |-> wtx[w], kind |-> "run", nonce |-> seqno[w], due |-> FALSE]
    <3>1. UNCHANGED <<nonce, seqno>>
      BY <2>3 DEF SendSingle, Accept, chainVars
    <3>2. CASE UNCHANGED pool
      BY <1>1, <3>1, <3>2
    <3>3. CASE Accept(run)
      <4>1. seqno[w] = nonce
        BY <3>3 DEF Accept, AloneInv, NoncesAreRead, TypeInv, TypeOK, ChainTypeOK
      <4>2. Rivals(run) = pool
        BY <4>1 DEF Rivals, AloneInv, RunsNeverQueue
      <4>3. pool' = {run}
        BY <3>3, <4>2 DEF Accept
      <4> QED
        BY <3>1, <4>1, <4>3 DEF AloneInv, RunsNeverQueue, NoncesAreRead
    <3> QED
      BY <2>3, <3>2, <3>3 DEF SendSingle, chainVars
  <2> QED
    BY <2>1, <2>2, <2>3
<1>7. CASE UNCHANGED vars
  BY <1>1, <1>7 DEF vars, chainVars, workerVars
<1> QED
  BY <1>2, <1>3, <1>4, <1>5, <1>6, <1>7 DEF Next, Node

(***************************************************************************)
(* However many workers there are, their transactions replace each other   *)
(* at the account's next nonce and never wait behind one another.          *)
(***************************************************************************)
THEOREM RunsReplaceEachOther == Spec => []RunsNeverQueue
<1>1. AloneInv => RunsNeverQueue
  BY DEF AloneInv
<1> QED
  BY <1>1, AloneInit, AloneNext, PTL DEF Spec

-----------------------------------------------------------------------------
(* Who has a victim, and what was sent for it.                             *)

InQueue(t) == \E i \in 1 .. Len(txQueue) : txQueue[i] = t

Taken(t) == \E w \in Workers : wtx[w] = t

(* A victim is in one place, and was delivered before it is anywhere.      *)
OnePlace ==
  /\ \A i, j \in 1 .. Len(txQueue) : txQueue[i] = txQueue[j] => i = j
  /\ \A v, w \in Workers : wtx[v] = wtx[w] /\ wtx[v] # NoTx => v = w
  /\ \A t \in Txs : InQueue(t) => ~Taken(t)
  /\ \A t \in Txs : InQueue(t) \/ Taken(t) => victim[t] # "new"

Sent(t) ==
  \/ \E p \in pool : p.tx = t
  \/ \E b \in bundles : b.tx = t
  \/ \E r \in receipts : r.tx = t

(* Nothing was sent for a victim that still may be.                        *)
NotYetSent ==
  \A t \in Txs : victim[t] = "new" \/ InQueue(t) \/ Taken(t) => ~Sent(t)

(***************************************************************************)
(* OneRunPerVictim, without the tags, and what a block with a bundle needs *)
(* for the bundle to be gone after it.                                     *)
(***************************************************************************)
SentOnce ==
  /\ \A b, c \in bundles : b.tx = c.tx => b = c
  /\ \A r, s \in receipts : r.tx = s.tx => r = s
  /\ \A p \in pool, b \in bundles : p.tx # b.tx
  /\ \A p \in pool, r \in receipts : p.tx # r.tx
  /\ \A b \in bundles, r \in receipts : b.tx # r.tx
  /\ \A b \in bundles : b.relay = "bloxroute"

OnceInv == AloneInv /\ OnePlace /\ NotYetSent /\ SentOnce

LEMMA OnceInit == Init => OnceInv
BY AloneInit, ArbitrageAssumption
DEF Init, ChainInit, OnceInv, OnePlace, NotYetSent, SentOnce, InQueue, Taken, Sent

(***************************************************************************)
(* A step that takes no victim and sends nothing new: whatever is in the   *)
(* queue or with a worker was there before.                                *)
(***************************************************************************)
LEMMA NothingNew ==
  ASSUME OnceInv, UNCHANGED txQueue,
         \A v \in Workers : wtx'[v] \in {wtx[v], NoTx},
         \A t \in Txs : victim'[t] = "new" <=> victim[t] = "new",
         \A t \in Txs : Sent(t)' => Sent(t)
  PROVE  OnePlace' /\ NotYetSent'
<1>1. NoTx \notin Txs
  BY ArbitrageAssumption
<1>2. \A t \in Txs : (InQueue(t)' <=> InQueue(t)) /\ (Taken(t)' => Taken(t))
  BY <1>1 DEF InQueue, Taken
<1>3. OnePlace'
  BY <1>2 DEF OnceInv, OnePlace
<1> QED
  BY <1>2, <1>3 DEF OnceInv, NotYetSent

LEMMA OnceReceive ==
  ASSUME OnceInv, NEW t \in Txs, Receive(t)
  PROVE  OnePlace' /\ NotYetSent' /\ SentOnce'
<1>1. /\ UNCHANGED <<pool, bundles, receipts, wtx>>
      /\ victim[t] = "new"
      /\ victim' = [victim EXCEPT ![t] = "pending"]
      /\ txQueue' = Append(txQueue, t) \/ txQueue' = txQueue
  BY DEF Receive, workerVars
<1>2. \A u \in Txs : victim'[u] = "new" => u # t /\ victim[u] = "new"
  BY <1>1 DEF OnceInv, AloneInv, TypeInv, TypeOK, ChainTypeOK
<1>3. victim'[t] # "new" /\ \A u \in Txs : u # t => victim'[u] = victim[u]
  BY <1>1 DEF OnceInv, AloneInv, TypeInv, TypeOK, ChainTypeOK
<1>4. \A u : (Sent(u)' <=> Sent(u)) /\ (Taken(u)' <=> Taken(u))
  BY <1>1 DEF Sent, Taken
<1>5. ~InQueue(t) /\ ~Taken(t) /\ ~Sent(t)
  BY <1>1 DEF OnceInv, OnePlace, NotYetSent
<1>6. txQueue \in Seq(Txs)
  BY DEF OnceInv, AloneInv, TypeInv, TypeOK
<1>7. \A i \in 1 .. Len(txQueue') :
        \/ i \in 1 .. Len(txQueue) /\ txQueue'[i] = txQueue[i]
        \/ i = Len(txQueue) + 1 /\ txQueue'[i] = t
  BY <1>1, <1>6
<1>8. \A u : InQueue(u)' => InQueue(u) \/ u = t
  BY <1>7 DEF InQueue
<1>9. \A i, j \in 1 .. Len(txQueue') : txQueue'[i] = txQueue'[j] => i = j
  <2>1. \A i \in 1 .. Len(txQueue) : txQueue[i] # t
    BY <1>5 DEF InQueue
  <2>2. \A i, j \in 1 .. Len(txQueue) : txQueue[i] = txQueue[j] => i = j
    BY DEF OnceInv, OnePlace
  <2> QED
    BY <1>7, <2>1, <2>2
<1>10. OnePlace'
  <2>1. \A v, w \in Workers : wtx'[v] = wtx'[w] /\ wtx'[v] # NoTx => v = w
    BY <1>1 DEF OnceInv, OnePlace
  <2>2. \A u \in Txs : InQueue(u)' => ~Taken(u)'
    BY <1>4, <1>5, <1>8 DEF OnceInv, OnePlace
  <2>3. \A u \in Txs : InQueue(u)' \/ Taken(u)' => victim'[u] # "new"
    BY <1>2, <1>4, <1>8 DEF OnceInv, OnePlace
  <2> QED
    BY <1>9, <2>1, <2>2, <2>3 DEF OnePlace
<1>11. NotYetSent'
  BY <1>2, <1>4, <1>5, <1>8 DEF OnceInv, NotYetSent
<1>12. SentOnce'
  BY <1>1 DEF OnceInv, SentOnce
<1> QED
  BY <1>10, <1>11, <1>12

LEMMA OnceGet ==
  ASSUME OnceInv, NEW w \in Workers, Get(w)
  PROVE  OnePlace' /\ NotYetSent' /\ SentOnce'
<1> DEFINE h == txQueue[1]
<1>1. /\ txQueue \in Seq(Txs) /\ txQueue # <<>> /\ txQueue' = Tail(txQueue)
      /\ UNCHANGED <<pool, bundles, receipts, victim>>
      /\ wtx' = [wtx EXCEPT ![w] = h]
  BY DEF Get, Dequeued, chainVars, OnceInv, AloneInv, TypeInv, TypeOK
<1>2. h \in Txs /\ 1 \in 1 .. Len(txQueue) /\ h # NoTx
  BY <1>1, ArbitrageAssumption
<1>3. InQueue(h) /\ ~Taken(h)
  BY <1>2 DEF InQueue, OnceInv, OnePlace
<1>4. ASSUME NEW i \in 1 .. Len(txQueue')
      PROVE  /\ i \in Int /\ i + 1 \in 1 .. Len(txQueue) /\ i + 1 # 1
             /\ txQueue'[i] = txQueue[i + 1]
  BY <1>1
<1>5. \A i \in 1 .. Len(txQueue') : txQueue'[i] # h
  BY <1>2, <1>4 DEF OnceInv, OnePlace
<1>6. /\ wtx'[w] = h
      /\ \A v \in Workers : v # w => wtx'[v] = wtx[v]
  BY <1>1 DEF OnceInv, AloneInv, TypeInv, TypeOK
<1>7. \A t : /\ InQueue(t)' => InQueue(t) /\ t # h
             /\ Taken(t)' => Taken(t) \/ t = h
             /\ Sent(t)' <=> Sent(t)
  <2>1. \A t : InQueue(t)' => InQueue(t) /\ t # h
    BY <1>4, <1>5 DEF InQueue
  <2>2. \A t : Taken(t)' => Taken(t) \/ t = h
    BY <1>6 DEF Taken
  <2>3. \A t : Sent(t)' <=> Sent(t)
    BY <1>1 DEF Sent
  <2> QED
    BY <2>1, <2>2, <2>3
<1>8. \A i, j \in 1 .. Len(txQueue') : txQueue'[i] = txQueue'[j] => i = j
  BY <1>4 DEF OnceInv, OnePlace
<1>9. \A u, v \in Workers : wtx'[u] = wtx'[v] /\ wtx'[u] # NoTx => u = v
  BY <1>3, <1>6 DEF OnceInv, OnePlace, Taken
<1>10. OnePlace'
  <2> HIDE DEF h
  <2>1. \A t \in Txs : InQueue(t)' => ~Taken(t)'
    BY <1>7 DEF OnceInv, OnePlace
  <2>2. \A t \in Txs : InQueue(t)' \/ Taken(t)' => victim'[t] # "new"
    BY <1>1, <1>3, <1>7 DEF OnceInv, OnePlace
  <2> QED
    BY <1>8, <1>9, <2>1, <2>2 DEF OnePlace
<1>11. NotYetSent'
  <2> HIDE DEF h
  <2> QED
    BY <1>1, <1>3, <1>7 DEF OnceInv, NotYetSent
<1>12. SentOnce'
  BY <1>1 DEF OnceInv, SentOnce
<1> QED
  BY <1>10, <1>11, <1>12

(***************************************************************************)
(* A worker sends what it has taken and lets go of it: nothing was sent    *)
(* for that victim before, and nobody is left to send anything else.       *)
(***************************************************************************)
LEMMA OnceSend ==
  ASSUME OnceInv, NEW w \in Workers, wtx[w] \in Txs, Finish(w), UNCHANGED <<txQueue, victim>>,
         \A t \in Txs : Sent(t)' => Sent(t) \/ t = wtx[w]
  PROVE  OnePlace' /\ NotYetSent' /\ ~Sent(wtx[w])
<1>1. /\ wtx'[w] = NoTx
      /\ \A v \in Workers : v # w => wtx'[v] = wtx[v]
  BY DEF Finish, OnceInv, AloneInv, TypeInv, TypeOK
<1>2. NoTx \notin Txs
  BY ArbitrageAssumption
<1>3. \A t : InQueue(t)' <=> InQueue(t)
  BY DEF InQueue
<1>4. \A t \in Txs : Taken(t)' => Taken(t) /\ t # wtx[w]
  BY <1>1, <1>2 DEF Taken, OnceInv, OnePlace
<1>5. Taken(wtx[w]) /\ ~InQueue(wtx[w])
  BY DEF Taken, OnceInv, OnePlace
<1>6. victim[wtx[w]] # "new" /\ ~Sent(wtx[w])
  BY <1>5 DEF OnceInv, OnePlace, NotYetSent
<1>7. OnePlace'
  <2>1. \A u, v \in Workers : wtx'[u] = wtx'[v] /\ wtx'[u] # NoTx => u = v
    BY <1>1 DEF OnceInv, OnePlace
  <2>2. \A i, j \in 1 .. Len(txQueue') : txQueue'[i] = txQueue'[j] => i = j
    BY DEF OnceInv, OnePlace
  <2> QED
    BY <1>3, <1>4, <2>1, <2>2 DEF OnceInv, OnePlace
<1>8. NotYetSent'
  BY <1>3, <1>4, <1>5, <1>6 DEF OnceInv, NotYetSent
<1> QED
  BY <1>6, <1>7, <1>8

LEMMA OnceWorker ==
  ASSUME OnceInv, AloneInv', NEW w \in Workers, Work(w) \/ RpcFails(w)
  PROVE  OnePlace' /\ NotYetSent' /\ SentOnce'
<1>1. CASE ~Get(w) /\ ~SendSingle(w) /\ ~SendBundle(w)
  <2>1. /\ UNCHANGED <<pool, bundles, receipts, victim, txQueue>>
        /\ \A v \in Workers : wtx'[v] \in {wtx[v], NoTx}
    BY <1>1, WorkerMoves DEF chainVars, Moves, Finish, Goto, OnceInv, AloneInv, TypeInv, TypeOK
  <2>2. OnePlace' /\ NotYetSent'
    BY <2>1, NothingNew DEF Sent
  <2> QED
    BY <2>1, <2>2 DEF OnceInv, SentOnce
<1>2. CASE Get(w)
  BY <1>2, OnceGet
<1>3. CASE SendSingle(w)
  <2> DEFINE run == [tx |-> wtx[w], kind |-> "run", nonce |-> seqno[w], due |-> FALSE]
  <2>1. /\ wtx[w] \in Txs /\ Finish(w)
        /\ UNCHANGED <<txQueue, victim, bundles, receipts>>
        /\ pool' = (pool \ Rivals(run)) \union {run} \/ pool' = pool
    BY <1>3 DEF SendSingle, AfterSingle, Accept, Rest, chainVars, At, OnceInv, AloneInv,
                TypeInv, TypeOK, Occupied
  <2>2. \A p \in pool' : p \in pool \/ p.tx = wtx[w]
    BY <2>1
  <2>3. \A t : Sent(t)' => Sent(t) \/ t = wtx[w]
    BY <2>1, <2>2 DEF Sent
  <2>4. OnePlace' /\ NotYetSent' /\ ~Sent(wtx[w])
    BY <2>1, <2>3, OnceSend
  <2>5. SentOnce'
    BY <2>1, <2>2, <2>4 DEF OnceInv, SentOnce, Sent
  <2> QED
    BY <2>4, <2>5
<1>4. CASE SendBundle(w)
  <2> DEFINE bundle ==
        [tx |-> wtx[w], relay |-> "bloxroute", nonce |-> seqno[w], target |-> target[w]]
  <2>1. /\ wtx[w] \in Txs /\ Finish(w)
        /\ UNCHANGED <<txQueue, victim, pool, receipts>>
        /\ bundles' = bundles \union {bundle} \/ bundles' = bundles
    BY <1>4 DEF SendBundle, Rest, At, OnceInv, AloneInv, TypeInv, TypeOK, Occupied
  <2>2. bundle.tx = wtx[w] /\ bundle.relay = "bloxroute"
    OBVIOUS
  <2> HIDE DEF bundle
  <2>3. \A t : Sent(t)' => Sent(t) \/ t = wtx[w]
    BY <2>1, <2>2 DEF Sent
  <2>4. OnePlace' /\ NotYetSent' /\ ~Sent(wtx[w])
    BY <2>1, <2>3, OnceSend
  <2>5. SentOnce'
    BY <2>1, <2>2, <2>4 DEF OnceInv, SentOnce, Sent
  <2> QED
    BY <2>4, <2>5
<1> QED
  BY <1>1, <1>2, <1>3, <1>4

(* What a block leaves: less of the pool and of the bundles.               *)
LEMMA SealLeaves ==
  ASSUME TypeInv, NEW n, NEW carried, Seal(n, carried)
  PROVE  /\ \A p \in pool' : \E q \in pool : p.tx = q.tx /\ q.nonce >= n
         /\ bundles' = {b \in bundles : b.relay = "48club" /\ b.nonce >= n}
         /\ \A t \in Txs : victim'[t] = "new" => victim[t] = "new"
<1>1. \A q \in pool : [q EXCEPT !.due = FALSE].tx = q.tx
  BY DEF TypeInv, TypeOK, ChainTypeOK, RawTxs
<1>2. \A p \in pool' : \E q \in pool : p.tx = q.tx /\ q.nonce >= n
  BY <1>1 DEF Seal
<1> QED
  BY <1>2 DEF Seal

(***************************************************************************)
(* A step of the chain: the one transaction in the pool is mined and gone  *)
(* from it, or the bundle is, and nothing else is in a block.              *)
(***************************************************************************)
LEMMA OnceNode ==
  ASSUME OnceInv, Node
  PROVE  OnePlace' /\ NotYetSent' /\ SentOnce'
<1>1. ASSUME UNCHANGED <<txQueue, wtx>>,
             \A t \in Txs : victim'[t] = "new" => victim[t] = "new",
             \A t \in Txs : Sent(t)' => Sent(t)
      PROVE  OnePlace' /\ NotYetSent'
  <2>1. \A t : (InQueue(t)' <=> InQueue(t)) /\ (Taken(t)' <=> Taken(t))
    BY <1>1 DEF InQueue, Taken
  <2>2. OnePlace'
    BY <1>1, <2>1 DEF OnceInv, OnePlace
  <2> QED
    BY <1>1, <2>1, <2>2 DEF OnceInv, NotYetSent
<1>2. ASSUME NEW k \in 0 .. Cardinality(pool), Mine(k)
      PROVE  OnePlace' /\ NotYetSent' /\ SentOnce'
  <2> DEFINE included == {p \in pool : p.nonce < nonce + k}
  <2>1. PICK ok \in SUBSET included :
          receipts' = receipts \union
            {[tx |-> p.tx, kind |-> p.kind, ok |-> p \in ok] : p \in included}
    BY <1>2 DEF Mine, MineBlock
  <2>2. Seal(nonce + k, {}) /\ UNCHANGED <<txQueue, wtx>>
    BY <1>2 DEF Mine, MineBlock, ViewsAge
  <2>3. /\ \A p \in pool' : \E q \in pool : p.tx = q.tx /\ q.nonce >= nonce + k
        /\ bundles' = {b \in bundles : b.relay = "48club" /\ b.nonce >= nonce + k}
        /\ \A t \in Txs : victim'[t] = "new" => victim[t] = "new"
    BY <2>2, SealLeaves DEF OnceInv, AloneInv
  <2>4. bundles' = {}
    BY <2>3 DEF OnceInv, SentOnce
  <2>5. \A r \in receipts' : r \in receipts \/ \E p \in included : r.tx = p.tx
    BY <2>1
  <2>6. \A t : Sent(t)' => Sent(t)
    BY <2>3, <2>4, <2>5 DEF Sent
  <2>7. \A p, q \in pool : p = q /\ p.nonce \in Int /\ nonce + k \in Int
    BY DEF OnceInv, AloneInv, RunsNeverQueue, TypeInv, TypeOK, ChainTypeOK, RawTxs
  <2>8. \A p \in pool', r \in receipts' : p.tx # r.tx
    <3>1. ASSUME NEW p \in pool', NEW r \in receipts' PROVE p.tx # r.tx
      <4>1. PICK q \in pool : p.tx = q.tx /\ q.nonce >= nonce + k
        BY <2>3
      <4>2. included = {}
        BY <2>7, <4>1
      <4>3. r \in receipts
        BY <2>5, <4>2
      <4> QED
        BY <4>1, <4>3 DEF OnceInv, SentOnce
    <3> QED
      BY <3>1
  <2>9. \A r, s \in receipts' : r.tx = s.tx => r = s
    <3>1. \A r, s \in receipts' \ receipts : r = s
      BY <2>1, <2>7
    <3>2. \A r \in receipts' \ receipts : \E p \in pool : r.tx = p.tx
      BY <2>5
    <3> QED
      BY <3>1, <3>2 DEF OnceInv, SentOnce
  <2> QED
    BY <1>1, <2>2, <2>3, <2>4, <2>6, <2>8, <2>9 DEF SentOnce
<1>3. ASSUME NEW b \in bundles, MineWithBundle(b)
      PROVE  OnePlace' /\ NotYetSent' /\ SentOnce'
  <2> DEFINE mined == [tx |-> b.tx, kind |-> "run", ok |-> TRUE]
  <2>1. /\ receipts' = receipts \union {mined}
        /\ Seal(nonce + 1, {b.tx})
        /\ UNCHANGED <<txQueue, wtx>>
    BY <1>3 DEF MineWithBundle, ViewsAge
  <2>2. mined.tx = b.tx
    OBVIOUS
  <2> HIDE DEF mined
  <2>3. /\ \A p \in pool' : \E q \in pool : p.tx = q.tx
        /\ bundles' = {}
        /\ \A t \in Txs : victim'[t] = "new" => victim[t] = "new"
    BY <2>1, SealLeaves DEF OnceInv, AloneInv, SentOnce
  <2>4. \A t : Sent(t)' => Sent(t)
    BY <2>1, <2>2, <2>3 DEF Sent
  <2>5. SentOnce'
    BY <2>1, <2>2, <2>3 DEF OnceInv, SentOnce
  <2> QED
    BY <1>1, <2>1, <2>3, <2>4, <2>5
<1>4. ASSUME NEW p \in pool, NodeForgets(p)
      PROVE  OnePlace' /\ NotYetSent' /\ SentOnce'
  <2>1. /\ pool' \subseteq pool
        /\ UNCHANGED <<bundles, receipts, victim, txQueue, wtx>>
    BY <1>4 DEF NodeForgets, Evict, workerVars
  <2>2. \A t : Sent(t)' => Sent(t)
    BY <2>1 DEF Sent
  <2>3. SentOnce'
    BY <2>1 DEF OnceInv, SentOnce
  <2> QED
    BY <1>1, <2>1, <2>2, <2>3
<1> QED
  BY <1>2, <1>3, <1>4 DEF Node

LEMMA OnceNext == OnceInv /\ [Next]_vars => OnceInv'
<1> SUFFICES ASSUME OnceInv, [Next]_vars PROVE OnceInv'
  OBVIOUS
<1>1. AloneInv'
  BY AloneNext DEF OnceInv
<1> SUFFICES OnePlace' /\ NotYetSent' /\ SentOnce'
  BY <1>1 DEF OnceInv
<1>2. ASSUME UNCHANGED <<pool, bundles, receipts, victim, txQueue, wtx>>
      PROVE  OnePlace' /\ NotYetSent' /\ SentOnce'
  BY <1>2 DEF OnceInv, OnePlace, NotYetSent, SentOnce, InQueue, Taken, Sent
<1>3. CASE Announce \/ UNCHANGED vars
  BY <1>2, <1>3 DEF Announce, vars, chainVars, workerVars
<1> QED
  BY <1>1, <1>3, OnceReceive, OnceNode, OnceWorker DEF Next

LEMMA OnceIsOne == TypeInv /\ RunsNeverQueue /\ SentOnce => OneRunPerVictim
<1> SUFFICES ASSUME RunsNeverQueue, SentOnce, NEW t \in Txs, NEW r \in RunsFor(t), NEW s \in RunsFor(t)
             PROVE  r = s
  BY DEF OneRunPerVictim
<1>1. ASSUME NEW x \in RunsFor(t)
      PROVE  \/ \E p \in pool : p.tx = t /\ x = <<"pool", p>>
             \/ \E b \in bundles : b.tx = t /\ x = <<"bundle", b>>
             \/ \E m \in receipts : m.tx = t /\ x = <<"mined", m>>
  BY DEF RunsFor
<1> QED
  BY <1>1 DEF RunsNeverQueue, SentOnce

(***************************************************************************)
(* However many workers there are and whenever the shared value changes, a *)
(* victim is attacked at most once: as a transaction or in a bundle, and   *)
(* not again when the first attempt is in a block.                         *)
(***************************************************************************)
THEOREM VictimsAreAttackedOnce == Spec => []OneRunPerVictim
<1>1. OnceInv => OneRunPerVictim
  BY OnceIsOne DEF OnceInv, AloneInv
<1> QED
  BY <1>1, OnceInit, OnceNext, PTL DEF Spec
=============================================================================
