------------------------ MODULE SandwichPipelineProofs ------------------------
(***************************************************************************)
(* Theorems about SandwichPipeline, for every number of workers and        *)
(* transactions and every queue bound, and for whatever faults a theorem   *)
(* does not exclude: failing calls where a worker must not turn away from  *)
(* its back run, evictions where the pool must have no gap, and receipts   *)
(* asked for while they are indexed where no loss may be silent.           *)
(***************************************************************************)
EXTENDS SandwichPipeline, ChainProofs

(***************************************************************************)
(* TypeOK is not inductive: Put and Send take the transaction from         *)
(* streamTx and wtx, and only the control state says there is one.         *)
(***************************************************************************)
Occupied ==
  /\ streamTx = NoTx <=> streamPc = "recv"
  /\ \A w \in Workers : wtx[w] = NoTx <=> pc[w] \in {"idle", "get"}

TypeInv == TypeOK /\ Occupied

-----------------------------------------------------------------------------
(* Type correctness.                                                       *)

(***************************************************************************)
(* How a worker goes from one of its states to another: within the         *)
(* handling of a transaction, back to the top of the loop, or to the get.  *)
(***************************************************************************)
Moves(w) ==
  \/ Finish(w)
  \/ At(w, "idle") /\ Goto(w, "get")
  \/ /\ pc[w] \notin {"idle", "get"}
     /\ \E s \in WorkerStates \ {"idle", "get"} : Goto(w, s)

LEMMA MovesType ==
  ASSUME TypeInv, NEW w \in Workers, Moves(w)
  PROVE  /\ pc' \in [Workers -> WorkerStates]
         /\ wtx' \in [Workers -> Txs \union {NoTx}]
         /\ \A v \in Workers : wtx'[v] = NoTx <=> pc'[v] \in {"idle", "get"}
<1> USE DEF TypeInv, TypeOK, Occupied
<1>1. CASE Finish(w)
  BY <1>1 DEF Finish, WorkerStates
<1>2. CASE At(w, "idle") /\ Goto(w, "get")
  BY <1>2 DEF At, Goto, WorkerStates
<1>3. ASSUME pc[w] \notin {"idle", "get"},
             NEW s \in WorkerStates \ {"idle", "get"}, Goto(w, s)
      PROVE  /\ pc' \in [Workers -> WorkerStates]
             /\ wtx' \in [Workers -> Txs \union {NoTx}]
             /\ \A v \in Workers : wtx'[v] = NoTx <=> pc'[v] \in {"idle", "get"}
  BY <1>3 DEF Goto
<1> QED
  BY <1>1, <1>2, <1>3 DEF Moves

LEMMA TypeInit == Init => TypeInv
BY ChainAssumption
DEF Init, ChainInit, TypeInv, Occupied, TypeOK, ChainTypeOK, StreamStates, WorkerStates,
    NoTarget, Accessible, ValidatorKinds

(* The stream of transactions and the stream of validators.                *)
LEMMA StreamType ==
  ASSUME TypeInv, Stream \/ Announce
  PROVE  TypeInv'
<1> USE DEF TypeInv, Occupied
<1>1. ASSUME NEW t \in Txs, Receive(t) PROVE TypeInv'
  BY <1>1, PipelineAssumption
  DEF Receive, TypeOK, ChainTypeOK, streamVars, workerVars, logVars, StreamStates
<1>2. CASE CheckFull
  BY <1>2 DEF CheckFull, StreamDone, TypeOK, ChainTypeOK, chainVars, workerVars, logVars, StreamStates
<1>3. CASE Trace
  BY <1>3 DEF Trace, StreamDone, TypeOK, ChainTypeOK, chainVars, workerVars, logVars, StreamStates
<1>4. CASE Put
  <2>1. streamTx \in Txs
    BY <1>4 DEF Put, TypeOK
  <2> QED
    BY <1>4, <2>1 DEF Put, StreamDone, TypeOK, ChainTypeOK, chainVars, workerVars, logVars, StreamStates
<1>5. CASE Announce
  BY <1>5 DEF Announce, TypeOK, ChainTypeOK, chainVars, streamVars, workerVars, logVars, Accessible
<1> QED
  BY <1>1, <1>2, <1>3, <1>4, <1>5 DEF Stream

(* The chain moves.                                                        *)
LEMMA NodeType ==
  ASSUME TypeInv, Node
  PROVE  TypeInv'
<1>1. ASSUME ViewsAge, ChainTypeOK' PROVE TypeInv'
  <2>1. accessible' \in Accessible /\ target' \in [Workers -> Accessible]
    BY <1>1 DEF ViewsAge, TypeInv, TypeOK, Accessible
  <2>2. TypeOK'
    BY <1>1, <2>1 DEF ViewsAge, TypeInv, TypeOK, streamVars, logVars
  <2>3. Occupied'
    BY <1>1 DEF ViewsAge, TypeInv, Occupied, streamVars
  <2> QED
    BY <2>2, <2>3 DEF TypeInv
<1>2. ASSUME NEW k \in 0 .. Cardinality(pool), Mine(k) PROVE TypeInv'
  BY <1>1, <1>2, MineBlockType DEF Mine, TypeInv, TypeOK
<1>3. ASSUME NEW b \in bundles, MineWithBundle(b) PROVE TypeInv'
  BY <1>1, <1>3, MineBundleType DEF MineWithBundle, TypeInv, TypeOK
<1>4. CASE NodeForgets
  BY <1>4
  DEF NodeForgets, ExpireBundle, Evict, TypeInv, Occupied, TypeOK, ChainTypeOK, streamVars,
      workerVars, logVars
<1> QED
  BY <1>2, <1>3, <1>4 DEF Node

(* The steps of a worker that only move it.                                *)
LEMMA QuietType ==
  ASSUME TypeInv, NEW w \in Workers, Moves(w), Quiet
  PROVE  TypeInv'
BY MovesType DEF TypeInv, Occupied, TypeOK, ChainTypeOK, Quiet, Rest, logVars, streamVars, chainVars

(* Who sent a front run has a transaction.                                 *)
LEMMA RaiseType ==
  ASSUME TypeInv, NEW w \in Workers, Raise(w)
  PROVE  raised' \subseteq Txs
<1>1. pc[w] \in Sent => wtx[w] \in Txs
  BY DEF Sent, TypeInv, Occupied, TypeOK
<1> QED
  BY <1>1 DEF Raise, TypeInv, TypeOK

(* What a worker has asked for is a receipt of its transaction.            *)
LEMMA ResultType ==
  ASSUME TypeInv, NEW w \in Workers, Result(w)
  PROVE  misread' \subseteq Txs \X {"front", "back"}
<1>1. wtx[w] \in Txs
  BY DEF Result, At, TypeInv, Occupied, TypeOK
<1>2. \A indexed \in Indexed(wtx[w]) : indexed \in {"none", "front", "back"}
  BY DEF Indexed
<1> QED
  BY <1>1, <1>2 DEF Result, Asked, Raise, TypeInv, TypeOK

LEMMA WorkerType ==
  ASSUME TypeInv, NEW w \in Workers, Work(w) \/ RpcFails(w)
  PROVE  TypeInv'
<1> USE DEF At
<1>1. CASE CheckEmpty(w)
  BY <1>1, QuietType DEF CheckEmpty, Moves, Quiet
<1>2. CASE \/ CheckAge(w) \/ CheckHead(w) \/ CheckVictim(w) \/ Route(w) \/ Route2(w)
           \/ Delay(w) \/ Wait(w)
  <2>1. Moves(w) /\ Quiet
    BY <1>2
    DEF CheckAge, CheckHead, CheckVictim, Route, Route2, Delay, Wait, Moves, WorkerStates
  <2> QED
    BY <2>1, QuietType
<1>10. CASE Result(w) \/ RpcFails(w)
  <2>1. /\ Moves(w)
        /\ UNCHANGED <<chainVars, txQueue, streamVars, accessible, isHead, evmIsHead, seqno,
                       target>>
    BY <1>10 DEF Result, RpcFails, Raise, Moves, WorkerStates
  <2>2. (raised' = raised \/ Raise(w)) /\ recovered' = recovered
    BY <1>10 DEF Result, Asked, RpcFails, Raise
  <2>3. raised' \subseteq Txs
    BY <2>2, RaiseType DEF TypeInv, TypeOK
  <2>4. misread' \subseteq Txs \X {"front", "back"}
    BY <1>10, ResultType DEF RpcFails, Raise, TypeInv, TypeOK
  <2> QED
    BY <2>1, <2>2, <2>3, <2>4, MovesType DEF TypeInv, Occupied, TypeOK, ChainTypeOK, streamVars, chainVars
<1>3. CASE Get(w)
  <2>1. Head(txQueue) \in Txs /\ txQueue' \in Seq(Txs)
    BY <1>3 DEF Get, Dequeued, TypeInv, TypeOK
  <2> QED
    BY <1>3, <2>1, PipelineAssumption
    DEF Get, TypeInv, Occupied, TypeOK, ChainTypeOK, chainVars, streamVars, logVars, WorkerStates
<1>4. CASE AwaitBlock(w) \/ StartSearch(w) \/ EndSearch(w)
  <2>1. Moves(w)
    BY <1>4 DEF AwaitBlock, StartSearch, EndSearch, Moves, WorkerStates
  <2>2. isHead' \in [Workers -> BOOLEAN] /\ evmIsHead' \in [Workers -> BOOLEAN]
    BY <1>4 DEF AwaitBlock, StartSearch, EndSearch, TypeInv, TypeOK
  <2>3. Rest /\ UNCHANGED <<chainVars, seqno, target>>
    BY <1>4 DEF AwaitBlock, StartSearch, EndSearch
  <2> QED
    BY <2>1, <2>2, <2>3, MovesType
    DEF TypeInv, Occupied, TypeOK, ChainTypeOK, Rest, logVars, streamVars, chainVars
<1>5. CASE ReadTarget(w)
  <2>1. Moves(w) /\ target' \in [Workers -> Accessible]
    BY <1>5 DEF ReadTarget, BundleTarget, Moves, WorkerStates, TypeInv, TypeOK
  <2> QED
    BY <1>5, <2>1, MovesType
    DEF ReadTarget, TypeInv, Occupied, TypeOK, ChainTypeOK, Rest, logVars, streamVars, chainVars
<1>6. ASSUME NEW from \in WorkerStates \ {"idle", "get"},
             NEW to \in WorkerStates \ {"idle", "get"}, ReadNonce(w, from, to)
      PROVE  TypeInv'
  <2>1. Moves(w) /\ seqno' \in [Workers -> Nat]
    BY <1>6 DEF ReadNonce, NextNonce, Moves, TypeInv, TypeOK, ChainTypeOK
  <2> QED
    BY <1>6, <2>1, MovesType
    DEF ReadNonce, TypeInv, Occupied, TypeOK, ChainTypeOK, Rest, logVars, streamVars, chainVars
<1>7. ASSUME NEW from \in WorkerStates \ {"idle", "get"},
             NEW relay \in {"48club", "bloxroute"}, SendBundle(w, from, relay)
      PROVE  TypeInv'
  <2>1. [tx |-> wtx[w], relay |-> relay, nonce |-> seqno[w], target |-> target[w]] \in Bundles
    BY <1>7 DEF SendBundle, Bundles, TypeInv, Occupied, TypeOK
  <2>2. bundles' \subseteq Bundles
    BY <1>7, <2>1 DEF SendBundle, TypeInv, TypeOK, ChainTypeOK
  <2> QED
    BY <1>7, <2>2, MovesType
    DEF SendBundle, AfterBundle, Moves, TypeInv, Occupied, TypeOK, ChainTypeOK, Rest, logVars, streamVars
<1>8. ASSUME NEW from \in WorkerStates \ {"idle", "get"},
             NEW to \in WorkerStates,
             NEW kind \in RawTxKinds, kind # "recover" => to \notin {"idle", "get"},
             NEW n \in Nat, Send(w, from, to, kind, n)
      PROVE  TypeInv'
  <2> DEFINE r == [tx |-> wtx[w], kind |-> kind, nonce |-> n,
                   due |-> kind = "back" /\ isHead[w]]
  <2>1. wtx[w] \in Txs
    BY <1>8 DEF Send, TypeInv, Occupied, TypeOK
  <2>2. r \in RawTxs
    BY <2>1 DEF RawTxs
  <2>3. ChainTypeOK'
    BY <1>8, <2>2, AcceptType DEF Send, chainVars, ChainTypeOK, TypeInv, TypeOK
  <2>4. recovered' \subseteq Txs /\ raised' \subseteq Txs /\ misread' = misread /\ Moves(w)
    BY <1>8, <2>1, RaiseType DEF Send, Raise, Moves, TypeInv, TypeOK
  <2> QED
    BY <1>8, <2>3, <2>4, MovesType DEF Send, TypeInv, Occupied, TypeOK, streamVars
<1>9. CASE SendFront(w) \/ SendBack(w) \/ SendRecover(w)
  <2>1. seqno[w] \in Nat /\ BackNonce(seqno[w]) \in Nat
    BY DEF BackNonce, TypeInv, TypeOK
  <2> QED
    BY <1>9, <1>8, <2>1 DEF SendFront, SendBack, SendRecover, WorkerStates, RawTxKinds
<1> QED
  BY <1>1, <1>2, <1>3, <1>4, <1>5, <1>6, <1>7, <1>9, <1>10 DEF Work, WorkerStates

(* What a step of the whole system keeps.                                  *)
LEMMA TypeNext == TypeInv /\ [Next]_vars => TypeInv'
<1> SUFFICES ASSUME TypeInv, [Next]_vars PROVE TypeInv'
  OBVIOUS
<1>1. CASE Next
  BY <1>1, StreamType, NodeType, WorkerType DEF Next
<1>2. CASE UNCHANGED vars
  BY <1>2
  DEF vars, chainVars, streamVars, workerVars, logVars, TypeInv, Occupied, TypeOK, ChainTypeOK
<1> QED
  BY <1>1, <1>2

(***************************************************************************)
(* Every variable keeps its type; in particular a nonce that a worker reads *)
(* or uses is never negative and what reaches the pool names a transaction. *)
(***************************************************************************)
THEOREM TypeCorrect == Spec => []TypeOK
<1>1. TypeInv => TypeOK
  BY DEF TypeInv
<1> QED
  BY <1>1, TypeInit, TypeNext, PTL DEF Spec

THEOREM TypeInvariant == Spec => []TypeInv
BY TypeInit, TypeNext, PTL DEF Spec

-----------------------------------------------------------------------------
(* The queue.                                                              *)

(* Between full() and put() only the workers touch the queue.              *)
RoomKept == streamPc \in {"trace", "put"} => Len(txQueue) < MaxQueue

(* What a worker's step does to the queue, to the stream and to itself.    *)
LEMMA WorkerQueue ==
  ASSUME NEW w \in Workers, Work(w) \/ RpcFails(w)
  PROVE  /\ UNCHANGED <<streamPc, streamTx, victim>>
         /\ \/ UNCHANGED txQueue /\ Moves(w)
            \/ Get(w)
<1> USE DEF At, Quiet, Rest, streamVars, chainVars, Moves, WorkerStates
<1>1. CASE CheckEmpty(w) \/ CheckAge(w) \/ AwaitBlock(w) \/ StartSearch(w) \/ EndSearch(w)
  BY <1>1 DEF CheckEmpty, CheckAge, AwaitBlock, StartSearch, EndSearch
<1>2. CASE Get(w)
  BY <1>2 DEF Get
<1>3. CASE CheckHead(w) \/ CheckVictim(w) \/ Route(w) \/ Route2(w) \/ ReadTarget(w)
  BY <1>3 DEF CheckHead, CheckVictim, Route, Route2, ReadTarget
<1>4. CASE Delay(w) \/ Wait(w) \/ Result(w) \/ RpcFails(w)
  BY <1>4 DEF Delay, Wait, Result, RpcFails, Raise
<1>5. ASSUME NEW from \in WorkerStates \ {"idle", "get"},
             NEW to \in WorkerStates \ {"idle", "get"}, ReadNonce(w, from, to)
      PROVE  UNCHANGED <<streamPc, streamTx, victim, txQueue>> /\ Moves(w)
  BY <1>5 DEF ReadNonce
<1>6. ASSUME NEW from, NEW relay, SendBundle(w, from, relay)
      PROVE  UNCHANGED <<streamPc, streamTx, victim, txQueue>> /\ Moves(w)
  BY <1>6 DEF SendBundle, AfterBundle
<1>7. ASSUME NEW from \in WorkerStates \ {"idle", "get"},
             NEW to \in WorkerStates, NEW kind, kind # "recover" => to \notin {"idle", "get"},
             NEW n, Send(w, from, to, kind, n)
      PROVE  UNCHANGED <<streamPc, streamTx, victim, txQueue>> /\ Moves(w)
  BY <1>7 DEF Send, Accept, Raise
<1>8. CASE SendFront(w) \/ SendBack(w) \/ SendRecover(w)
  BY <1>7, <1>8 DEF SendFront, SendBack, SendRecover
<1> QED
  BY <1>1, <1>2, <1>3, <1>4, <1>5, <1>6, <1>8 DEF Work

(* The other workers keep their place and their transaction.               *)
LEMMA OthersRest ==
  ASSUME TypeInv, NEW w \in Workers, Work(w) \/ RpcFails(w), NEW v \in Workers, v # w
  PROVE  pc'[v] = pc[v] /\ wtx'[v] = wtx[v]
<1>1. CASE Get(w)
  BY <1>1 DEF Get, TypeInv, TypeOK
<1>2. CASE Moves(w)
  BY <1>2 DEF Moves, Goto, Finish, TypeInv, TypeOK
<1> QED
  BY <1>1, <1>2, WorkerQueue

(* A step of the chain leaves the queue, the stream and the workers alone. *)
LEMMA NodeQueue ==
  ASSUME Node
  PROVE  /\ UNCHANGED <<streamPc, streamTx, txQueue, pc, wtx>>
         /\ \A t \in Txs : victim'[t] = "new" => victim[t] = "new"
<1>1. ASSUME NEW n, NEW c, Seal(n, c)
      PROVE  \A t \in Txs : victim'[t] = "new" => victim[t] = "new"
  BY <1>1 DEF Seal
<1>2. ASSUME NEW k, Mine(k) PROVE Seal(nonce + k, {}) /\ ViewsAge
  BY <1>2 DEF Mine, MineBlock
<1>3. ASSUME NEW b, MineWithBundle(b) PROVE ViewsAge /\ \E n, c : Seal(n, c)
  BY <1>3 DEF MineWithBundle, MineBundle
<1>4. CASE NodeForgets
  BY <1>4 DEF NodeForgets, ExpireBundle, Evict, streamVars, workerVars
<1> QED
  BY <1>1, <1>2, <1>3, <1>4 DEF Node, ViewsAge, streamVars

LEMMA RoomNext ==
  ASSUME TypeInv, RoomKept, [Next]_vars
  PROVE  RoomKept'
<1> USE PipelineAssumption DEF RoomKept, TypeInv, TypeOK
<1>1. CASE \E t \in Txs : Receive(t)
  BY <1>1 DEF Receive, streamVars
<1>2. CASE CheckFull \/ Trace \/ Put
  BY <1>2 DEF CheckFull, Trace, Put, StreamDone, QueueFull, streamVars
<1>3. CASE Announce
  BY <1>3 DEF Announce, streamVars
<1>4. CASE Node
  BY <1>4, NodeQueue
<1>5. ASSUME NEW w \in Workers, Work(w) \/ RpcFails(w) PROVE RoomKept'
  <2>1. CASE Get(w)
    <3>1. Len(txQueue') < Len(txQueue)
      BY <2>1 DEF Get, Dequeued
    <3> QED
      BY <2>1, <3>1 DEF Get, streamVars
  <2> QED
    BY <1>5, <2>1, WorkerQueue
<1>6. CASE UNCHANGED vars
  BY <1>6 DEF vars, streamVars
<1> QED
  BY <1>1, <1>2, <1>3, <1>4, <1>5, <1>6 DEF Next, Stream

(***************************************************************************)
(* The stream never waits in put, whatever the workers do: room found      *)
(* before the trace is still there after it.                               *)
(***************************************************************************)
THEOREM PutFindsRoom == Spec => []PutNeverWaits
<1>1. Init => RoomKept
  BY DEF Init, RoomKept
<1>2. TypeInv /\ RoomKept /\ [Next]_vars => RoomKept'
  BY RoomNext
<1>3. RoomKept => PutNeverWaits
  BY DEF RoomKept, PutNeverWaits
<1> QED
  BY <1>1, <1>2, <1>3, TypeInvariant, PTL DEF Spec

-----------------------------------------------------------------------------
(* Who has a transaction.                                                  *)

(* A transaction the feed has not delivered is nowhere in the bot.         *)
FreshIsUnheld ==
  \A t \in Txs : victim[t] = "new" =>
    /\ streamTx # t
    /\ \A i \in 1 .. Len(txQueue) : txQueue[i] # t
    /\ \A w \in Workers : wtx[w] # t

OwnerInv == TypeInv /\ SingleOwner /\ FreshIsUnheld

LEMMA OwnerInit == Init => OwnerInv
BY TypeInit, PipelineAssumption DEF Init, ChainInit, OwnerInv, SingleOwner, FreshIsUnheld

LEMMA OwnerStream ==
  ASSUME OwnerInv, Stream \/ Announce
  PROVE  SingleOwner' /\ FreshIsUnheld'
<1> USE PipelineAssumption
        DEF OwnerInv, TypeInv, Occupied, TypeOK, SingleOwner, FreshIsUnheld, workerVars, streamVars
<1>1. ASSUME NEW t \in Txs, Receive(t) PROVE SingleOwner' /\ FreshIsUnheld'
  <2>1. /\ UNCHANGED <<txQueue, wtx>>
        /\ streamTx' \in {t, NoTx}
        /\ victim[t] = "new" /\ victim' = [victim EXCEPT ![t] = "pending"]
    BY <1>1 DEF Receive
  <2>2. \A u \in Txs : victim'[u] = "new" => u # t /\ victim[u] = "new"
    BY <2>1 DEF ChainTypeOK
  <2> QED
    BY <2>1, <2>2
<1>2. CASE CheckFull \/ Trace
  BY <1>2 DEF CheckFull, Trace, StreamDone, chainVars
<1>3. CASE Put
  <2>1. streamTx \in Txs
    BY <1>3 DEF Put
  <2>2. /\ Len(txQueue') = Len(txQueue) + 1
        /\ \A i \in 1 .. Len(txQueue) : txQueue'[i] = txQueue[i]
        /\ txQueue'[Len(txQueue) + 1] = streamTx
    <3>1. txQueue \in Seq(Txs) /\ txQueue' = Append(txQueue, streamTx)
      BY <1>3 DEF Put
    <3> HIDE DEF OwnerInv, TypeInv, TypeOK, Occupied, SingleOwner, FreshIsUnheld
    <3> QED
      BY <2>1, <3>1
  <2>3. \A i \in 1 .. Len(txQueue') :
          \/ i \in 1 .. Len(txQueue) /\ txQueue'[i] = txQueue[i]
          \/ i = Len(txQueue) + 1 /\ txQueue'[i] = streamTx
    BY <2>2
  <2>4. UNCHANGED <<wtx, victim>> /\ streamTx' = NoTx
    BY <1>3 DEF Put, StreamDone, chainVars
  <2>5. \A i, j \in 1 .. Len(txQueue') : txQueue'[i] = txQueue'[j] => i = j
    <3>1. \A i \in 1 .. Len(txQueue) : txQueue[i] # streamTx
      BY <2>1
    <3>2. \A i, j \in 1 .. Len(txQueue) : txQueue[i] = txQueue[j] => i = j
      OBVIOUS
    <3> HIDE DEF OwnerInv, TypeInv, TypeOK, Occupied, SingleOwner, FreshIsUnheld
    <3> QED
      BY <2>3, <3>1, <3>2
  <2>6. \A i \in 1 .. Len(txQueue'), w \in Workers : txQueue'[i] # wtx[w]
    BY <2>1, <2>3
  <2>7. SingleOwner'
    BY <2>4, <2>5, <2>6
  <2>8. FreshIsUnheld'
    BY <2>1, <2>3, <2>4
  <2> QED
    BY <2>7, <2>8
<1>4. CASE Announce
  BY <1>4 DEF Announce, chainVars
<1> QED
  BY <1>1, <1>2, <1>3, <1>4 DEF Stream

LEMMA OwnerWorker ==
  ASSUME OwnerInv, NEW w \in Workers, Work(w) \/ RpcFails(w)
  PROVE  SingleOwner' /\ FreshIsUnheld'
<1>1. CASE Get(w)
  <2> DEFINE h == txQueue[1]
  <2>1. /\ txQueue \in Seq(Txs) /\ txQueue # <<>> /\ txQueue' = Tail(txQueue)
        /\ UNCHANGED <<streamTx, victim>>
        /\ wtx' = [wtx EXCEPT ![w] = h]
    BY <1>1 DEF Get, Dequeued, streamVars, chainVars, OwnerInv, TypeInv, TypeOK
  <2>2. h \in Txs /\ 1 \in 1 .. Len(txQueue) /\ h # NoTx
    BY <2>1, PipelineAssumption
  <2>3. ASSUME NEW i \in 1 .. Len(txQueue')
        PROVE  /\ i \in Int /\ i + 1 \in 1 .. Len(txQueue) /\ i + 1 # 1
               /\ txQueue'[i] = txQueue[i + 1]
    BY <2>1
  <2>4. \A i \in 1 .. Len(txQueue') : txQueue'[i] # h
    BY <2>2, <2>3 DEF OwnerInv, SingleOwner
  <2>5. /\ wtx'[w] = h
        /\ \A v \in Workers : v # w => wtx'[v] = wtx[v]
        /\ \A v \in Workers : wtx[v] # h
    BY <2>1, <2>2 DEF OwnerInv, SingleOwner, TypeInv, TypeOK
  <2>6. \A i \in 1 .. Len(txQueue'), v \in Workers : txQueue'[i] # wtx[v]
    BY <2>3 DEF OwnerInv, SingleOwner
  <2>7. \A i, j \in 1 .. Len(txQueue') : txQueue'[i] = txQueue'[j] => i = j
    BY <2>3 DEF OwnerInv, SingleOwner
  <2>8. \A i \in 1 .. Len(txQueue'), v \in Workers : txQueue'[i] # wtx'[v]
    BY <2>4, <2>5, <2>6
  <2>9. \A u, v \in Workers : wtx'[u] = wtx'[v] /\ wtx'[u] # NoTx => u = v
    BY <2>5 DEF OwnerInv, SingleOwner
  <2>10. ASSUME streamTx # NoTx
         PROVE  /\ \A i \in 1 .. Len(txQueue') : txQueue'[i] # streamTx
                /\ \A v \in Workers : wtx'[v] # streamTx
    BY <2>2, <2>3, <2>5, <2>10 DEF OwnerInv, SingleOwner
  <2>11. SingleOwner'
    BY <2>1, <2>7, <2>8, <2>9, <2>10 DEF SingleOwner
  <2>12. ASSUME NEW t \in Txs, victim[t] = "new"
         PROVE  /\ streamTx # t
                /\ \A i \in 1 .. Len(txQueue') : txQueue'[i] # t
                /\ \A v \in Workers : wtx'[v] # t
    BY <2>2, <2>3, <2>5, <2>12 DEF OwnerInv, FreshIsUnheld
  <2> QED
    BY <2>1, <2>11, <2>12 DEF FreshIsUnheld
<1>2. CASE UNCHANGED <<txQueue, streamTx, victim>> /\ Moves(w)
  <2>1. \A v \in Workers : wtx'[v] \in {wtx[v], NoTx}
    BY <1>2 DEF Moves, Finish, Goto, OwnerInv, TypeInv, TypeOK
  <2>2. \A i \in 1 .. Len(txQueue) : txQueue[i] \in Txs
    BY DEF OwnerInv, TypeInv, TypeOK
  <2> QED
    BY <1>2, <2>1, <2>2, PipelineAssumption DEF OwnerInv, SingleOwner, FreshIsUnheld
<1> QED
  BY <1>1, <1>2, WorkerQueue

LEMMA OwnerNext == OwnerInv /\ [Next]_vars => OwnerInv'
<1> SUFFICES ASSUME OwnerInv, [Next]_vars PROVE SingleOwner' /\ FreshIsUnheld'
  BY TypeNext DEF OwnerInv
<1>1. CASE Stream \/ Announce
  BY <1>1, OwnerStream
<1>2. CASE Node
  BY <1>2, NodeQueue DEF OwnerInv, SingleOwner, FreshIsUnheld
<1>3. ASSUME NEW w \in Workers, Work(w) \/ RpcFails(w) PROVE SingleOwner' /\ FreshIsUnheld'
  BY <1>3, OwnerWorker
<1>4. CASE UNCHANGED vars
  BY <1>4 DEF vars, chainVars, streamVars, workerVars, OwnerInv, SingleOwner, FreshIsUnheld
<1> QED
  BY <1>1, <1>2, <1>3, <1>4 DEF Next

(***************************************************************************)
(* No transaction is with two processes, or twice in the queue: no attack  *)
(* is built twice, even when calls to the node fail.                       *)
(***************************************************************************)
THEOREM NoSharedTransaction == Spec => []SingleOwner
<1>1. OwnerInv => SingleOwner
  BY DEF OwnerInv
<1> QED
  BY <1>1, OwnerInit, OwnerNext, PTL DEF Spec

-----------------------------------------------------------------------------
(* What the bot's transactions were sent for.                              *)

(* A transaction that a worker's step puts in the pool.                    *)
Sends(w, r) ==
  /\ r.tx = wtx[w]
  /\ r.nonce >= nonce
  /\ pool' = (pool \ Rivals(r)) \union {r}
  /\ UNCHANGED <<bundles, seqno>>
  /\ \/ r.kind = "front" /\ At(w, "sendFront") /\ r.nonce = seqno[w] /\ Goto(w, "sendBack")
     \/ r.kind = "back" /\ At(w, "sendBack") /\ r.nonce = seqno[w] + 1 /\ Goto(w, "wait")
     \/ r.kind = "recover" /\ At(w, "recoverSend") /\ r.nonce = seqno[w] /\ Finish(w)

(* A bundle that it gives to a relay.                                      *)
Hands(w, b) ==
  /\ b.tx = wtx[w]
  /\ pc[w] \in {"bundleSend", "clubSend"}
  /\ bundles' = bundles \union {b}
  /\ Finish(w)

(* A step of a worker that leaves the pool alone.                          *)
Keeps(w) ==
  /\ pool' = pool
  /\ bundles' = bundles \/ \E b : Hands(w, b)
  /\ seqno' = seqno \/ seqno' = [seqno EXCEPT ![w] = nonce]
  /\ pc'[w] # "sendBack"

LEMMA WorkerSends ==
  ASSUME TypeInv, NEW w \in Workers, Work(w) \/ RpcFails(w)
  PROVE  /\ UNCHANGED <<nonce, receipts, position>>
         /\ Keeps(w) \/ \E r : Sends(w, r)
<1> USE DEF Quiet, Rest, chainVars, Keeps, Goto, Finish, TypeInv, TypeOK
<1>1. CASE \/ CheckEmpty(w) \/ Get(w) \/ CheckAge(w) \/ AwaitBlock(w) \/ StartSearch(w)
           \/ EndSearch(w) \/ CheckHead(w)
  BY <1>1 DEF CheckEmpty, Get, CheckAge, AwaitBlock, StartSearch, EndSearch, CheckHead
<1>2. CASE \/ CheckVictim(w) \/ Route(w) \/ Route2(w) \/ ReadTarget(w) \/ Delay(w)
           \/ Wait(w)
  BY <1>2 DEF CheckVictim, Route, Route2, ReadTarget, Delay, Wait
<1>7. CASE Result(w) \/ RpcFails(w)
  BY <1>7 DEF Result, RpcFails, Raise
<1>3. ASSUME NEW from, NEW to, ReadNonce(w, from, to), to # "sendBack"
      PROVE  UNCHANGED <<nonce, receipts, position>> /\ Keeps(w)
  BY <1>3 DEF ReadNonce, NextNonce
<1>4. ASSUME NEW from \in {"bundleSend", "clubSend"}, NEW relay, SendBundle(w, from, relay)
      PROVE  UNCHANGED <<nonce, receipts, position>> /\ Keeps(w)
  <2> DEFINE b == [tx |-> wtx[w], relay |-> relay, nonce |-> seqno[w], target |-> target[w]]
  <2>1. /\ UNCHANGED <<nonce, receipts, position, pool, seqno>> /\ pc'[w] = "idle" /\ Finish(w)
        /\ bundles' = bundles \/ bundles' = bundles \union {b}
        /\ pc[w] \in {"bundleSend", "clubSend"} /\ b.tx = wtx[w]
    BY <1>4 DEF SendBundle, AfterBundle, At
  <2> HIDE DEF b
  <2>2. bundles' = bundles \/ Hands(w, b)
    BY <2>1 DEF Hands
  <2> QED
    BY <2>1, <2>2 DEF Keeps
<1> HIDE DEF Keeps, Goto, Finish, TypeInv, TypeOK
<1>5. ASSUME NEW from, NEW to, NEW kind, NEW n, Send(w, from, to, kind, n),
             \/ kind = "front" /\ from = "sendFront" /\ to = "sendBack" /\ n = seqno[w]
             \/ kind = "back" /\ from = "sendBack" /\ to = "wait" /\ n = seqno[w] + 1
             \/ kind = "recover" /\ from = "recoverSend" /\ n = seqno[w]
      PROVE  /\ UNCHANGED <<nonce, receipts, position>>
             /\ Keeps(w) \/ \E r : Sends(w, r)
  <2> DEFINE r == [tx |-> wtx[w], kind |-> kind, nonce |-> n,
                   due |-> kind = "back" /\ isHead[w]]
  <2>1. CASE Accept(r) /\ (IF kind = "recover" THEN Finish(w) ELSE Goto(w, to))
    <3>1. r.tx = wtx[w] /\ r.kind = kind /\ r.nonce = n
      OBVIOUS
    <3>2. /\ UNCHANGED <<nonce, receipts, position, bundles>>
          /\ r.nonce >= nonce /\ pool' = (pool \ Rivals(r)) \union {r}
      BY <2>1 DEF Accept
    <3>3. At(w, from) /\ seqno' = seqno
      BY <1>5 DEF Send
    <3> HIDE DEF r
    <3>4. Sends(w, r)
      BY <1>5, <2>1, <3>1, <3>2, <3>3 DEF Sends
    <3> QED
      BY <3>2, <3>4
  <2>2. CASE UNCHANGED chainVars /\ Raise(w)
    <3>1. pc'[w] = "idle" /\ seqno' = seqno
      BY <1>5, <2>2 DEF Send, Raise, Finish, TypeInv, TypeOK
    <3> QED
      BY <2>2, <3>1 DEF Keeps
  <2> QED
    BY <1>5, <2>1, <2>2 DEF Send
<1>6. CASE SendFront(w) \/ SendBack(w) \/ SendRecover(w)
  BY <1>5, <1>6 DEF SendFront, SendBack, SendRecover, BackNonce
<1> QED
  BY <1>1, <1>2, <1>3, <1>4, <1>6, <1>7 DEF Work

(***************************************************************************)
(* A step of the chain puts nothing in the pool, and adds receipts only    *)
(* for what was in it or for the two transactions of a bundle.             *)
(***************************************************************************)
LEMMA NodePool ==
  ASSUME TypeInv, Node
  PROVE  /\ \A p \in pool' : \E q \in pool : p.tx = q.tx /\ p.kind = q.kind
         /\ receipts \subseteq receipts'
         /\ \A r \in receipts' \ receipts :
              r.kind # "recover" \/ \E q \in pool : r.tx = q.tx /\ r.kind = q.kind
<1>1. ASSUME NEW n, NEW c, Seal(n, c)
      PROVE  \A p \in pool' : \E q \in pool : p.tx = q.tx /\ p.kind = q.kind
  <2>1. pool' = {[p EXCEPT !.due = FALSE] : p \in {q \in pool : q.nonce >= n}}
    BY <1>1 DEF Seal
  <2>2. \A q \in pool : /\ [q EXCEPT !.due = FALSE].tx = q.tx
                        /\ [q EXCEPT !.due = FALSE].kind = q.kind
    BY DEF TypeInv, TypeOK, ChainTypeOK, RawTxs
  <2> QED
    BY <2>1, <2>2
<1>2. ASSUME NEW k, Mine(k)
      PROVE  /\ Seal(nonce + k, {})
             /\ receipts \subseteq receipts'
             /\ \A r \in receipts' \ receipts :
                  \E q \in pool : r.tx = q.tx /\ r.kind = q.kind
  BY <1>2 DEF Mine, MineBlock
<1>3. ASSUME NEW b, MineWithBundle(b)
      PROVE  /\ \E n, c : Seal(n, c)
             /\ receipts \subseteq receipts'
             /\ \A r \in receipts' \ receipts : r.kind # "recover"
  BY <1>3 DEF MineWithBundle, MineBundle
<1>4. CASE NodeForgets
  BY <1>4 DEF NodeForgets, ExpireBundle, Evict
<1> QED
  BY <1>1, <1>2, <1>3, <1>4 DEF Node

-----------------------------------------------------------------------------
(* Recoveries.                                                             *)

(***************************************************************************)
(* RecoveryJustified speaks of recoveries that were sent.  The decision is *)
(* taken two steps earlier, on receipts that other steps only add to.      *)
(***************************************************************************)
Justified(t) ==
  /\ HasReceipt(t, "front", TRUE)
  /\ HasReceipt(t, "back", FALSE) \/ <<t, "back">> \in misread
  /\ t \notin NativeEnd

RecoveryDecided ==
  \A w \in Workers : pc[w] \in {"recoverNonce", "recoverSend"} => Justified(wtx[w])

RecoveryInv == TypeInv /\ RecoveryJustified /\ RecoveryDecided

LEMMA JustifiedStable ==
  ASSUME receipts \subseteq receipts', misread \subseteq misread'
  PROVE  \A t : Justified(t) => Justified(t)'
BY DEF Justified, HasReceipt

(* A recovery that a worker finds due is justified.                        *)
LEMMA ResultJustifies ==
  ASSUME TypeInv, NEW w \in Workers, Result(w), pc'[w] \in {"recoverNonce", "recoverSend"}
  PROVE  Justified(wtx[w])' /\ wtx'[w] = wtx[w]
<1> USE DEF TypeInv, TypeOK
<1>1. PICK indexed \in Indexed(wtx[w]) :
        NeedsRecovery(wtx[w], indexed) /\ Asked(wtx[w], indexed) /\ wtx' = wtx
  BY DEF Result, Goto, Finish, Raise
<1>2. receipts' = receipts
  BY DEF Result, chainVars
<1>3. HasReceipt(wtx[w], "front", TRUE) /\ wtx[w] \notin NativeEnd
  BY <1>1 DEF NeedsRecovery, LooksGood
<1>4. HasReceipt(wtx[w], "back", FALSE) \/ <<wtx[w], "back">> \in misread'
  BY <1>1 DEF NeedsRecovery, LooksFailed, Asked
<1> QED
  BY <1>1, <1>2, <1>3, <1>4 DEF Justified, HasReceipt

(* What has been asked for is not forgotten.                               *)
LEMMA MisreadGrows ==
  ASSUME NEW w \in Workers, Work(w) \/ RpcFails(w)
  PROVE  misread \subseteq misread'
<1> USE DEF Rest, Quiet, logVars, Raise
<1>1. CASE \/ CheckEmpty(w) \/ Get(w) \/ CheckAge(w) \/ AwaitBlock(w) \/ StartSearch(w)
           \/ EndSearch(w) \/ CheckHead(w)
  BY <1>1 DEF CheckEmpty, Get, CheckAge, AwaitBlock, StartSearch, EndSearch, CheckHead
<1>2. CASE \/ CheckVictim(w) \/ Route(w) \/ Route2(w) \/ ReadTarget(w) \/ Delay(w)
           \/ Wait(w) \/ RpcFails(w)
  BY <1>2 DEF CheckVictim, Route, Route2, ReadTarget, Delay, Wait, RpcFails
<1>3. CASE \/ ReadNonce(w, "bundleNonce", "bundleSend") \/ ReadNonce(w, "clubNonce", "clubSend")
           \/ ReadNonce(w, "generalNonce", "sendFront")
           \/ ReadNonce(w, "recoverNonce", "recoverSend")
  BY <1>3 DEF ReadNonce
<1>4. CASE SendBundle(w, "bundleSend", "bloxroute") \/ SendBundle(w, "clubSend", "48club")
  BY <1>4 DEF SendBundle
<1>5. CASE SendFront(w) \/ SendBack(w) \/ SendRecover(w)
  BY <1>5 DEF SendFront, SendBack, SendRecover, Send
<1>6. CASE Result(w)
  BY <1>6 DEF Result, Asked
<1> QED
  BY <1>1, <1>2, <1>3, <1>4, <1>5, <1>6 DEF Work

(* How a worker reaches the sending of a recovery.                         *)
LEMMA WorkerDecides ==
  ASSUME TypeInv, RecoveryDecided, NEW w \in Workers, Work(w) \/ RpcFails(w)
  PROVE  RecoveryDecided'
<1> USE DEF At, Goto, Finish, TypeInv, TypeOK
<1>1. \A v \in Workers : v # w => pc'[v] = pc[v] /\ wtx'[v] = wtx[v]
  BY OthersRest
<1>0. \A t : Justified(t) => Justified(t)'
  <2>1. receipts' = receipts
    BY WorkerSends
  <2> QED
    BY <2>1, MisreadGrows, JustifiedStable
<1>2. pc'[w] \in {"recoverNonce", "recoverSend"} =>
        wtx'[w] = wtx[w] /\ Justified(wtx[w])'
  <2>1. CASE \/ CheckEmpty(w) \/ Get(w) \/ CheckAge(w) \/ AwaitBlock(w) \/ StartSearch(w)
             \/ EndSearch(w) \/ CheckHead(w)
    BY <2>1 DEF CheckEmpty, Get, CheckAge, AwaitBlock, StartSearch, EndSearch, CheckHead
  <2>2. CASE \/ CheckVictim(w) \/ Route(w) \/ Route2(w) \/ ReadTarget(w) \/ Delay(w)
             \/ Wait(w) \/ RpcFails(w)
    BY <2>2 DEF CheckVictim, Route, Route2, ReadTarget, Delay, Wait, RpcFails, Raise
  <2>3. CASE Result(w)
    BY <2>3, ResultJustifies
  <2>4. CASE \/ ReadNonce(w, "bundleNonce", "bundleSend") \/ ReadNonce(w, "clubNonce", "clubSend")
             \/ ReadNonce(w, "generalNonce", "sendFront")
             \/ ReadNonce(w, "recoverNonce", "recoverSend")
    BY <1>0, <2>4 DEF ReadNonce, RecoveryDecided
  <2>5. CASE SendBundle(w, "bundleSend", "bloxroute") \/ SendBundle(w, "clubSend", "48club")
    BY <2>5 DEF SendBundle, AfterBundle
  <2>6. CASE SendFront(w) \/ SendBack(w) \/ SendRecover(w)
    BY <2>6 DEF SendFront, SendBack, SendRecover, Send, Raise
  <2> QED
    BY <2>1, <2>2, <2>3, <2>4, <2>5, <2>6 DEF Work
<1>3. ASSUME NEW v \in Workers, pc'[v] \in {"recoverNonce", "recoverSend"}
      PROVE  Justified(wtx[v])' /\ wtx'[v] = wtx[v]
  BY <1>0, <1>1, <1>2, <1>3 DEF RecoveryDecided
<1> QED
  BY <1>3 DEF RecoveryDecided, Justified

(* RecoveryJustified, transaction by transaction and receipt by receipt.   *)
EachRecoveryJustified ==
  /\ \A p \in pool : p.kind = "recover" => Justified(p.tx)
  /\ \A r \in receipts : r.kind = "recover" => Justified(r.tx)

LEMMA RecoveryJustifiedUnfolded ==
  TypeInv => (RecoveryJustified <=> EachRecoveryJustified)
<1> SUFFICES ASSUME TypeInv PROVE RecoveryJustified <=> EachRecoveryJustified
  OBVIOUS
<1>1. \A p \in pool : p.tx \in Txs
  BY DEF TypeInv, TypeOK, ChainTypeOK, RawTxs
<1>2. \A r \in receipts : r \in Receipts
  BY DEF TypeInv, TypeOK, ChainTypeOK
<1>3. \A r \in Receipts : /\ r.tx \in Txs /\ r.ok \in BOOLEAN
                          /\ r = [tx |-> r.tx, kind |-> r.kind, ok |-> r.ok]
  BY DEF Receipts
<1>4. ASSUME RecoveryJustified, NEW r \in receipts, r.kind = "recover"
      PROVE  Justified(r.tx)
  <2>1. HasReceipt(r.tx, "recover", r.ok)
    BY <1>2, <1>3, <1>4 DEF HasReceipt
  <2> QED
    BY <1>2, <1>3, <1>4, <2>1 DEF RecoveryJustified, Justified
<1>5. ASSUME RecoveryJustified, NEW p \in pool, p.kind = "recover"
      PROVE  Justified(p.tx)
  BY <1>1, <1>5 DEF RecoveryJustified, IsPending, Justified
<1>6. ASSUME \A p \in pool : p.kind = "recover" => Justified(p.tx),
             \A r \in receipts : r.kind = "recover" => Justified(r.tx),
             NEW t \in Txs,
             IsPending(t, "recover") \/ \E ok \in BOOLEAN : HasReceipt(t, "recover", ok)
      PROVE  Justified(t)
  <2>1. CASE IsPending(t, "recover")
    BY <1>6, <2>1 DEF IsPending
  <2>2. ASSUME NEW ok \in BOOLEAN, HasReceipt(t, "recover", ok) PROVE Justified(t)
    <3> DEFINE r == [tx |-> t, kind |-> "recover", ok |-> ok]
    <3>1. r \in receipts /\ r.kind = "recover" /\ r.tx = t
      BY <2>2 DEF HasReceipt
    <3> HIDE DEF r
    <3> QED
      BY <1>6, <3>1
  <2> QED
    BY <1>6, <2>1, <2>2
<1> QED
  BY <1>4, <1>5, <1>6 DEF RecoveryJustified, EachRecoveryJustified, Justified

LEMMA RecoveryInit == Init => RecoveryInv
BY TypeInit
DEF Init, ChainInit, RecoveryInv, RecoveryJustified, RecoveryDecided, IsPending, HasReceipt

LEMMA RecoveryNext == RecoveryInv /\ [Next]_vars => RecoveryInv'
<1> SUFFICES ASSUME RecoveryInv, [Next]_vars PROVE RecoveryInv'
  OBVIOUS
<1>0. TypeInv /\ TypeInv'
  BY TypeNext DEF RecoveryInv
<1>1. EachRecoveryJustified
  BY <1>0, RecoveryJustifiedUnfolded DEF RecoveryInv
<1>2. SUFFICES EachRecoveryJustified' /\ RecoveryDecided'
  <2>1. TypeInv' => (RecoveryJustified' <=> EachRecoveryJustified')
    BY RecoveryJustifiedUnfolded, PTL
  <2> QED
    BY <1>0, <2>1 DEF RecoveryInv
<1>3. CASE UNCHANGED <<pool, receipts, misread, pc, wtx>>
  BY <1>1, <1>3
  DEF RecoveryInv, RecoveryDecided, EachRecoveryJustified, Justified, HasReceipt
<1>4. CASE Node
  <2>1. \A t : Justified(t) => Justified(t)'
    <3>1. misread' = misread
      BY <1>4 DEF Node, Mine, MineWithBundle, NodeForgets, ViewsAge, logVars
    <3> QED
      BY <1>0, <1>4, <3>1, NodePool, JustifiedStable
  <2> QED
    BY <1>0, <1>1, <1>4, <2>1, NodePool, NodeQueue
    DEF RecoveryInv, RecoveryDecided, EachRecoveryJustified
<1>5. ASSUME NEW w \in Workers, Work(w) \/ RpcFails(w)
      PROVE  EachRecoveryJustified' /\ RecoveryDecided'
  <2>1. receipts' = receipts /\ \A t : Justified(t) => Justified(t)'
    BY <1>0, <1>5, WorkerSends, MisreadGrows, JustifiedStable
  <2>2. RecoveryDecided'
    BY <1>0, <1>5, WorkerDecides DEF RecoveryInv
  <2>3. \A r : Sends(w, r) /\ r.kind = "recover" => Justified(r.tx)
    BY DEF Sends, At, RecoveryInv, RecoveryDecided
  <2>4. \A p \in pool' : p.kind = "recover" => Justified(p.tx)
    BY <1>0, <1>1, <1>5, <2>3, WorkerSends DEF Sends, Keeps, EachRecoveryJustified
  <2> QED
    BY <1>1, <2>1, <2>2, <2>4 DEF EachRecoveryJustified
<1>6. CASE Stream \/ Announce
  BY <1>3, <1>6
  DEF Stream, Announce, Receive, CheckFull, Trace, Put, chainVars, workerVars, logVars
<1>7. CASE UNCHANGED vars
  BY <1>3, <1>7 DEF vars, chainVars, workerVars, logVars
<1> QED
  BY <1>4, <1>5, <1>6, <1>7 DEF Next

(***************************************************************************)
(* No recovery is in the pool or mined but for an attack whose front run   *)
(* succeeded, that left no native token and whose back run failed, or was  *)
(* asked for while the node was indexing, whatever calls fail.             *)
(***************************************************************************)
THEOREM RecoveriesAreJustified == Spec => []RecoveryJustified
<1>1. RecoveryInv => RecoveryJustified
  BY DEF RecoveryInv
<1> QED
  BY <1>1, RecoveryInit, RecoveryNext, PTL DEF Spec

-----------------------------------------------------------------------------
(* Back runs.                                                              *)

(* A back run in the pool has a worker that waits for it.                  *)
BackRunIsWatched ==
  \A p \in pool : p.kind = "back" => \E w \in Workers : pc[w] = "wait" /\ wtx[w] = p.tx

(* Waiting ends only when the back run has left the pool.                  *)
LEMMA WaitEnds ==
  ASSUME TypeInv, "rpc" \notin Faults, NEW w \in Workers, pc[w] = "wait",
         Work(w) \/ RpcFails(w)
  PROVE  /\ ~IsPending(wtx[w], "back")
         /\ pc'[w] = "result"
         /\ pool' = pool
<1> USE DEF At
<1>1. Wait(w)
  BY DEF Work, CheckEmpty, Get, CheckAge, AwaitBlock, StartSearch, EndSearch, CheckHead,
         CheckVictim, Route, Route2, ReadTarget, Delay, Result, RpcFails, ReadNonce,
         SendBundle, SendFront, SendBack, SendRecover, Send
<1> QED
  BY <1>1 DEF Wait, StillWaits, Goto, Quiet, chainVars, TypeInv, TypeOK

LEMMA BackRunNext ==
  ASSUME OwnerInv, BackRunIsWatched, "rpc" \notin Faults, [Next]_vars
  PROVE  /\ BackRunIsWatched'
         /\ \A w \in Workers : pc[w] # "idle" /\ pc'[w] = "idle" =>
               ~\E p \in pool : p.tx = wtx[w] /\ p.kind = "back"
<1>1. CASE UNCHANGED <<pool, pc, wtx>>
  BY <1>1 DEF BackRunIsWatched
<1>2. CASE Node
  BY <1>2, NodePool, NodeQueue DEF BackRunIsWatched, OwnerInv
<1>3. ASSUME NEW w \in Workers, Work(w) \/ RpcFails(w)
      PROVE  /\ BackRunIsWatched'
             /\ \A v \in Workers : pc[v] # "idle" /\ pc'[v] = "idle" =>
                   ~\E p \in pool : p.tx = wtx[v] /\ p.kind = "back"
  <2>1. \A v \in Workers : v # w => pc'[v] = pc[v] /\ wtx'[v] = wtx[v]
    BY <1>3, OthersRest DEF OwnerInv
  <2>2. \A p \in pool : p.tx \in Txs
    BY DEF OwnerInv, TypeInv, TypeOK, ChainTypeOK, RawTxs
  <2>3. ASSUME pc[w] # "wait", NEW p \in pool, p.kind = "back" PROVE p.tx # wtx[w]
    BY <2>2, <2>3, PipelineAssumption DEF BackRunIsWatched, OwnerInv, SingleOwner
  <2>4. ASSUME pc[w] = "wait", NEW p \in pool, p.kind = "back" PROVE p.tx # wtx[w]
    BY <1>3, <2>4, WaitEnds DEF IsPending, OwnerInv
  <2>5. ASSUME NEW p \in pool, p.kind = "back"
        PROVE  \E v \in Workers : pc'[v] = "wait" /\ wtx'[v] = p.tx
    BY <2>1, <2>3, <2>4, <2>5 DEF BackRunIsWatched
  <2>6. ASSUME NEW r, Sends(w, r), r.kind = "back"
        PROVE  pc'[w] = "wait" /\ wtx'[w] = r.tx
    BY <2>6 DEF Sends, Goto, OwnerInv, TypeInv, TypeOK
  <2>7. \A p \in pool' : p \in pool \/ \E r : Sends(w, r) /\ p = r
    BY <1>3, WorkerSends DEF Sends, Keeps, OwnerInv
  <2>8. BackRunIsWatched'
    BY <2>5, <2>6, <2>7 DEF BackRunIsWatched
  <2> QED
    BY <2>1, <2>3, <2>4, <2>8
<1>4. CASE Stream \/ Announce
  BY <1>1, <1>4
  DEF Stream, Announce, Receive, CheckFull, Trace, Put, chainVars, workerVars
<1>5. CASE UNCHANGED vars
  BY <1>1, <1>5 DEF vars, chainVars, workerVars
<1> QED
  BY <1>2, <1>3, <1>4, <1>5, NodeQueue DEF Next

(***************************************************************************)
(* While no call to the node fails, a worker never leaves a transaction    *)
(* whose back run is still in the pool.                                    *)
(***************************************************************************)
THEOREM BackRunsAreAwaited ==
  ASSUME "rpc" \notin Faults
  PROVE  Spec => NoAbandonedBackRun
<1>1. Init => BackRunIsWatched
  BY DEF Init, ChainInit, BackRunIsWatched
<1>2. OwnerInv /\ BackRunIsWatched /\ [Next]_vars => BackRunIsWatched'
  BY BackRunNext
<1>3. OwnerInv /\ BackRunIsWatched /\ [Next]_vars =>
        [\A w \in Workers :
           pc[w] # "idle" /\ pc'[w] = "idle" =>
             ~\E p \in pool : p.tx = wtx[w] /\ p.kind = "back"]_vars
  BY BackRunNext
<1> QED
  BY <1>1, <1>2, <1>3, OwnerInit, OwnerNext, PTL DEF Spec, NoAbandonedBackRun

-----------------------------------------------------------------------------
(* The nonces in the pool.                                                 *)

(* What the chain's steps do to the pool and to the account's nonce.       *)
LEMMA NodeNonces ==
  ASSUME TypeInv, Node
  PROVE  /\ nonce' \in Nat /\ nonce' >= nonce /\ UNCHANGED <<pc, wtx, seqno>>
         /\ bundles' \subseteq bundles /\ UNCHANGED logVars
         /\ \A p \in pool' : \E q \in pool :
              /\ p = q \/ p = [q EXCEPT !.due = FALSE]
              /\ p.tx = q.tx /\ p.kind = q.kind /\ p.nonce = q.nonce
              /\ p.nonce >= nonce' \/ nonce' = nonce
         /\ \/ \A p \in pool' : \E q \in pool : p = [q EXCEPT !.due = FALSE]
            \/ pool' \subseteq pool
         /\ "drop" \notin Faults =>
              \A q \in pool : q.nonce >= nonce' =>
                \E p \in pool' : p.tx = q.tx /\ p.kind = q.kind /\ p.nonce = q.nonce
<1> USE DEF TypeInv, TypeOK, ChainTypeOK
<1>1. \A q \in pool : LET p == [q EXCEPT !.due = FALSE]
                      IN  p.tx = q.tx /\ p.kind = q.kind /\ p.nonce = q.nonce
  BY DEF RawTxs
<1>2. ASSUME NEW n \in Nat, n >= nonce, NEW c, Seal(n, c), ViewsAge
      PROVE  /\ nonce' = n /\ UNCHANGED <<pc, wtx, seqno, logVars>>
             /\ bundles' \subseteq bundles
             /\ \A p \in pool' : \E q \in pool :
                  p = [q EXCEPT !.due = FALSE] /\ q.nonce >= n
             /\ \A q \in pool : q.nonce >= n => [q EXCEPT !.due = FALSE] \in pool'
  BY <1>2 DEF Seal, ViewsAge
<1>3. ASSUME NEW n \in Nat, n >= nonce, \E c : Seal(n, c), ViewsAge
      PROVE  /\ nonce' \in Nat /\ nonce' >= nonce /\ UNCHANGED <<pc, wtx, seqno>>
             /\ bundles' \subseteq bundles /\ UNCHANGED logVars
             /\ \A p \in pool' : \E q \in pool :
                  /\ p = q \/ p = [q EXCEPT !.due = FALSE]
                  /\ p.tx = q.tx /\ p.kind = q.kind /\ p.nonce = q.nonce
                  /\ p.nonce >= nonce' \/ nonce' = nonce
             /\ \A p \in pool' : \E q \in pool : p = [q EXCEPT !.due = FALSE]
             /\ \A q \in pool : q.nonce >= nonce' =>
                  \E p \in pool' : p.tx = q.tx /\ p.kind = q.kind /\ p.nonce = q.nonce
  <2>1. PICK c : Seal(n, c)
    BY <1>3
  <2>2. /\ nonce' = n /\ UNCHANGED <<pc, wtx, seqno, logVars>>
        /\ bundles' \subseteq bundles
        /\ \A p \in pool' : \E q \in pool : p = [q EXCEPT !.due = FALSE] /\ q.nonce >= n
        /\ \A q \in pool : q.nonce >= n => [q EXCEPT !.due = FALSE] \in pool'
    BY <1>2, <1>3, <2>1
  <2>3. \A p \in pool' : \E q \in pool :
          /\ p = [q EXCEPT !.due = FALSE]
          /\ p.tx = q.tx /\ p.kind = q.kind /\ p.nonce = q.nonce /\ p.nonce >= n
    <3> TAKE p \in pool'
    <3>1. PICK q \in pool : p = [q EXCEPT !.due = FALSE] /\ q.nonce >= n
      BY <2>2
    <3>2. p.tx = q.tx /\ p.kind = q.kind /\ p.nonce = q.nonce
      BY <1>1, <3>1
    <3>3. p.nonce >= n
      BY <3>1, <3>2
    <3> QED
      BY <3>1, <3>2, <3>3
  <2>4. \A q \in pool : q.nonce >= n =>
          \E p \in pool' : p.tx = q.tx /\ p.kind = q.kind /\ p.nonce = q.nonce
    BY <1>1, <2>2
  <2> HIDE DEF TypeInv, TypeOK, ChainTypeOK
  <2> QED
    BY <1>3, <2>2, <2>3, <2>4
<1>4. ASSUME NEW k \in 0 .. Cardinality(pool), Mine(k)
      PROVE  nonce + k \in Nat /\ nonce + k >= nonce /\ (\E c : Seal(nonce + k, c)) /\ ViewsAge
  BY <1>4 DEF Mine, MineBlock
<1>5. ASSUME NEW b \in bundles, MineWithBundle(b)
      PROVE  ViewsAge /\ \E n \in Nat : n >= nonce /\ \E c : Seal(n, c)
  <2>1. ViewsAge /\ Seal(nonce + (IF b.relay = "48club" THEN 3 ELSE 2), {b.tx})
    BY <1>5 DEF MineWithBundle, MineBundle
  <2>2. Seal(nonce + 3, {b.tx}) \/ Seal(nonce + 2, {b.tx})
    BY <2>1
  <2>3. /\ nonce + 3 \in Nat /\ nonce + 3 >= nonce
        /\ nonce + 2 \in Nat /\ nonce + 2 >= nonce
    OBVIOUS
  <2> QED
    BY <2>1, <2>2, <2>3
<1>6. ASSUME NodeForgets
      PROVE  /\ UNCHANGED <<nonce, pc, wtx, seqno, logVars>>
             /\ bundles' \subseteq bundles /\ pool' \subseteq pool
             /\ "drop" \notin Faults => pool' = pool
  BY <1>6 DEF NodeForgets, ExpireBundle, Evict, workerVars
<1> QED
  BY <1>3, <1>4, <1>5, <1>6 DEF Node

(* Nobody has read a nonce that the account has not reached.               *)
NoncesRead == \A w \in Workers : seqno[w] <= nonce

NonceInv == AttacksNeverQueue /\ NoncesRead

LEMMA NonceNode ==
  ASSUME TypeInv, NonceInv, Node
  PROVE  NonceInv'
<1> USE DEF NonceInv, TypeInv, TypeOK, ChainTypeOK
<1>1. /\ nonce' \in Nat /\ nonce' >= nonce /\ UNCHANGED <<pc, wtx, seqno>>
      /\ \A p \in pool' : \E q \in pool :
           /\ p.tx = q.tx /\ p.kind = q.kind /\ p.nonce = q.nonce
           /\ p.nonce >= nonce' \/ nonce' = nonce
  BY NodeNonces
<1>2. \A p \in pool : p.nonce \in Nat
  BY DEF RawTxs
<1>3. \A p \in pool' :
        p.nonce >= nonce' /\ p.nonce <= IF p.kind = "back" THEN nonce' + 1 ELSE nonce'
  <2> SUFFICES ASSUME NEW p \in pool'
               PROVE  /\ p.nonce >= nonce'
                      /\ p.kind = "back" => p.nonce <= nonce' + 1
                      /\ p.kind # "back" => p.nonce <= nonce'
    OBVIOUS
  <2>1. PICK q \in pool : /\ p.kind = q.kind /\ p.nonce = q.nonce
                          /\ p.nonce >= nonce' \/ nonce' = nonce
    BY <1>1
  <2>2. /\ q.nonce >= nonce
        /\ q.kind = "back" => q.nonce <= nonce + 1
        /\ q.kind # "back" => q.nonce <= nonce
    BY DEF AttacksNeverQueue
  <2> QED
    BY <1>1, <1>2, <2>1, <2>2
<1>4. \A p, q \in pool' : p.nonce = q.nonce => p = q
  <2>1. CASE pool' \subseteq pool
    BY <2>1 DEF AttacksNeverQueue
  <2>2. CASE \A p \in pool' : \E q \in pool : p = [q EXCEPT !.due = FALSE]
    <3>1. \A q \in pool : [q EXCEPT !.due = FALSE].nonce = q.nonce
      BY DEF RawTxs
    <3>2. \A p, q \in pool : p.nonce = q.nonce => p = q
      BY DEF AttacksNeverQueue
    <3> HIDE DEF NonceInv, TypeInv, TypeOK, ChainTypeOK
    <3> TAKE p, q \in pool'
    <3>3. PICK p0 \in pool : p = [p0 EXCEPT !.due = FALSE]
      BY <2>2
    <3>4. PICK q0 \in pool : q = [q0 EXCEPT !.due = FALSE]
      BY <2>2
    <3> QED
      BY <3>1, <3>2, <3>3, <3>4
  <2> QED
    BY <2>1, <2>2, NodeNonces
<1>5. NoncesRead'
  BY <1>1 DEF NoncesRead
<1> QED
  BY <1>3, <1>4, <1>5 DEF AttacksNeverQueue

(***************************************************************************)
(* What is accepted has the account's next nonce, or is a back run with    *)
(* the one after, and takes the place of what has the same.                *)
(***************************************************************************)
LEMMA NonceSends ==
  ASSUME TypeInv, NonceInv, NEW w \in Workers, NEW r, Sends(w, r)
  PROVE  /\ r.nonce \in Nat
         /\ \/ r.nonce = nonce
            \/ r.kind = "back" /\ r.nonce = nonce + 1 /\ seqno[w] = nonce
         /\ r \in pool'
         /\ \A p \in pool' : p = r \/ (p \in pool /\ p.nonce # r.nonce)
         /\ \A p \in pool : p \in pool' \/ p.nonce = r.nonce
<1>1. nonce \in Nat /\ seqno[w] \in Nat /\ seqno[w] <= nonce
  BY DEF TypeInv, TypeOK, ChainTypeOK, NonceInv, NoncesRead
<1>2. /\ r.nonce \in Nat
      /\ \/ r.nonce = nonce
         \/ r.kind = "back" /\ r.nonce = nonce + 1 /\ seqno[w] = nonce
  BY <1>1 DEF Sends
<1> QED
  BY <1>2 DEF Sends, Rivals

LEMMA NonceWorker ==
  ASSUME TypeInv, NonceInv, NEW w \in Workers, Work(w) \/ RpcFails(w)
  PROVE  NonceInv'
<1>1. /\ nonce' = nonce /\ nonce \in Nat /\ \A p \in pool : p.nonce \in Nat
      /\ seqno \in [Workers -> Nat]
  BY WorkerSends DEF TypeInv, TypeOK, ChainTypeOK, RawTxs
<1>2. CASE Keeps(w)
  <2>1. AttacksNeverQueue'
    BY <1>1, <1>2 DEF Keeps, AttacksNeverQueue, NonceInv
  <2>2. NoncesRead'
    BY <1>1, <1>2 DEF Keeps, NoncesRead, NonceInv
  <2> QED
    BY <2>1, <2>2 DEF NonceInv
<1>3. ASSUME NEW r, Sends(w, r) PROVE NonceInv'
  <2>1. AttacksNeverQueue'
    BY <1>1, <1>3, NonceSends DEF AttacksNeverQueue, NonceInv, NoncesRead
  <2>2. NoncesRead'
    BY <1>1, <1>3 DEF NoncesRead, Sends, NonceInv
  <2> QED
    BY <2>1, <2>2 DEF NonceInv
<1> QED
  BY <1>2, <1>3, WorkerSends

LEMMA NonceInit == Init => NonceInv
BY DEF Init, ChainInit, NonceInv, AttacksNeverQueue, NoncesRead

(* What the streams leave alone.                                           *)
LEMMA StreamRests ==
  ASSUME Stream \/ Announce \/ UNCHANGED vars
  PROVE  UNCHANGED <<nonce, pool, bundles, receipts, position, pc, wtx, seqno, recovered, raised,
                   misread>>
BY DEF Stream, Announce, Receive, CheckFull, Trace, Put, vars, chainVars, workerVars, logVars

LEMMA NonceNext == TypeInv /\ NonceInv /\ [Next]_vars => NonceInv'
<1> SUFFICES ASSUME TypeInv, NonceInv, [Next]_vars PROVE NonceInv'
  OBVIOUS
<1>1. CASE Stream \/ Announce \/ UNCHANGED vars
  BY <1>1, StreamRests DEF NonceInv, AttacksNeverQueue, NoncesRead
<1> QED
  BY <1>1, NonceNode, NonceWorker DEF Next

(***************************************************************************)
(* However many workers there are, and whatever fails or is lost: the pool *)
(* holds one front run or recovery at most, with the next nonce, and back  *)
(* runs with that nonce or the one after.                                  *)
(***************************************************************************)
THEOREM AttacksReplaceEachOther == Spec => []AttacksNeverQueue
<1>1. NonceInv => AttacksNeverQueue
  BY DEF NonceInv
<1> QED
  BY <1>1, NonceInit, NonceNext, TypeInvariant, PTL DEF Spec

(***************************************************************************)
(* While nothing is evicted, a nonce that has a transaction keeps one      *)
(* until it is used: what replaces a front run takes its place.            *)
(***************************************************************************)
PlacesKept ==
  /\ \A w \in Workers : pc[w] = "sendBack" /\ seqno[w] = nonce =>
       \E p \in pool : p.nonce = nonce
  /\ \A p \in pool : p.nonce > nonce => \E q \in pool : q.nonce = nonce

LEMMA PlacesNode ==
  ASSUME TypeInv, NonceInv, PlacesKept, "drop" \notin Faults, Node
  PROVE  PlacesKept'
<1>1. /\ nonce' \in Nat /\ nonce \in Nat /\ nonce' >= nonce /\ UNCHANGED <<pc, wtx, seqno>>
      /\ \A p \in pool' : \E q \in pool : p.nonce = q.nonce
      /\ \A q \in pool : q.nonce >= nonce' => \E p \in pool' : p.nonce = q.nonce
  BY NodeNonces DEF TypeInv, TypeOK, ChainTypeOK
<1>2. /\ \A w \in Workers : seqno[w] \in Nat /\ seqno[w] <= nonce
      /\ \A p \in pool : p.nonce \in Nat /\ p.nonce <= nonce + 1
  BY DEF TypeInv, TypeOK, ChainTypeOK, RawTxs, NonceInv, NoncesRead, AttacksNeverQueue
<1>3. CASE nonce' = nonce
  BY <1>1, <1>3 DEF PlacesKept
<1>4. CASE nonce' > nonce
  <2>1. \A w \in Workers : seqno[w] # nonce'
    BY <1>1, <1>2, <1>4
  <2>2. \A p \in pool' : ~(p.nonce > nonce')
    BY <1>1, <1>2, <1>4
  <2> QED
    BY <1>1, <2>1, <2>2 DEF PlacesKept
<1> QED
  BY <1>1, <1>3, <1>4

LEMMA PlacesWorker ==
  ASSUME TypeInv, NonceInv, PlacesKept, NEW w \in Workers, Work(w) \/ RpcFails(w)
  PROVE  PlacesKept'
<1>1. nonce' = nonce /\ nonce \in Nat /\ \A v \in Workers : v # w => pc'[v] = pc[v]
  BY WorkerSends, OthersRest DEF TypeInv, TypeOK, ChainTypeOK
<1>2. CASE Keeps(w)
  <2>1. \A v \in Workers : v # w => seqno'[v] = seqno[v]
    BY <1>2 DEF Keeps, TypeInv, TypeOK
  <2> QED
    BY <1>1, <1>2, <2>1 DEF Keeps, PlacesKept
<1>3. ASSUME NEW r, Sends(w, r) PROVE PlacesKept'
  <2>1. seqno' = seqno /\ (pc'[w] = "sendBack" => r.kind = "front" /\ r.nonce = seqno[w])
    BY <1>3 DEF Sends, Goto, Finish, TypeInv, TypeOK
  <2>2. \A p \in pool : \E q \in pool' : q.nonce = p.nonce
    BY <1>3, NonceSends
  <2>3. (\E p \in pool : p.nonce = nonce) => \E q \in pool' : q.nonce = nonce
    BY <2>2
  <2>4. r.nonce = nonce \/ \E p \in pool : p.nonce = nonce
    <3>1. r.kind = "back" => pc[w] = "sendBack"
      BY <1>3 DEF Sends, At
    <3> QED
      BY <1>3, <3>1, NonceSends DEF PlacesKept
  <2>5. \E q \in pool' : q.nonce = nonce
    BY <1>3, <2>3, <2>4, NonceSends
  <2> QED
    BY <1>1, <2>5 DEF PlacesKept
<1> QED
  BY <1>2, <1>3, WorkerSends

LEMMA PlacesNext ==
  ASSUME TypeInv, NonceInv, PlacesKept, "drop" \notin Faults, [Next]_vars
  PROVE  PlacesKept'
<1>1. CASE Stream \/ Announce \/ UNCHANGED vars
  BY <1>1, StreamRests DEF PlacesKept
<1> QED
  BY <1>1, PlacesNode, PlacesWorker DEF Next

(***************************************************************************)
(* While the pool evicts nothing, and however many workers take each       *)
(* other's nonces, calls fail and bundles are mined in between: no back    *)
(* run is left above a nonce that nobody uses.                             *)
(***************************************************************************)
THEOREM NoGapWithoutEviction ==
  ASSUME "drop" \notin Faults
  PROVE  Spec => []NoNonceGap
<1>1. Init => PlacesKept
  BY DEF Init, ChainInit, PlacesKept
<1>2. TypeInv /\ NonceInv /\ PlacesKept /\ [Next]_vars => PlacesKept'
  BY PlacesNext
<1>3. TypeInv /\ NonceInv /\ PlacesKept => NoNonceGap
  <2> SUFFICES ASSUME TypeInv, NonceInv, PlacesKept, NEW p \in pool
               PROVE  /\ p.nonce >= nonce
                      /\ p.nonce > nonce => \E q \in pool : q.nonce = p.nonce - 1
    BY DEF NoNonceGap
  <2>0. nonce \in Nat /\ p.nonce \in Nat
    BY DEF TypeInv, TypeOK, ChainTypeOK, RawTxs
  <2>1. p.nonce >= nonce /\ p.nonce <= nonce + 1
    <3>1. /\ p.nonce >= nonce
          /\ p.nonce <= IF p.kind = "back" THEN nonce + 1 ELSE nonce
      BY DEF NonceInv, AttacksNeverQueue
    <3> QED
      BY <2>0, <3>1
  <2>2. p.nonce > nonce => p.nonce - 1 = nonce
    BY <2>0, <2>1
  <2> QED
    BY <2>1, <2>2 DEF PlacesKept
<1> QED
  BY <1>1, <1>2, <1>3, NonceInit, NonceNext, TypeInvariant, PTL DEF Spec

-----------------------------------------------------------------------------
(* What becomes of an attack.                                              *)

(* Something was sent for a transaction, or has been mined.                *)
Traced(t) ==
  \/ \E p \in pool : p.tx = t
  \/ \E r \in receipts : r.tx = t
  \/ \E b \in bundles : b.tx = t

(* No worker has come to send anything for it yet.                         *)
Unsent(t) ==
  \/ victim[t] = "new"
  \/ streamTx = t
  \/ \E i \in 1 .. Len(txQueue) : txQueue[i] = t
  \/ \E w \in Workers : wtx[w] = t /\ pc[w] \notin Sent

UnsentIsUntraced == \A t \in Txs : Unsent(t) => ~Traced(t)

(* What a block of k transactions of the account does, one by one.         *)
LEMMA BlockMined ==
  ASSUME TypeInv, NEW k \in Nat, MineBlock(k)
  PROVE  \E ok \in SUBSET pool :
           /\ \A p \in ok : p.nonce < nonce' /\ MaySucceed(p, ok)
           /\ receipts \subseteq receipts'
           /\ \A p \in ok : [tx |-> p.tx, kind |-> p.kind, ok |-> TRUE] \in receipts'
           /\ \A r \in receipts' \ receipts : \E p \in pool :
                /\ p.nonce < nonce' /\ r.tx = p.tx /\ r.kind = p.kind
                /\ r = [tx |-> p.tx, kind |-> p.kind, ok |-> p \in ok]
           /\ \A t \in position' :
                \/ t \in position
                \/ t \notin NativeEnd /\ \E p \in ok : p.tx = t /\ p.kind = "front"
           /\ \A p \in ok : p.kind \in {"back", "recover"} => p.tx \notin position'
<1> DEFINE included == {p \in pool : p.nonce < nonce + k}
           Of(kinds, S) == {p.tx : p \in {q \in S : q.kind \in kinds}}
           Receipt(p, ok) == [tx |-> p.tx, kind |-> p.kind, ok |-> p \in ok]
<1>1. nonce' = nonce + k
  BY DEF MineBlock, Seal
<1>2. PICK ok \in SUBSET included :
        /\ \A p \in ok : MaySucceed(p, ok)
        /\ receipts' = receipts \union {Receipt(p, ok) : p \in included}
        /\ position' = (position \union (Of({"front"}, ok) \ NativeEnd))
                          \ Of({"back", "recover"}, ok)
  BY DEF MineBlock
<1>3. /\ receipts \subseteq receipts'
      /\ \A r \in receipts' \ receipts : \E p \in pool :
           p.nonce < nonce' /\ r.tx = p.tx /\ r.kind = p.kind /\ r = Receipt(p, ok)
  BY <1>1, <1>2
<1>4. ASSUME NEW p \in ok PROVE [tx |-> p.tx, kind |-> p.kind, ok |-> TRUE] \in receipts'
  <2>1. Receipt(p, ok) \in receipts' /\ (p \in ok) = TRUE
    BY <1>2
  <2> QED
    BY <2>1, Zenon
<1>5. \A t \in position' :
        t \in position \/ (t \notin NativeEnd /\ \E p \in ok : p.tx = t /\ p.kind = "front")
  BY <1>2
<1>6. \A p \in ok : p.kind \in {"back", "recover"} => p.tx \notin position'
  BY <1>2
<1>7. ok \in SUBSET pool /\ \A p \in ok : p.nonce < nonce'
  BY <1>1
<1> QED
  BY <1>2, <1>3, <1>4, <1>5, <1>6, <1>7

(* A block with a bundle.                                                  *)
LEMMA BundleMined ==
  ASSUME TypeInv, NEW b \in bundles, MineBundle(b)
  PROVE  /\ b.nonce = nonce /\ position' = position
         /\ receipts' = receipts \union
              {[tx |-> b.tx, kind |-> k, ok |-> TRUE] : k \in {"front", "back"}}
BY DEF MineBundle

(* Nothing that the chain does is about a transaction nobody sent for.     *)
LEMMA UntracedNode ==
  ASSUME OwnerInv, UnsentIsUntraced, Node
  PROVE  UnsentIsUntraced'
<1> USE DEF OwnerInv
<1>1. \A t \in Txs : Unsent(t)' => Unsent(t)
  BY NodeQueue DEF Unsent
<1>2. ASSUME NEW r \in receipts', r \notin receipts
      PROVE  (\E p \in pool : p.tx = r.tx) \/ (\E b \in bundles : b.tx = r.tx)
  <2>1. ASSUME NEW k \in 0 .. Cardinality(pool), Mine(k)
        PROVE  \E p \in pool : p.tx = r.tx
    BY <1>2, <2>1, BlockMined DEF Mine
  <2>2. ASSUME NEW b \in bundles, MineWithBundle(b)
        PROVE  b.tx = r.tx
    BY <1>2, <2>2, BundleMined DEF MineWithBundle
  <2>3. CASE NodeForgets
    BY <1>2, <2>3 DEF NodeForgets, ExpireBundle, Evict
  <2> QED
    BY <2>1, <2>2, <2>3 DEF Node
<1>3. \A t : Traced(t)' => Traced(t)
  BY <1>2, NodeNonces DEF Traced
<1> QED
  BY <1>1, <1>3 DEF UnsentIsUntraced

(* The stream sends nothing.                                               *)
LEMMA UntracedStream ==
  ASSUME OwnerInv, UnsentIsUntraced, Stream \/ Announce \/ UNCHANGED vars
  PROVE  UnsentIsUntraced'
<1> USE DEF OwnerInv, TypeInv, TypeOK, ChainTypeOK
<1>1. UNCHANGED <<pool, receipts, bundles, pc, wtx>>
  BY DEF Stream, Announce, Receive, CheckFull, Trace, Put, vars, chainVars, workerVars
<1>2. ASSUME NEW t \in Txs, Unsent(t)' PROVE Unsent(t)
  <2>1. CASE \E u \in Txs : Receive(u)
    <3>1. PICK u \in Txs : Receive(u)
      BY <2>1
    <3>2. /\ streamTx' = streamTx \/ streamTx' = u
          /\ victim[u] = "new" /\ txQueue' = txQueue
          /\ victim'[t] = "new" => victim[t] = "new"
      BY <3>1 DEF Receive, streamVars
    <3> QED
      BY <1>1, <1>2, <3>2 DEF Unsent
  <2>2. CASE CheckFull \/ Trace
    BY <1>1, <1>2, <2>2, PipelineAssumption DEF Unsent, CheckFull, Trace, StreamDone, chainVars
  <2>3. CASE Put
    <3>1. /\ \A i \in 1 .. Len(txQueue') :
               \/ i \in 1 .. Len(txQueue) /\ txQueue'[i] = txQueue[i]
               \/ txQueue'[i] = streamTx
          /\ streamTx' = NoTx /\ victim' = victim
      BY <2>3 DEF Put, StreamDone, chainVars, Occupied
    <3> QED
      BY <1>1, <1>2, <3>1, PipelineAssumption DEF Unsent
  <2>4. CASE Announce \/ UNCHANGED vars
    BY <1>1, <1>2, <2>4 DEF Unsent, Announce, vars, chainVars, streamVars
  <2> QED
    BY <2>1, <2>2, <2>3, <2>4 DEF Stream
<1>3. \A t : Traced(t)' <=> Traced(t)
  BY <1>1 DEF Traced
<1> QED
  BY <1>2, <1>3 DEF UnsentIsUntraced

(***************************************************************************)
(* What a worker's step does to an attack it has begun: the worker is at   *)
(* it still, has sent its recovery, has logged an exception, or has found  *)
(* that there is nothing to recover.                                       *)
(***************************************************************************)
LEMMA WorkerReports ==
  ASSUME TypeInv, NEW w \in Workers, Work(w) \/ RpcFails(w)
  PROVE  /\ recovered \subseteq recovered' /\ raised \subseteq raised'
         /\ pc[w] \in Sent =>
              \/ pc'[w] \in Sent /\ wtx'[w] = wtx[w]
              \/ wtx'[w] = NoTx /\ wtx[w] \in recovered' \union raised'
              \/ /\ wtx'[w] = NoTx /\ Keeps(w)
                 /\ \E indexed \in Indexed(wtx[w]) :
                      /\ Settled(wtx[w], indexed)
                      /\ indexed = "front" => <<wtx[w], "front">> \in misread'
         /\ pc[w] \notin Sent /\ pc'[w] \in Sent => pc[w] = "sendFront" /\ wtx'[w] = wtx[w]
<1> USE DEF At, Goto, Finish, Raise, Rest, Quiet, logVars, Sent, TypeInv, TypeOK
<1>1. CASE \/ CheckEmpty(w) \/ Get(w) \/ CheckAge(w) \/ AwaitBlock(w) \/ StartSearch(w)
           \/ EndSearch(w) \/ CheckHead(w)
  BY <1>1 DEF CheckEmpty, Get, CheckAge, AwaitBlock, StartSearch, EndSearch, CheckHead
<1>2. CASE \/ CheckVictim(w) \/ Route(w) \/ Route2(w) \/ ReadTarget(w) \/ Delay(w)
           \/ Wait(w)
  BY <1>2 DEF CheckVictim, Route, Route2, ReadTarget, Delay, Wait
<1>3. CASE \/ ReadNonce(w, "bundleNonce", "bundleSend") \/ ReadNonce(w, "clubNonce", "clubSend")
           \/ ReadNonce(w, "generalNonce", "sendFront")
           \/ ReadNonce(w, "recoverNonce", "recoverSend")
  BY <1>3 DEF ReadNonce
<1>4. CASE SendBundle(w, "bundleSend", "bloxroute") \/ SendBundle(w, "clubSend", "48club")
  BY <1>4 DEF SendBundle, AfterBundle
<1>5. CASE SendFront(w) \/ SendBack(w) \/ SendRecover(w)
  BY <1>5 DEF SendFront, SendBack, SendRecover, Send
<1>6. CASE Result(w)
  BY <1>6 DEF Result, Asked, Keeps, chainVars
<1>7. CASE RpcFails(w)
  BY <1>7 DEF RpcFails
<1> QED
  BY <1>1, <1>2, <1>3, <1>4, <1>5, <1>6, <1>7 DEF Work

(***************************************************************************)
(* What a worker's step adds to the pool and the bundles is about its own  *)
(* transaction, and from then on the worker has sent for it or let it go.  *)
(***************************************************************************)
LEMMA WorkerTraces ==
  ASSUME TypeInv, NEW w \in Workers, Work(w) \/ RpcFails(w)
  PROVE  /\ pc[w] \in Sent => pc'[w] \in Sent \/ wtx'[w] = NoTx
         /\ \A t : Traced(t)' =>
              \/ Traced(t)
              \/ t = wtx[w] /\ (pc'[w] \in Sent \/ wtx'[w] = NoTx)
<1> USE DEF TypeInv, TypeOK
<1>1. pc[w] \in Sent => pc'[w] \in Sent \/ wtx'[w] = NoTx
  BY WorkerReports
<1>2. CASE Keeps(w)
  BY <1>1, <1>2, WorkerSends DEF Keeps, Hands, Finish, Traced
<1>3. ASSUME NEW r, Sends(w, r)
      PROVE  \A t : Traced(t)' => Traced(t) \/ (t = wtx[w] /\ (pc'[w] \in Sent \/ wtx'[w] = NoTx))
  <2>1. pc'[w] \in Sent \/ wtx'[w] = NoTx
    BY <1>3 DEF Sends, Goto, Finish, Sent
  <2>2. /\ \A p \in pool' : p \in pool \/ p.tx = wtx[w]
        /\ UNCHANGED <<bundles, receipts>>
    BY <1>3, WorkerSends DEF Sends
  <2> QED
    BY <2>1, <2>2 DEF Traced
<1> QED
  BY <1>1, <1>2, <1>3, WorkerSends

LEMMA UntracedWorker ==
  ASSUME OwnerInv, UnsentIsUntraced, NEW w \in Workers, Work(w) \/ RpcFails(w)
  PROVE  UnsentIsUntraced'
<1> USE DEF OwnerInv, TypeInv, TypeOK
<1>0. OwnerInv'
  BY OwnerNext DEF Next
<1>1. ASSUME NEW t \in Txs, Unsent(t)' PROVE Unsent(t)
  <2>1. streamTx' = streamTx /\ victim' = victim
    BY WorkerQueue
  <2>2. CASE Get(w)
    <3>1. \A i \in 1 .. Len(txQueue') : i + 1 \in 1 .. Len(txQueue) /\ txQueue'[i] = txQueue[i + 1]
      BY <2>2 DEF Get, Dequeued
    <3>2. wtx'[w] = txQueue[1] /\ 1 \in 1 .. Len(txQueue)
      BY <2>2 DEF Get
    <3>3. \A v \in Workers : v # w => wtx'[v] = wtx[v] /\ pc'[v] = pc[v]
      BY OthersRest
    <3>4. (\E i \in 1 .. Len(txQueue') : txQueue'[i] = t) => Unsent(t)
      BY <3>1 DEF Unsent
    <3>5. (\E v \in Workers : wtx'[v] = t /\ pc'[v] \notin Sent) => Unsent(t)
      BY <3>2, <3>3 DEF Unsent
    <3> HIDE DEF OwnerInv, TypeInv, TypeOK
    <3> QED
      BY <1>1, <2>1, <3>4, <3>5 DEF Unsent
  <2>3. CASE UNCHANGED txQueue /\ Moves(w)
    <3>1. \A v \in Workers : v # w => wtx'[v] = wtx[v] /\ pc'[v] = pc[v]
      BY OthersRest
    <3>2. wtx'[w] \in {wtx[w], NoTx}
      BY <2>3 DEF Moves, Finish, Goto
    <3>3. pc[w] \in Sent => pc'[w] \in Sent \/ wtx'[w] = NoTx
      BY WorkerTraces
    <3> QED
      BY <1>1, <2>1, <2>3, <3>1, <3>2, <3>3, PipelineAssumption DEF Unsent
  <2> QED
    BY <2>2, <2>3, WorkerQueue
<1>2. ASSUME NEW t \in Txs, Unsent(t)', Traced(t)'
      PROVE  FALSE
  <2>1. ~Traced(t)
    BY <1>1, <1>2 DEF UnsentIsUntraced
  <2>2. t = wtx[w] /\ (pc'[w] \in Sent \/ wtx'[w] = NoTx)
    BY <1>2, <2>1, WorkerTraces
  <2>3. ~Get(w) /\ UNCHANGED <<streamTx, victim, txQueue>> /\ Moves(w)
    BY <2>2, WorkerQueue, PipelineAssumption DEF Get, At, Occupied
  <2>4. \A v \in Workers : v # w => wtx'[v] # t
    BY <2>2, OthersRest, PipelineAssumption DEF SingleOwner
  <2>5. /\ victim'[t] # "new" /\ streamTx' # t
        /\ \A i \in 1 .. Len(txQueue') : txQueue'[i] # t
    BY <2>2, <2>3, PipelineAssumption DEF SingleOwner, FreshIsUnheld
  <2>6. wtx'[w] = t => pc'[w] \in Sent
    BY <2>2, PipelineAssumption
  <2> QED
    BY <1>2, <2>4, <2>5, <2>6 DEF Unsent
<1> QED
  BY <1>2 DEF UnsentIsUntraced

(***************************************************************************)
(* What went to a relay went nowhere else, and the worker has let it go.   *)
(***************************************************************************)
BundlesApart ==
  \A b \in bundles :
    /\ \A c \in bundles : c.tx = b.tx => c = b
    /\ \A p \in pool : p.tx # b.tx
    /\ \A r \in receipts : r.tx # b.tx
    /\ \A w \in Workers : pc[w] \in Sent => wtx[w] # b.tx

(* An attack whose front run is mined has no other.                        *)
FrontsApart ==
  \A r \in receipts : r.kind = "front" =>
    /\ \A s \in receipts : s.kind = "front" /\ s.tx = r.tx => s = r
    /\ \A p \in pool : p.kind = "front" => p.tx # r.tx

AttackInv == OwnerInv /\ NonceInv /\ UnsentIsUntraced /\ BundlesApart /\ FrontsApart

(* There is one front run in the pool.                                     *)
LEMMA OneFront ==
  ASSUME TypeInv, NonceInv, NEW p \in pool, NEW q \in pool, p.kind = "front", q.kind = "front"
  PROVE  p = q
<1>1. /\ p.nonce \in Nat /\ q.nonce \in Nat /\ nonce \in Nat
      /\ p.nonce >= nonce /\ q.nonce >= nonce
  BY DEF TypeInv, TypeOK, ChainTypeOK, RawTxs, NonceInv, AttacksNeverQueue
<1>2. p.nonce <= nonce /\ q.nonce <= nonce
  BY DEF NonceInv, AttacksNeverQueue
<1> QED
  BY <1>1, <1>2 DEF NonceInv, AttacksNeverQueue

LEMMA ApartNode ==
  ASSUME AttackInv, Node
  PROVE  BundlesApart' /\ FrontsApart'
<1> USE DEF AttackInv, OwnerInv
<1>1. /\ UNCHANGED <<pc, wtx>> /\ bundles' \subseteq bundles
      /\ \A p \in pool' : \E q \in pool : p.tx = q.tx /\ p.kind = q.kind /\ p.nonce = q.nonce
  BY NodeNonces
<1>2. CASE receipts' = receipts
  BY <1>1, <1>2 DEF BundlesApart, FrontsApart
<1>3. ASSUME NEW k \in 0 .. Cardinality(pool), Mine(k)
      PROVE  BundlesApart' /\ FrontsApart'
  <2>1. PICK ok \in SUBSET pool : \A r \in receipts' \ receipts : \E p \in pool :
          /\ p.nonce < nonce' /\ r.tx = p.tx /\ r.kind = p.kind
          /\ r = [tx |-> p.tx, kind |-> p.kind, ok |-> p \in ok]
    BY <1>3, BlockMined DEF Mine
  <2>2. BundlesApart'
    <3>1. \A b \in bundles, r \in receipts' : r.tx # b.tx
      BY <2>1 DEF BundlesApart
    <3> QED
      BY <1>1, <3>1 DEF BundlesApart
  <2>3. ASSUME NEW r \in receipts', r \notin receipts, r.kind = "front", NEW p \in pool,
               p.kind = "front"
        PROVE  /\ r = [tx |-> p.tx, kind |-> p.kind, ok |-> p \in ok]
               /\ r.tx = p.tx /\ p.nonce < nonce'
    BY <2>1, <2>3, OneFront
  <2>4. \A r \in receipts' : r \notin receipts /\ r.kind = "front" =>
          \E p \in pool : p.kind = "front" /\ p.tx = r.tx
    BY <2>1
  <2>5. ASSUME NEW r \in receipts', NEW s \in receipts', r.kind = "front", s.kind = "front",
               r.tx = s.tx
        PROVE  r = s
    <3>1. CASE r \in receipts /\ s \in receipts
      BY <2>5, <3>1 DEF FrontsApart
    <3>2. CASE r \notin receipts /\ s \notin receipts
      BY <2>3, <2>4, <2>5, <3>2
    <3>3. ASSUME NEW x \in receipts, NEW y \in receipts', y \notin receipts,
                 x.kind = "front", y.kind = "front"
          PROVE  x.tx # y.tx
      BY <2>4, <3>3 DEF FrontsApart
    <3> QED
      BY <2>5, <3>1, <3>2, <3>3
  <2>6. ASSUME NEW r \in receipts', r.kind = "front", NEW p \in pool', p.kind = "front"
        PROVE  p.tx # r.tx
    <3>1. PICK q \in pool : p.tx = q.tx /\ p.kind = q.kind /\ p.nonce = q.nonce
      BY <1>1
    <3>2. CASE r \in receipts
      BY <2>6, <3>1, <3>2 DEF FrontsApart
    <3>3. CASE r \notin receipts
      <4>1. q.nonce < nonce'
        BY <2>3, <2>6, <3>1, <3>3
      <4>2. p.nonce >= nonce' /\ p.nonce \in Nat /\ nonce' \in Nat
        <5>1. NonceInv' /\ TypeInv'
          BY NonceNode, TypeNext DEF Next
        <5> QED
          BY <5>1 DEF NonceInv, AttacksNeverQueue, TypeInv, TypeOK, ChainTypeOK, RawTxs
      <4> QED
        BY <3>1, <4>1, <4>2
    <3> QED
      BY <3>2, <3>3
  <2> QED
    BY <2>2, <2>5, <2>6 DEF FrontsApart
<1>4. ASSUME NEW b \in bundles, MineWithBundle(b)
      PROVE  BundlesApart' /\ FrontsApart'
  <2>1. \A r \in receipts' : r \in receipts \/ r.tx = b.tx
    BY <1>4, BundleMined DEF MineWithBundle
  <2>2. \A r \in receipts' : r.kind = "front" =>
          r \in receipts \/ r = [tx |-> b.tx, kind |-> "front", ok |-> TRUE]
    BY <1>4, BundleMined DEF MineWithBundle
  <2>3. b \notin bundles'
    <3>1. nonce \in Nat /\ b.nonce = nonce /\ nonce' \in Nat /\ nonce' > nonce
      BY <1>4 DEF MineWithBundle, MineBundle, Seal, TypeInv, TypeOK, ChainTypeOK
    <3>2. b \in bundles' => b.nonce >= nonce'
      BY <1>4 DEF MineWithBundle, MineBundle, Seal
    <3> QED
      BY <3>1, <3>2
  <2>4. \A c \in bundles' : c.tx # b.tx
    BY <1>1, <2>3 DEF BundlesApart
  <2>5. \A r \in receipts : r.tx # b.tx
    BY DEF BundlesApart
  <2>6. \A p \in pool' : p.tx # b.tx
    BY <1>1 DEF BundlesApart
  <2>7. BundlesApart'
    BY <1>1, <2>1, <2>4 DEF BundlesApart
  <2>8. FrontsApart'
    <3> DEFINE f == [tx |-> b.tx, kind |-> "front", ok |-> TRUE]
    <3>1. f.tx = b.tx
      OBVIOUS
    <3>2. \A r \in receipts' : r.kind = "front" => r \in receipts \/ r = f
      BY <2>2
    <3> HIDE DEF f
    <3>3. ASSUME NEW r \in receipts', NEW s \in receipts', r.kind = "front", s.kind = "front",
                 s.tx = r.tx
          PROVE  s = r
      BY <2>5, <3>1, <3>2, <3>3 DEF FrontsApart
    <3>4. ASSUME NEW r \in receipts', r.kind = "front", NEW p \in pool', p.kind = "front"
          PROVE  p.tx # r.tx
      BY <1>1, <2>1, <2>6, <3>4 DEF FrontsApart
    <3> QED
      BY <3>3, <3>4 DEF FrontsApart
  <2> QED
    BY <2>7, <2>8
<1>5. CASE NodeForgets
  BY <1>2, <1>5 DEF NodeForgets, ExpireBundle, Evict
<1> QED
  BY <1>3, <1>4, <1>5 DEF Node

LEMMA ApartWorker ==
  ASSUME AttackInv, NEW w \in Workers, Work(w) \/ RpcFails(w)
  PROVE  BundlesApart' /\ FrontsApart'
<1> USE DEF AttackInv, OwnerInv
<1>1. /\ receipts' = receipts
      /\ \A v \in Workers : v # w => pc'[v] = pc[v] /\ wtx'[v] = wtx[v]
  BY WorkerSends, OthersRest
<1>2. pc[w] \in {"bundleSend", "clubSend", "sendFront"} => ~Traced(wtx[w])
  <2> SUFFICES ASSUME pc[w] \in {"bundleSend", "clubSend", "sendFront"} PROVE ~Traced(wtx[w])
    OBVIOUS
  <2>1. wtx[w] \in Txs
    BY DEF TypeInv, TypeOK, Occupied
  <2> QED
    BY <2>1 DEF UnsentIsUntraced, Unsent, Sent
<1>3. pc[w] = "sendFront" => \A b \in bundles : b.tx # wtx[w]
  BY <1>2 DEF Traced
<1>4. \A v \in Workers, b \in bundles : pc'[v] \in Sent => wtx'[v] # b.tx
  <2> SUFFICES ASSUME NEW v \in Workers, NEW b \in bundles, pc'[v] \in Sent PROVE wtx'[v] # b.tx
    OBVIOUS
  <2>1. CASE v # w
    BY <1>1, <2>1 DEF BundlesApart
  <2>2. CASE v = w
    <3>1. b.tx # NoTx
      BY PipelineAssumption DEF TypeInv, TypeOK, ChainTypeOK, Bundles
    <3>2. CASE pc[w] \in Sent
      BY <2>2, <3>1, <3>2, WorkerReports DEF BundlesApart
    <3>3. CASE pc[w] \notin Sent
      BY <1>3, <2>2, <3>3, WorkerReports
    <3> QED
      BY <3>2, <3>3
  <2> QED
    BY <2>1, <2>2
<1>5. CASE Keeps(w) /\ bundles' = bundles
  BY <1>1, <1>4, <1>5 DEF Keeps, BundlesApart, FrontsApart
<1>6. ASSUME NEW b, Hands(w, b), Keeps(w) PROVE BundlesApart' /\ FrontsApart'
  <2>1. /\ pool' = pool /\ bundles' = bundles \union {b} /\ b.tx = wtx[w] /\ ~Traced(wtx[w])
        /\ wtx[w] # NoTx /\ wtx'[w] = NoTx
    BY <1>2, <1>6 DEF Keeps, Hands, Finish, TypeInv, TypeOK, Occupied
  <2>2. \A v \in Workers : wtx'[v] # b.tx
    BY <1>1, <2>1 DEF SingleOwner
  <2>3. /\ \A c \in bundles : c.tx # b.tx
        /\ \A p \in pool : p.tx # b.tx
        /\ \A r \in receipts : r.tx # b.tx
    BY <2>1 DEF Traced
  <2>4. BundlesApart'
    BY <1>1, <1>4, <2>1, <2>2, <2>3 DEF BundlesApart
  <2> QED
    BY <1>1, <2>1, <2>4 DEF FrontsApart
<1>7. ASSUME NEW r, Sends(w, r) PROVE BundlesApart' /\ FrontsApart'
  <2>1. /\ bundles' = bundles /\ r.tx = wtx[w]
        /\ \A p \in pool' : p \in pool \/ p = r
        /\ r.kind = "front" => pc[w] = "sendFront"
        /\ pc[w] \in Sent \/ pc[w] = "sendFront"
    BY <1>7 DEF Sends, At, Sent
  <2>2. \A b \in bundles : r.tx # b.tx
    BY <1>3, <2>1 DEF BundlesApart
  <2>3. r.kind = "front" => \A s \in receipts : s.tx # r.tx
    BY <1>2, <2>1 DEF Traced
  <2> QED
    BY <1>1, <1>4, <2>1, <2>2, <2>3 DEF BundlesApart, FrontsApart
<1> QED
  BY <1>5, <1>6, <1>7, WorkerSends DEF Keeps

LEMMA AttackInit == Init => AttackInv
BY OwnerInit, NonceInit
DEF Init, ChainInit, AttackInv, UnsentIsUntraced, Traced, BundlesApart, FrontsApart

LEMMA AttackNext == AttackInv /\ [Next]_vars => AttackInv'
<1> SUFFICES ASSUME AttackInv, [Next]_vars PROVE AttackInv'
  OBVIOUS
<1> USE DEF AttackInv
<1>1. OwnerInv' /\ NonceInv'
  BY OwnerNext, NonceNext DEF OwnerInv
<1>2. CASE Stream \/ Announce \/ UNCHANGED vars
  BY <1>1, <1>2, StreamRests, UntracedStream DEF BundlesApart, FrontsApart
<1>3. CASE Node
  BY <1>1, <1>3, UntracedNode, ApartNode
<1>4. ASSUME NEW w \in Workers, Work(w) \/ RpcFails(w) PROVE AttackInv'
  BY <1>1, <1>4, UntracedWorker, ApartWorker
<1> QED
  BY <1>2, <1>3, <1>4 DEF Next

(***************************************************************************)
(* Whatever fails or is lost, and however many workers there are: a victim *)
(* is never front-run twice, through the pool, a relay or both.            *)
(***************************************************************************)
THEOREM VictimsAreFrontRunOnce == Spec => []OneFrontRunPerVictim
<1>1. AttackInv => OneFrontRunPerVictim
  <2> SUFFICES ASSUME AttackInv, NEW t \in Txs,
                      NEW x \in FrontRunsFor(t), NEW y \in FrontRunsFor(t)
               PROVE  x = y
    BY DEF OneFrontRunPerVictim
  <2> DEFINE P == {q \in pool : q.tx = t /\ q.kind = "front"}
             B == {c \in bundles : c.tx = t}
             R == {s \in receipts : s.tx = t /\ s.kind = "front"}
  <2>1. /\ \A p, q \in P : p = q
        /\ \A b, c \in B : b = c
        /\ \A r, s \in R : r = s
    BY OneFront DEF AttackInv, OwnerInv, BundlesApart, FrontsApart
  <2>2. /\ P = {} \/ B = {}
        /\ P = {} \/ R = {}
        /\ B = {} \/ R = {}
    BY DEF AttackInv, BundlesApart, FrontsApart
  <2>3. \A z \in FrontRunsFor(t) : \/ \E p \in P : z = <<"pool", p>>
                                   \/ \E b \in B : z = <<"bundle", b>>
                                   \/ \E r \in R : z = <<"mined", r>>
    BY DEF FrontRunsFor
  <2> HIDE DEF P, B, R
  <2> QED
    BY <2>1, <2>2, <2>3
<1> QED
  BY <1>1, AttackInit, AttackNext, PTL DEF Spec

-----------------------------------------------------------------------------
(* What becomes of the tokens of a front run.                              *)

Sold(t) == HasReceipt(t, "back", TRUE) \/ HasReceipt(t, "recover", TRUE)

(***************************************************************************)
(* Tokens in the contract are those of a front run that succeeded; once    *)
(* they are sold they are not there any more.                              *)
(***************************************************************************)
TokensTraced ==
  /\ \A t \in position : t \notin NativeEnd /\ HasReceipt(t, "front", TRUE)
  /\ \A t \in Txs \ NativeEnd : Sold(t) => t \notin position /\ HasReceipt(t, "front", TRUE)

LEMMA TokensNode ==
  ASSUME AttackInv, TokensTraced, Node
  PROVE  TokensTraced'
<1> USE DEF AttackInv, OwnerInv
<1>1. CASE UNCHANGED <<receipts, position>>
  BY <1>1 DEF TokensTraced, Sold, HasReceipt
<1>2. ASSUME NEW k \in 0 .. Cardinality(pool), Mine(k) PROVE TokensTraced'
  <2>1. PICK ok \in SUBSET pool :
          /\ \A p \in ok : p.nonce < nonce' /\ MaySucceed(p, ok)
          /\ receipts \subseteq receipts'
          /\ \A p \in ok : [tx |-> p.tx, kind |-> p.kind, ok |-> TRUE] \in receipts'
          /\ \A r \in receipts' \ receipts : \E p \in pool :
               /\ p.nonce < nonce' /\ r.tx = p.tx /\ r.kind = p.kind
               /\ r = [tx |-> p.tx, kind |-> p.kind, ok |-> p \in ok]
          /\ \A t \in position' :
               \/ t \in position
               \/ t \notin NativeEnd /\ \E p \in ok : p.tx = t /\ p.kind = "front"
          /\ \A p \in ok : p.kind \in {"back", "recover"} => p.tx \notin position'
    BY <1>2, BlockMined DEF Mine
  <2>2. ASSUME NEW t, t \in position \/ \E p \in ok : p.tx = t /\ p.kind = "front"
        PROVE  HasReceipt(t, "front", TRUE)'
    BY <2>1, <2>2 DEF TokensTraced, HasReceipt
  <2>3. \A t \in position' : t \notin NativeEnd /\ HasReceipt(t, "front", TRUE)'
    BY <2>1, <2>2 DEF TokensTraced
  <2>4. ASSUME NEW t \in Txs \ NativeEnd, Sold(t)
        PROVE  t \notin position' /\ HasReceipt(t, "front", TRUE)'
    <3>1. t \notin position /\ HasReceipt(t, "front", TRUE)
      BY <2>4 DEF TokensTraced
    <3>2. \A p \in pool : p.kind = "front" => p.tx # t
      BY <3>1 DEF FrontsApart, HasReceipt
    <3> QED
      BY <2>1, <3>1, <3>2 DEF HasReceipt
  <2>5. ASSUME NEW t \in Txs \ NativeEnd, NEW kind \in {"back", "recover"},
               HasReceipt(t, kind, TRUE)', ~HasReceipt(t, kind, TRUE)
        PROVE  t \notin position' /\ HasReceipt(t, "front", TRUE)'
    <3> DEFINE r == [tx |-> t, kind |-> kind, ok |-> TRUE]
    <3>1. r \in receipts' \ receipts /\ r.tx = t /\ r.kind = kind /\ r.ok = TRUE
      BY <2>5 DEF HasReceipt
    <3> HIDE DEF r
    <3>2. PICK p \in pool : /\ r.tx = p.tx /\ r.kind = p.kind
                            /\ r = [tx |-> p.tx, kind |-> p.kind, ok |-> p \in ok]
      BY <2>1, <3>1
    <3>3. p \in ok /\ p.tx = t /\ p.kind = kind
      BY <3>1, <3>2
    <3>4. t \in position \/ \E q \in ok : q.tx = t /\ q.kind = "front"
      BY <2>1, <3>3 DEF MaySucceed
    <3> QED
      BY <2>1, <2>2, <3>3, <3>4
  <2>6. \A t \in Txs \ NativeEnd : Sold(t)' => t \notin position' /\ HasReceipt(t, "front", TRUE)'
    BY <2>4, <2>5 DEF Sold
  <2> QED
    BY <2>3, <2>6 DEF TokensTraced
<1>3. ASSUME NEW b \in bundles, MineWithBundle(b) PROVE TokensTraced'
  <2>1. /\ position' = position
        /\ receipts' = receipts \union
             {[tx |-> b.tx, kind |-> k, ok |-> TRUE] : k \in {"front", "back"}}
    BY <1>3, BundleMined DEF MineWithBundle
  <2>2. \A t : /\ HasReceipt(t, "front", TRUE) => HasReceipt(t, "front", TRUE)'
               /\ Sold(t)' => Sold(t) \/ t = b.tx
               /\ HasReceipt(b.tx, "front", TRUE)'
    BY <2>1 DEF HasReceipt, Sold
  <2>3. b.tx \notin position
    BY DEF TokensTraced, BundlesApart, HasReceipt
  <2> QED
    BY <2>1, <2>2, <2>3 DEF TokensTraced
<1>4. CASE NodeForgets
  BY <1>1, <1>4 DEF NodeForgets, ExpireBundle, Evict
<1> QED
  BY <1>2, <1>3, <1>4 DEF Node

LEMMA TokensNext ==
  ASSUME AttackInv, TokensTraced, [Next]_vars
  PROVE  TokensTraced'
<1>1. CASE UNCHANGED <<receipts, position>>
  BY <1>1 DEF TokensTraced, Sold, HasReceipt
<1>2. TypeInv
  BY DEF AttackInv, OwnerInv
<1>3. CASE Stream \/ Announce \/ UNCHANGED vars
  BY <1>1, <1>3, StreamRests
<1> QED
  BY <1>1, <1>2, <1>3, TokensNode, WorkerSends DEF Next

LEMMA TokensInit == Init => TokensTraced
BY DEF Init, ChainInit, TokensTraced, Sold, HasReceipt

(***************************************************************************)
(* The front run of an attack, pending or with its tokens in the contract, *)
(* has a worker that is past sending it, or the log knows of the attack,   *)
(* or its receipt was asked for while the node was indexing.               *)
(***************************************************************************)
Watched(t) ==
  \/ t \in recovered \/ t \in raised \/ <<t, "front">> \in misread
  \/ \E w \in Workers : wtx[w] = t /\ pc[w] \in Sent

FrontsAreWatched ==
  /\ \A t \in position : Watched(t)
  /\ \A p \in pool : p.kind = "front" => Watched(p.tx)

LEMMA WatchedNode ==
  ASSUME AttackInv, FrontsAreWatched, Node
  PROVE  FrontsAreWatched'
<1> USE DEF AttackInv, OwnerInv
<1>1. /\ UNCHANGED <<pc, wtx, recovered, raised, misread>>
      /\ \A p \in pool' : \E q \in pool : p.tx = q.tx /\ p.kind = q.kind
  BY NodeNonces DEF logVars
<1>2. \A t : Watched(t) <=> Watched(t)'
  BY <1>1 DEF Watched
<1>3. \A t \in position' : t \in position \/ \E p \in pool : p.tx = t /\ p.kind = "front"
  <2>1. ASSUME NEW k \in 0 .. Cardinality(pool), Mine(k)
        PROVE  \A t \in position' : t \in position \/ \E p \in pool : p.tx = t /\ p.kind = "front"
    BY <2>1, BlockMined DEF Mine
  <2>2. ASSUME NEW b \in bundles, MineWithBundle(b) PROVE position' = position
    BY <2>2, BundleMined DEF MineWithBundle
  <2>3. CASE NodeForgets
    BY <2>3 DEF NodeForgets, ExpireBundle, Evict
  <2> QED
    BY <2>1, <2>2, <2>3 DEF Node
<1> QED
  BY <1>1, <1>2, <1>3 DEF FrontsAreWatched

(***************************************************************************)
(* A worker that finds nothing to recover leaves no tokens behind: its     *)
(* front run failed, its back run sold them, or they are native.           *)
(***************************************************************************)
LEMMA SettledIsGone ==
  ASSUME AttackInv, TokensTraced, NEW t \in Txs, NEW indexed, indexed # "front",
         Settled(t, indexed)
  PROVE  t \notin position /\ \A p \in pool : p.kind = "front" => p.tx # t
<1>1. HasReceipt(t, "front", TRUE) => ~HasReceipt(t, "front", FALSE)
  <2> SUFFICES ASSUME HasReceipt(t, "front", TRUE), HasReceipt(t, "front", FALSE) PROVE FALSE
    OBVIOUS
  <2>1. [tx |-> t, kind |-> "front", ok |-> TRUE] = [tx |-> t, kind |-> "front", ok |-> FALSE]
    BY DEF HasReceipt, AttackInv, FrontsApart
  <2>2. [tx |-> t, kind |-> "front", ok |-> TRUE].ok = TRUE
    OBVIOUS
  <2>3. [tx |-> t, kind |-> "front", ok |-> FALSE].ok = FALSE
    OBVIOUS
  <2> QED
    BY <2>1, <2>2, <2>3
<1>2. HasReceipt(t, "front", TRUE) \/ HasReceipt(t, "front", FALSE)
  BY DEF Settled, LooksFailed, LooksGood
<1>3. \A p \in pool : p.kind = "front" => p.tx # t
  BY <1>2 DEF HasReceipt, AttackInv, FrontsApart
<1>4. ASSUME t \in position PROVE FALSE
  <2>1. HasReceipt(t, "front", TRUE) /\ t \notin NativeEnd /\ ~Sold(t)
    BY <1>4 DEF TokensTraced
  <2> QED
    BY <1>1, <2>1 DEF Settled, LooksFailed, LooksGood, Sold
<1> QED
  BY <1>3, <1>4

LEMMA WatchedWorker ==
  ASSUME AttackInv, TokensTraced, FrontsAreWatched,
         NEW w \in Workers, Work(w) \/ RpcFails(w)
  PROVE  FrontsAreWatched'
<1>0. TypeInv
  BY DEF AttackInv, OwnerInv
<1>1. /\ position' = position
      /\ \A v \in Workers : v # w => pc'[v] = pc[v] /\ wtx'[v] = wtx[v]
      /\ recovered \subseteq recovered' /\ raised \subseteq raised' /\ misread \subseteq misread'
  BY <1>0, WorkerSends, OthersRest, WorkerReports, MisreadGrows DEF AttackInv
<1>2. ASSUME NEW t \in Txs, Watched(t)
      PROVE  \/ Watched(t)'
             \/ Keeps(w) /\ \E indexed : indexed # "front" /\ Settled(t, indexed)
  <2>1. CASE t \in recovered \/ t \in raised \/ <<t, "front">> \in misread
    BY <1>1, <2>1 DEF Watched
  <2>2. ASSUME NEW v \in Workers, v # w, wtx[v] = t, pc[v] \in Sent PROVE Watched(t)'
    BY <1>1, <2>2 DEF Watched
  <2>3. CASE wtx[w] = t /\ pc[w] \in Sent
    BY <1>0, <2>3, WorkerReports DEF Watched
  <2> QED
    BY <1>2, <2>1, <2>2, <2>3 DEF Watched
<1>3. \A t \in position : t \in Txs /\ Watched(t)'
  BY <1>0, <1>2, SettledIsGone DEF FrontsAreWatched, TypeInv, TypeOK, ChainTypeOK
<1>4. ASSUME NEW p \in pool, p.kind = "front" PROVE Watched(p.tx)'
  <2>1. p.tx \in Txs /\ Watched(p.tx)
    BY <1>0, <1>4 DEF FrontsAreWatched, TypeInv, TypeOK, ChainTypeOK, RawTxs
  <2> QED
    BY <1>2, <1>4, <2>1, SettledIsGone
<1>5. ASSUME NEW r, Sends(w, r), r.kind = "front" PROVE Watched(r.tx)'
  <2>1. pc'[w] = "sendBack" /\ wtx'[w] = r.tx
    BY <1>0, <1>5 DEF Sends, Goto, TypeInv, TypeOK
  <2> QED
    BY <2>1 DEF Watched, Sent
<1>6. \A p \in pool' : p \in pool \/ \E r : Sends(w, r) /\ p = r
  BY <1>0, WorkerSends DEF Sends, Keeps
<1> QED
  BY <1>1, <1>3, <1>4, <1>5, <1>6 DEF FrontsAreWatched

LEMMA WatchedNext ==
  ASSUME AttackInv, TokensTraced, FrontsAreWatched, [Next]_vars
  PROVE  FrontsAreWatched'
<1>1. CASE Stream \/ Announce \/ UNCHANGED vars
  BY <1>1, StreamRests DEF FrontsAreWatched, Watched
<1> QED
  BY <1>1, WatchedNode, WatchedWorker DEF Next

(***************************************************************************)
(* However many workers there are, whatever calls fail and whatever the    *)
(* pool loses, tokens that a front run left in the contract have a worker  *)
(* at them, a recovery sent for them, or an exception in the log; or the   *)
(* receipt of the front run was asked for while the node was indexing.     *)
(***************************************************************************)
THEOREM NoLossIsSilent == Spec => []NoSilentLoss
<1>1. Init => FrontsAreWatched
  BY DEF Init, ChainInit, FrontsAreWatched
<1>2. AttackInv /\ TokensTraced /\ [Next]_vars => TokensTraced'
  BY TokensNext
<1>3. AttackInv /\ TokensTraced /\ FrontsAreWatched /\ [Next]_vars => FrontsAreWatched'
  BY WatchedNext
<1>4. FrontsAreWatched => NoSilentLoss
  BY DEF FrontsAreWatched, Watched, NoSilentLoss
<1> QED
  BY <1>1, <1>2, <1>3, <1>4, AttackInit, AttackNext, TokensInit, PTL DEF Spec

(***************************************************************************)
(* A back run that follows a front run by one nonce is not in the pool     *)
(* without it once the front run is mined: it is then next.                *)
(***************************************************************************)
BackRunsFollow ==
  /\ \A p \in pool : p.kind = "back" /\ p.nonce = nonce + 1 => ~HasReceipt(p.tx, "front", TRUE)
  /\ \A w \in Workers :
       pc[w] = "sendBack" /\ seqno[w] = nonce => ~HasReceipt(wtx[w], "front", TRUE)

SaleInv == AttackInv /\ RecoveryInv /\ TokensTraced /\ BackRunsFollow /\ SoldOnce

LEMMA FollowNode ==
  ASSUME AttackInv, BackRunsFollow, Node
  PROVE  BackRunsFollow'
<1> USE DEF AttackInv, OwnerInv
<1>1. /\ nonce' \in Nat /\ nonce \in Nat /\ nonce' >= nonce /\ UNCHANGED <<pc, wtx, seqno>>
      /\ \A p \in pool' : \E q \in pool : p.tx = q.tx /\ p.kind = q.kind /\ p.nonce = q.nonce
  BY NodeNonces DEF TypeInv, TypeOK, ChainTypeOK
<1>2. /\ \A w \in Workers : seqno[w] \in Nat /\ seqno[w] <= nonce
      /\ \A p \in pool : p.nonce \in Nat /\ p.nonce >= nonce /\ p.nonce <= nonce + 1
  <2>1. \A p \in pool : p.nonce \in Nat
    BY DEF TypeInv, TypeOK, ChainTypeOK, RawTxs
  <2>2. \A p \in pool : /\ p.nonce >= nonce
                        /\ p.nonce <= IF p.kind = "back" THEN nonce + 1 ELSE nonce
    BY DEF NonceInv, AttacksNeverQueue
  <2>3. \A w \in Workers : seqno[w] \in Nat /\ seqno[w] <= nonce
    BY DEF TypeInv, TypeOK, NonceInv, NoncesRead
  <2> QED
    BY <1>1, <2>1, <2>2, <2>3
<1>3. CASE nonce' > nonce
  <2>1. \A w \in Workers : seqno[w] # nonce'
    BY <1>1, <1>2, <1>3
  <2>2. \A p \in pool' : p.nonce # nonce' + 1
    BY <1>1, <1>2, <1>3
  <2> QED
    BY <1>1, <2>1, <2>2 DEF BackRunsFollow
<1>4. CASE receipts' = receipts /\ nonce' = nonce
  BY <1>1, <1>4 DEF BackRunsFollow, HasReceipt
<1>5. ASSUME nonce' = nonce PROVE receipts' = receipts
  <2>1. ASSUME NEW k \in 0 .. Cardinality(pool), Mine(k) PROVE receipts' = receipts
    <3>1. PICK ok \in SUBSET pool :
            /\ receipts \subseteq receipts'
            /\ \A r \in receipts' \ receipts : \E p \in pool : p.nonce < nonce'
      BY <2>1, BlockMined DEF Mine
    <3>2. \A p \in pool : ~(p.nonce < nonce')
      BY <1>1, <1>2, <1>5
    <3> QED
      BY <3>1, <3>2
  <2>2. ASSUME NEW b \in bundles, MineWithBundle(b) PROVE FALSE
    <3>1. nonce' = nonce + 3 \/ nonce' = nonce + 2
      BY <2>2 DEF MineWithBundle, MineBundle, Seal
    <3> QED
      BY <1>1, <1>5, <3>1
  <2>3. CASE NodeForgets
    BY <2>3 DEF NodeForgets, ExpireBundle, Evict
  <2> QED
    BY <2>1, <2>2, <2>3 DEF Node
<1> QED
  BY <1>1, <1>3, <1>4, <1>5

LEMMA FollowWorker ==
  ASSUME AttackInv, BackRunsFollow, NEW w \in Workers, Work(w) \/ RpcFails(w)
  PROVE  BackRunsFollow'
<1> USE DEF AttackInv, OwnerInv
<1>1. /\ UNCHANGED <<nonce, receipts>>
      /\ \A v \in Workers : v # w => pc'[v] = pc[v] /\ wtx'[v] = wtx[v]
      /\ \A t : HasReceipt(t, "front", TRUE)' <=> HasReceipt(t, "front", TRUE)
  BY WorkerSends, OthersRest DEF HasReceipt
<1>2. CASE Keeps(w)
  <2>1. \A v \in Workers : v # w => seqno'[v] = seqno[v]
    BY <1>2 DEF Keeps, TypeInv, TypeOK
  <2> QED
    BY <1>1, <1>2, <2>1 DEF Keeps, BackRunsFollow
<1>3. ASSUME NEW r, Sends(w, r) PROVE BackRunsFollow'
  <2>1. /\ seqno' = seqno /\ r.tx = wtx[w]
        /\ \A p \in pool' : p \in pool \/ p = r
    BY <1>3 DEF Sends
  <2>2. ASSUME pc'[w] = "sendBack" PROVE ~HasReceipt(wtx'[w], "front", TRUE)
    <3>1. pc[w] = "sendFront" /\ wtx'[w] = wtx[w] /\ wtx[w] \in Txs
      BY <1>3, <2>2 DEF Sends, At, Goto, Finish, TypeInv, TypeOK, Occupied
    <3>2. ~Traced(wtx[w])
      BY <3>1 DEF UnsentIsUntraced, Unsent, Sent
    <3> QED
      BY <3>1, <3>2 DEF Traced, HasReceipt
  <2>3. r.kind = "back" /\ r.nonce = nonce + 1 => ~HasReceipt(r.tx, "front", TRUE)
    <3> SUFFICES ASSUME r.kind = "back", r.nonce = nonce + 1
                 PROVE  ~HasReceipt(r.tx, "front", TRUE)
      OBVIOUS
    <3>1. nonce \in Nat /\ nonce + 1 # nonce
      BY DEF TypeInv, TypeOK, ChainTypeOK
    <3>2. pc[w] = "sendBack" /\ seqno[w] = nonce
      BY <1>3, <3>1, NonceSends DEF Sends, At
    <3> QED
      BY <2>1, <3>2 DEF BackRunsFollow
  <2> QED
    BY <1>1, <2>1, <2>2, <2>3 DEF BackRunsFollow
<1> QED
  BY <1>2, <1>3, WorkerSends

(***************************************************************************)
(* A block sells the tokens of an attack once: what was sold is not there  *)
(* to be sold again, and a recovery and a back run of one attack, both     *)
(* next, would be one transaction.                                         *)
(***************************************************************************)
LEMMA SoldNode ==
  ASSUME SaleInv, Node
  PROVE  SoldOnce'
<1> USE DEF SaleInv, AttackInv, OwnerInv
<1>1. CASE receipts' = receipts
  BY <1>1 DEF SoldOnce, HasReceipt
<1>2. ASSUME NEW k \in 0 .. Cardinality(pool), Mine(k), NEW t \in Txs,
             HasReceipt(t, "back", TRUE)', HasReceipt(t, "recover", TRUE)'
      PROVE  FALSE
  <2>1. PICK ok \in SUBSET pool :
          /\ \A p \in ok : MaySucceed(p, ok)
          /\ \A r \in receipts' \ receipts : \E p \in pool :
               /\ r.tx = p.tx /\ r.kind = p.kind
               /\ r = [tx |-> p.tx, kind |-> p.kind, ok |-> p \in ok]
    BY <1>2, BlockMined DEF Mine
  <2>2. ASSUME NEW kind \in {"back", "recover"}, HasReceipt(t, kind, TRUE)'
        PROVE  HasReceipt(t, kind, TRUE) \/ \E p \in ok : p.tx = t /\ p.kind = kind
    <3> DEFINE r == [tx |-> t, kind |-> kind, ok |-> TRUE]
    <3>1. r \in receipts' /\ r.tx = t /\ r.kind = kind /\ r.ok = TRUE
      BY <2>2 DEF HasReceipt
    <3>2. r \in receipts => HasReceipt(t, kind, TRUE)
      BY DEF HasReceipt
    <3> HIDE DEF r
    <3>3. ASSUME r \notin receipts PROVE \E p \in ok : p.tx = t /\ p.kind = kind
      <4>1. PICK p \in pool : /\ r.tx = p.tx /\ r.kind = p.kind
                              /\ r = [tx |-> p.tx, kind |-> p.kind, ok |-> p \in ok]
        BY <2>1, <3>1, <3>3
      <4> QED
        BY <3>1, <4>1
    <3> QED
      BY <3>2, <3>3
  <2>3. EachRecoveryJustified
    BY RecoveryJustifiedUnfolded DEF RecoveryInv
  <2>4. t \notin NativeEnd /\ HasReceipt(t, "front", TRUE)
    <3>1. CASE HasReceipt(t, "recover", TRUE)
      BY <3>1 DEF RecoveryInv, RecoveryJustified
    <3>2. CASE \E p \in ok : p.tx = t /\ p.kind = "recover"
      BY <2>3, <3>2 DEF EachRecoveryJustified, Justified
    <3> QED
      BY <1>2, <2>2, <3>1, <3>2
  <2>5. \A p \in pool : p.kind = "front" => p.tx # t
    BY <2>4 DEF FrontsApart, HasReceipt
  <2>6. ASSUME NEW p \in ok, p.tx = t, p.kind \in {"back", "recover"} PROVE t \in position
    BY <2>1, <2>4, <2>5, <2>6 DEF MaySucceed
  <2>7. Sold(t) => t \notin position
    BY <2>4 DEF TokensTraced
  <2>8. ~Sold(t)
    BY <1>2, <2>2, <2>6, <2>7 DEF Sold, SoldOnce
  <2>9. PICK p \in ok : p.tx = t /\ p.kind = "back"
    BY <1>2, <2>2, <2>8 DEF Sold
  <2>10. PICK q \in ok : q.tx = t /\ q.kind = "recover"
    BY <1>2, <2>2, <2>8 DEF Sold
  <2>11. /\ nonce \in Nat /\ p.nonce \in Nat /\ q.nonce \in Nat
         /\ p.nonce >= nonce /\ p.nonce <= nonce + 1 /\ q.nonce >= nonce
    BY <2>9 DEF TypeInv, TypeOK, ChainTypeOK, RawTxs, NonceInv, AttacksNeverQueue
  <2>12. q.nonce <= nonce
    BY <2>10 DEF NonceInv, AttacksNeverQueue
  <2>13. p.nonce # nonce + 1
    BY <2>4, <2>9 DEF BackRunsFollow
  <2>14. p.nonce = q.nonce
    BY <2>11, <2>12, <2>13
  <2> QED
    BY <2>9, <2>10, <2>14 DEF NonceInv, AttacksNeverQueue
<1>3. ASSUME NEW b \in bundles, MineWithBundle(b) PROVE SoldOnce'
  <2>1. receipts' = receipts \union
          {[tx |-> b.tx, kind |-> k, ok |-> TRUE] : k \in {"front", "back"}}
    BY <1>3, BundleMined DEF MineWithBundle
  <2>2. \A t : /\ HasReceipt(t, "back", TRUE)' => HasReceipt(t, "back", TRUE) \/ t = b.tx
               /\ HasReceipt(t, "recover", TRUE)' => HasReceipt(t, "recover", TRUE)
    BY <2>1 DEF HasReceipt
  <2>3. ~HasReceipt(b.tx, "recover", TRUE)
    BY DEF BundlesApart, HasReceipt
  <2> QED
    BY <2>2, <2>3 DEF SoldOnce
<1>4. CASE NodeForgets
  BY <1>1, <1>4 DEF NodeForgets, ExpireBundle, Evict
<1> QED
  BY <1>2, <1>3, <1>4 DEF Node, SoldOnce

LEMMA SaleInit == Init => SaleInv
BY AttackInit, RecoveryInit, TokensInit
DEF Init, ChainInit, SaleInv, BackRunsFollow, SoldOnce, HasReceipt

LEMMA SaleNext == SaleInv /\ [Next]_vars => SaleInv'
<1> SUFFICES ASSUME SaleInv, [Next]_vars PROVE SaleInv'
  OBVIOUS
<1>1. AttackInv' /\ RecoveryInv' /\ TokensTraced'
  BY AttackNext, RecoveryNext, TokensNext DEF SaleInv
<1>2. ASSUME UNCHANGED receipts PROVE SoldOnce'
  BY <1>2 DEF SaleInv, SoldOnce, HasReceipt
<1>3. CASE Stream \/ Announce \/ UNCHANGED vars
  <2>1. BackRunsFollow' /\ SoldOnce'
    BY <1>2, <1>3, StreamRests DEF SaleInv, BackRunsFollow, HasReceipt
  <2> QED
    BY <1>1, <2>1 DEF SaleInv
<1>4. CASE Node
  BY <1>1, <1>4, FollowNode, SoldNode DEF SaleInv
<1>5. ASSUME NEW w \in Workers, Work(w) \/ RpcFails(w) PROVE SaleInv'
  <2>1. BackRunsFollow' /\ UNCHANGED receipts
    BY <1>5, FollowWorker, WorkerSends DEF SaleInv, AttackInv, OwnerInv
  <2>2. SoldOnce'
    BY <1>2, <2>1
  <2> QED
    BY <1>1, <2>1, <2>2 DEF SaleInv
<1> QED
  BY <1>3, <1>4, <1>5 DEF Next

(***************************************************************************)
(* Whatever fails or is lost, also while a back run is taken for a failed  *)
(* one because its receipt is being indexed: what a front run bought is    *)
(* not sold both by its back run and by a recovery.                        *)
(***************************************************************************)
THEOREM TokensAreSoldOnce == Spec => []SoldOnce
<1>1. SaleInv => SoldOnce
  BY DEF SaleInv
<1> QED
  BY <1>1, SaleInit, SaleNext, PTL DEF Spec
=============================================================================
