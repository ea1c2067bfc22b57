--------------------------- MODULE ArbitragePipeline ---------------------------
(***************************************************************************)
(* The processes of main.py: the two streams of the sandwich bot, and      *)
(* workers that look for an arbitrage behind each transaction and send it  *)
(* as one transaction of its own (send_arbitrage_attack_single) or in a    *)
(* bundle with the victim (send_arbitrage_attack).  The stream's own steps *)
(* are those of SandwichPipeline; here a transaction of the feed is in the *)
(* queue or lost at once.                                                  *)
(*                                                                         *)
(* The workers share the account, and so its nonces, and the value that    *)
(* says who builds the next block.  A round trip ends in the token it      *)
(* started with, so an attack leaves no position behind.                   *)
(***************************************************************************)
EXTENDS Chain, Sequences

CONSTANTS
  Workers,   \* the processes that run main()
  MaxQueue,  \* multiprocessing.Queue(maxsize)
  NoTx       \* no transaction

ASSUME ArbitrageAssumption ==
  /\ Workers # {}
  /\ MaxQueue \in Nat \ {0}
  /\ NoTx \notin Txs
  /\ NativeEnd = Txs

VARIABLES
  txQueue,     \* the queue between the stream and the workers
  accessible,  \* the shared value accessible_block_number
  pc,          \* where each worker is
  wtx,         \* the transaction it took, NoTx between two of them
  seqno,       \* the nonce it read for the transaction it is sending
  target       \* the shared value as it read it for a bundle

workerVars == <<pc, wtx, seqno, target>>
vars == <<chainVars, txQueue, accessible, workerVars>>

WorkerStates ==
  {"idle", "get", "search", "checkVictim", "profit", "singleNonce", "singleSend",
   "fees", "readTarget", "bundleNonce", "bundleSend"}

NoTarget == [kind |-> "general", due |-> FALSE]

TypeOK ==
  /\ ChainTypeOK
  /\ txQueue \in Seq(Txs)
  /\ accessible \in Accessible
  /\ pc \in [Workers -> WorkerStates]
  /\ wtx \in [Workers -> Txs \union {NoTx}]
  /\ seqno \in [Workers -> Nat]
  /\ target \in [Workers -> Accessible]

Init ==
  /\ ChainInit
  /\ txQueue = <<>>
  /\ accessible = NoTarget
  /\ pc = [w \in Workers |-> "idle"]
  /\ wtx = [w \in Workers |-> NoTx]
  /\ seqno = [w \in Workers |-> 0]
  /\ target = [w \in Workers |-> NoTarget]

-----------------------------------------------------------------------------
(* The streams and the chain.                                              *)

(***************************************************************************)
(* The feed delivers a transaction once.  It is lost when it has no call   *)
(* data or no swap, when the queue is full, or with the connection.        *)
(***************************************************************************)
Receive(t) ==
  /\ victim[t] = "new"
  /\ victim' = [victim EXCEPT ![t] = "pending"]
  /\ \/ Len(txQueue) < MaxQueue /\ txQueue' = Append(txQueue, t)
     \/ UNCHANGED txQueue
  /\ UNCHANGED <<nonce, pool, bundles, receipts, position, validator, accessible, workerVars>>

(* The last notification: the height for bloXroute, -1 for 48 Club, or 0.  *)
Announce ==
  /\ accessible' = [kind |-> validator, due |-> validator = "bloxroute"]
  /\ UNCHANGED <<chainVars, txQueue, workerVars>>

(* With the new block every height read before is older.                   *)
ViewsAge ==
  /\ accessible' = [accessible EXCEPT !.due = FALSE]
  /\ target' = [w \in Workers |-> [target[w] EXCEPT !.due = FALSE]]
  /\ UNCHANGED <<txQueue, pc, wtx, seqno>>

Mine(k) == MineBlock(k) /\ ViewsAge

(* A block with a bundle: the victim, then the run, and both succeed.      *)
MineWithBundle(b) ==
  /\ b.nonce = nonce
  /\ validator = "bloxroute"
  /\ b.target.kind = "bloxroute" /\ b.target.due
  /\ victim[b.tx] = "pending"
  /\ receipts' = receipts \union {[tx |-> b.tx, kind |-> "run", ok |-> TRUE]}
  /\ UNCHANGED position
  /\ Seal(nonce + 1, {b.tx})
  /\ ViewsAge

NodeForgets(p) == Evict(p) /\ UNCHANGED <<txQueue, accessible, workerVars>>

-----------------------------------------------------------------------------
(* The workers.                                                            *)

At(w, state) == pc[w] = state

Goto(w, state) ==
  /\ pc' = [pc EXCEPT ![w] = state]
  /\ UNCHANGED wtx

(* Back to the top of the loop: a `continue', the end of the body, or an   *)
(* exception that the handler around the body logs.                        *)
Finish(w) ==
  /\ pc' = [pc EXCEPT ![w] = "idle"]
  /\ wtx' = [wtx EXCEPT ![w] = NoTx]

Rest == UNCHANGED <<txQueue, accessible>>
Quiet == Rest /\ UNCHANGED <<chainVars, seqno, target>>

(* empty() and get() are two calls: another worker may come between them.  *)
CheckEmpty(w) ==
  /\ At(w, "idle")
  /\ txQueue # <<>>
  /\ Goto(w, "get")
  /\ Quiet

(* Mutations, here and below, are what a slip in the code would make of the
   definition that follows; no action uses them.                           *)
Peeked(q) == q

Dequeued(q) == Tail(q)

Get(w) ==
  /\ At(w, "get")
  /\ txQueue # <<>>
  /\ txQueue' = Dequeued(txQueue)
  /\ wtx' = [wtx EXCEPT ![w] = Head(txQueue)]
  /\ pc' = [pc EXCEPT ![w] = "search"]
  /\ UNCHANGED <<chainVars, accessible, seqno, target>>

(* search_arbitrage on a fork of its own: an attack, None, or it raises.   *)
Search(w) ==
  /\ At(w, "search")
  /\ Goto(w, "checkVictim") \/ Finish(w)
  /\ Quiet

CheckVictim(w) ==
  /\ At(w, "checkVictim")
  /\ IF victim[wtx[w]] = "pending" THEN Goto(w, "profit") ELSE Finish(w)
  /\ Quiet

(* accessible_block_number.value == 0, a first read; -1 is not told apart. *)
Route(w) ==
  IF accessible.kind = "general" THEN Goto(w, "singleNonce") ELSE Goto(w, "fees")

(* At the victim's gas price the attack pays, or it is dropped.            *)
CheckProfit(w) ==
  /\ At(w, "profit")
  /\ Route(w) \/ Finish(w)
  /\ Quiet

(* The relay's minimum and the bundle's fee leave something, or it is not. *)
CheckFees(w) ==
  /\ At(w, "fees")
  /\ Goto(w, "readTarget") \/ Finish(w)
  /\ Quiet

(* The height for the bundle is a second read of the shared value.         *)
ReadTarget(w) ==
  /\ At(w, "readTarget")
  /\ target' = [target EXCEPT ![w] = accessible]
  /\ Goto(w, "bundleNonce")
  /\ Rest /\ UNCHANGED <<chainVars, seqno>>

PendingNonce == nonce + Cardinality(pool)

(* _get_nonce: the count at the latest block, whatever is in the pool.     *)
NextNonce == nonce

ReadNonce(w, from, to) ==
  /\ At(w, from)
  /\ seqno' = [seqno EXCEPT ![w] = NextNonce]
  /\ Goto(w, to)
  /\ Rest /\ UNCHANGED <<chainVars, target>>

FallsThrough(w) == Goto(w, "fees")

(* The `continue' of the branch for a single transaction.                  *)
AfterSingle(w) == Finish(w)

(* send_arbitrage_attack_single: blxr_tx takes the transaction or refuses. *)
SendSingle(w) ==
  /\ At(w, "singleSend")
  /\ LET run == [tx |-> wtx[w], kind |-> "run", nonce |-> seqno[w], due |-> FALSE]
     IN  Accept(run) \/ (MayRefuse(run) /\ UNCHANGED chainVars)
  /\ AfterSingle(w)
  /\ Rest /\ UNCHANGED <<seqno, target>>

(***************************************************************************)
(* send_arbitrage_attack: victim and run, simulated and then submitted,    *)
(* either of which the relay may refuse.                                   *)
(***************************************************************************)
SendBundle(w) ==
  /\ At(w, "bundleSend")
  /\ \/ bundles' = bundles \union
          {[tx |-> wtx[w], relay |-> "bloxroute", nonce |-> seqno[w], target |-> target[w]]}
     \/ UNCHANGED bundles
  /\ Finish(w)
  /\ Rest /\ UNCHANGED <<nonce, pool, receipts, victim, position, validator, seqno, target>>

(* A call to the node or to a relay fails: the handler logs the exception. *)
RpcFails(w) ==
  /\ "rpc" \in Faults
  /\ pc[w] \in {"checkVictim", "singleNonce", "singleSend", "bundleNonce", "bundleSend"}
  /\ Finish(w)
  /\ Quiet

Work(w) ==
  \/ CheckEmpty(w) \/ Get(w)
  \/ Search(w) \/ CheckVictim(w) \/ CheckProfit(w)
  \/ ReadNonce(w, "singleNonce", "singleSend") \/ SendSingle(w)
  \/ CheckFees(w) \/ ReadTarget(w)
  \/ ReadNonce(w, "bundleNonce", "bundleSend") \/ SendBundle(w)

Node ==
  \/ \E k \in 0 .. Cardinality(pool) : Mine(k)
  \/ \E b \in bundles : MineWithBundle(b)
  \/ \E p \in pool : NodeForgets(p)

Next ==
  \/ \E t \in Txs : Receive(t)
  \/ Announce
  \/ Node
  \/ \E w \in Workers : Work(w) \/ RpcFails(w)

Spec == Init /\ [][Next]_vars

(* The operating system runs every worker.                                 *)
FairSpec == Spec /\ \A w \in Workers : WF_vars(Work(w))

-----------------------------------------------------------------------------
(* Properties.                                                             *)

(***************************************************************************)
(* However many workers send at the same time, the account has at most one *)
(* transaction the chain could take, and it is the next one: the runs of   *)
(* several workers replace each other, and never queue up behind a nonce.  *)
(***************************************************************************)
RunsNeverQueue ==
  \A p, q \in pool : p.nonce = nonce /\ p = q

(* The account's transactions that have been sent for a victim.            *)
RunsFor(t) ==
  {<<"pool", p>> : p \in {q \in pool : q.tx = t}}
    \union {<<"bundle", b>> : b \in {c \in bundles : c.tx = t}}
    \union {<<"mined", r>> : r \in {s \in receipts : s.tx = t}}

(***************************************************************************)
(* A victim is attacked once: not by two workers, not as a transaction and *)
(* in a bundle, and not again once the first attempt is in a block, though *)
(* the worker reads the shared value twice while it changes.               *)
(***************************************************************************)
OneRunPerVictim == \A t \in Txs : \A r, s \in RunsFor(t) : r = s

(* Every transaction that waits in the queue is eventually dealt with.     *)
QueueDrains ==
  \A t \in Txs :
    (\E i \in 1 .. Len(txQueue) : txQueue[i] = t)
      ~> /\ \A i \in 1 .. Len(txQueue) : txQueue[i] # t
         /\ \A w \in Workers : wtx[w] # t
=============================================================================
