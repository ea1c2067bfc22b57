--------------------------- MODULE SandwichPipeline ---------------------------
(***************************************************************************)
(* The processes of main_sandwich.py: one that streams transactions into a *)
(* bounded queue, one that publishes in a shared value who builds the next *)
(* block, and the workers that take transactions from the queue, search an *)
(* attack and send it.  Every call to the node, every access to the queue  *)
(* and every read of the shared value is a step of its own: between two of *)
(* them the chain and the other processes move.                            *)
(***************************************************************************)
EXTENDS Chain, Sequences

CONSTANTS
  Workers,    \* the processes that run main()
  MaxQueue,   \* multiprocessing.Queue(maxsize)
  NoTx        \* no transaction

ASSUME PipelineAssumption ==
  /\ Workers # {}
  /\ MaxQueue \in Nat \ {0}
  /\ NoTx \notin Txs

VARIABLES
  txQueue,     \* the queue between the stream and the workers
  streamPc,    \* where the transaction stream is
  streamTx,    \* the transaction it is handling
  accessible,  \* the shared value accessible_block_number
  pc,          \* where each worker is
  wtx,         \* the transaction it took, NoTx between two of them
  isHead,      \* whether the worker's block_number is still the latest block
  evmIsHead,   \* the same of the block its running search was started on
  seqno,       \* the nonce it read for the transactions it is sending
  target,      \* the shared value as it last read it for a bundle
  recovered,   \* attacks a worker has logged as recovered
  raised,      \* attacks given up by an exception after the front run was sent
  misread      \* receipts that were asked for while the node was indexing

streamVars == <<streamPc, streamTx>>
workerVars == <<pc, wtx, isHead, evmIsHead, seqno, target>>
logVars == <<recovered, raised, misread>>
vars == <<chainVars, txQueue, streamVars, accessible, workerVars, logVars>>

StreamStates == {"recv", "check", "trace", "put"}
WorkerStates ==
  {"idle", "get", "checkAge", "awaitBlock", "search", "searching", "checkHead",
   "checkVictim", "route", "readTarget", "bundleNonce", "bundleSend", "route2",
   "clubNonce", "clubSend", "delay", "generalNonce", "sendFront", "sendBack",
   "wait", "result", "recoverNonce", "recoverSend"}

NoTarget == [kind |-> "general", due |-> FALSE]

TypeOK ==
  /\ ChainTypeOK
  /\ txQueue \in Seq(Txs)
  /\ streamPc \in StreamStates
  /\ streamTx \in Txs \union {NoTx}
  /\ accessible \in Accessible
  /\ pc \in [Workers -> WorkerStates]
  /\ wtx \in [Workers -> Txs \union {NoTx}]
  /\ isHead \in [Workers -> BOOLEAN]
  /\ evmIsHead \in [Workers -> BOOLEAN]
  /\ seqno \in [Workers -> Nat]
  /\ target \in [Workers -> Accessible]
  /\ recovered \subseteq Txs
  /\ raised \subseteq Txs
  /\ misread \subseteq Txs \X {"front", "back"}

Init ==
  /\ ChainInit
  /\ txQueue = <<>>
  /\ streamPc = "recv"
  /\ streamTx = NoTx
  /\ accessible = NoTarget
  /\ pc = [w \in Workers |-> "idle"]
  /\ wtx = [w \in Workers |-> NoTx]
  /\ isHead = [w \in Workers |-> TRUE]
  /\ evmIsHead = [w \in Workers |-> FALSE]
  /\ seqno = [w \in Workers |-> 0]
  /\ target = [w \in Workers |-> NoTarget]
  /\ recovered = {}
  /\ raised = {}
  /\ misread = {}

-----------------------------------------------------------------------------
(* The transaction stream.                                                 *)

StreamDone == streamPc' = "recv" /\ streamTx' = NoTx

(***************************************************************************)
(* A notification of the feed.  A transaction that creates a contract, or  *)
(* has no call data, is skipped; none is delivered twice.                  *)
(***************************************************************************)
Receive(t) ==
  /\ streamPc = "recv"
  /\ victim[t] = "new"
  /\ victim' = [victim EXCEPT ![t] = "pending"]
  /\ \/ streamPc' = "check" /\ streamTx' = t
     \/ UNCHANGED streamVars
  /\ UNCHANGED <<nonce, pool, bundles, receipts, position, validator,
                 txQueue, accessible, workerVars, logVars>>

(* Mutations, here and below, are what a slip in the code would make of the
   definition that follows; no action uses them.                           *)
QueueFullOffByOne == Len(txQueue) > MaxQueue

QueueFull == Len(txQueue) >= MaxQueue

(* With the queue full the transaction is lost before it is traced.        *)
CheckFull ==
  /\ streamPc = "check"
  /\ \/ QueueFull /\ StreamDone
     \/ ~QueueFull /\ streamPc' = "trace" /\ UNCHANGED streamTx
  /\ UNCHANGED <<chainVars, txQueue, accessible, workerVars, logVars>>

(***************************************************************************)
(* trace_transaction finds a swap or returns None; an exception here, or a *)
(* receive that times out, reconnects the stream: the transaction is lost. *)
(***************************************************************************)
Trace ==
  /\ streamPc = "trace"
  /\ \/ streamPc' = "put" /\ UNCHANGED streamTx
     \/ StreamDone
  /\ UNCHANGED <<chainVars, txQueue, accessible, workerVars, logVars>>

(* Queue.put waits while the queue is full.                                *)
Put ==
  /\ streamPc = "put"
  /\ Len(txQueue) < MaxQueue
  /\ txQueue' = Append(txQueue, streamTx)
  /\ StreamDone
  /\ UNCHANGED <<chainVars, accessible, workerVars, logVars>>

(***************************************************************************)
(* The validator stream stores what the last notification says of the next *)
(* block: -1 for a 48 Club validator, the height for a bloXroute one, else *)
(* 0.  Nothing resets the value when the stream is down or the block is    *)
(* built.                                                                  *)
(***************************************************************************)
Announce ==
  /\ accessible' = [kind |-> validator, due |-> validator = "bloxroute"]
  /\ UNCHANGED <<chainVars, txQueue, streamVars, workerVars, logVars>>

-----------------------------------------------------------------------------
(* The chain moves.                                                        *)

(* With the new block every block number and height read before is older.  *)
ViewsAge ==
  /\ isHead' = [w \in Workers |-> FALSE]
  /\ evmIsHead' = [w \in Workers |-> FALSE]
  /\ accessible' = [accessible EXCEPT !.due = FALSE]
  /\ target' = [w \in Workers |-> [target[w] EXCEPT !.due = FALSE]]
  /\ UNCHANGED <<txQueue, streamVars, pc, wtx, seqno, logVars>>

Mine(k) == MineBlock(k) /\ ViewsAge

MineWithBundle(b) == MineBundle(b) /\ ViewsAge

NodeForgets ==
  /\ \/ \E b \in bundles : b.relay = "48club" /\ ExpireBundle(b)
     \/ \E p \in pool : Evict(p)
  /\ UNCHANGED <<txQueue, streamVars, accessible, workerVars, logVars>>

-----------------------------------------------------------------------------
(* The workers.                                                            *)

At(w, state) == pc[w] = state

Goto(w, state) ==
  /\ pc' = [pc EXCEPT ![w] = state]
  /\ UNCHANGED wtx

(* Back to the top of the loop: a `continue', the end of the body, or an   *)
(* exception that the handler around the body logs.                        *)
Finish(w) ==
  /\ pc' = [pc EXCEPT ![w] = "idle"]
  /\ wtx' = [wtx EXCEPT ![w] = NoTx]

(* Where a worker is once the front run of its attack has been sent.       *)
Sent == {"sendBack", "wait", "result", "recoverNonce", "recoverSend"}

(* The handler logs every exception; `raised' keeps those that come after  *)
(* the front run.                                                          *)
Raise(w) ==
  /\ Finish(w)
  /\ raised' = IF pc[w] \in Sent THEN raised \union {wtx[w]} ELSE raised
  /\ UNCHANGED <<recovered, misread>>

Rest == UNCHANGED <<txQueue, streamVars, accessible, logVars>>

(* Queue.empty and Queue.get are two calls: another worker may come        *)
(* between them, and then get waits for the next transaction.              *)
CheckEmpty(w) ==
  /\ At(w, "idle")
  /\ txQueue # <<>>
  /\ Goto(w, "get")
  /\ Rest /\ UNCHANGED <<chainVars, isHead, evmIsHead, seqno, target>>

Peeked(q) == q

Dequeued(q) == Tail(q)

Get(w) ==
  /\ At(w, "get")
  /\ txQueue # <<>>
  /\ txQueue' = Dequeued(txQueue)
  /\ pc' = [pc EXCEPT ![w] = "checkAge"]
  /\ wtx' = [wtx EXCEPT ![w] = Head(txQueue)]
  /\ UNCHANGED <<chainVars, streamVars, accessible, logVars, isHead, evmIsHead, seqno, target>>

(***************************************************************************)
(* A step of the worker that touches neither the queue nor what it         *)
(* remembers of blocks, nonces and targets, and leaves the chain alone.    *)
(***************************************************************************)
Quiet == Rest /\ UNCHANGED <<chainVars, isHead, evmIsHead, seqno, target>>

(* timestamp + 3 < time.time(): clocks are abstracted to the outcome.      *)
CheckAge(w) ==
  /\ At(w, "checkAge")
  /\ \/ Goto(w, "awaitBlock")
     \/ Goto(w, "search")
  /\ Quiet

NewHeadSwapped(w) == FALSE

(* get_block_number > block_number, polled until it holds.                 *)
NewHead(w) == ~isHead[w]

AwaitBlock(w) ==
  /\ At(w, "awaitBlock")
  /\ NewHead(w)
  /\ isHead' = [isHead EXCEPT ![w] = TRUE]
  /\ Goto(w, "search")
  /\ Rest /\ UNCHANGED <<chainVars, evmIsHead, seqno, target>>

(* search_sandwich forks the latest block...                               *)
StartSearch(w) ==
  /\ At(w, "search")
  /\ evmIsHead' = [evmIsHead EXCEPT ![w] = TRUE]
  /\ Goto(w, "searching")
  /\ Rest /\ UNCHANGED <<chainVars, isHead, seqno, target>>

(* ... and returns its number, with an attack or without, or raises.       *)
EndSearch(w) ==
  /\ At(w, "searching")
  /\ \/ /\ isHead' = [isHead EXCEPT ![w] = evmIsHead[w]]
        /\ Goto(w, "checkHead") \/ Finish(w)
     \/ UNCHANGED isHead /\ Finish(w)
  /\ Rest /\ UNCHANGED <<chainVars, evmIsHead, seqno, target>>

(* The attack is dropped when a block came meanwhile, or by the clock.     *)
CheckHead(w) ==
  /\ At(w, "checkHead")
  /\ \/ isHead[w] /\ Goto(w, "checkVictim")
     \/ Finish(w)
  /\ Quiet

CheckVictim(w) ==
  /\ At(w, "checkVictim")
  /\ \/ victim[wtx[w]] = "pending" /\ Goto(w, "route")
     \/ victim[wtx[w]] # "pending" /\ Finish(w)
  /\ Quiet

(***************************************************************************)
(* accessible_block_number.value > 0, a first read.  The bloXroute branch  *)
(* gives up when the fee it could pay is too low.                          *)
(***************************************************************************)
Route(w) ==
  /\ At(w, "route")
  /\ \/ accessible.kind = "bloxroute" /\ (Goto(w, "readTarget") \/ Finish(w))
     \/ accessible.kind # "bloxroute" /\ Goto(w, "route2")
  /\ Quiet

(* The height for the bundle is a second read of the shared value.         *)
BundleTarget(w) == accessible

ReadTarget(w) ==
  /\ At(w, "readTarget")
  /\ target' = [target EXCEPT ![w] = BundleTarget(w)]
  /\ Goto(w, "bundleNonce")
  /\ Rest /\ UNCHANGED <<chainVars, isHead, evmIsHead, seqno>>

LastNonce == nonce - 1

PendingNonce == nonce + Cardinality(pool)

(* _get_nonce: the count at the latest block, whatever is in the pool.     *)
NextNonce == nonce

ReadNonce(w, from, to) ==
  /\ At(w, from)
  /\ seqno' = [seqno EXCEPT ![w] = NextNonce]
  /\ Goto(w, to)
  /\ Rest /\ UNCHANGED <<chainVars, isHead, evmIsHead, target>>

FallsThrough(w) == Goto(w, "route2")

(* The branches of the three routes exclude each other.                    *)
AfterBundle(w) == Finish(w)

(* A relay takes the bundle, or its simulation or submission fails.        *)
SendBundle(w, from, relay) ==
  /\ At(w, from)
  /\ \/ bundles' = bundles \union
          {[tx |-> wtx[w], relay |-> relay, nonce |-> seqno[w], target |-> target[w]]}
     \/ UNCHANGED bundles
  /\ AfterBundle(w)
  /\ Rest /\ UNCHANGED <<nonce, pool, receipts, victim, position, validator,
                         isHead, evmIsHead, seqno, target>>

(***************************************************************************)
(* accessible_block_number.value == -1, again a read of its own; then 48   *)
(* Club's price conditions, or the profit conditions of the general path.  *)
(***************************************************************************)
Route2(w) ==
  /\ At(w, "route2")
  /\ \/ accessible.kind = "48club" /\ Goto(w, "clubNonce")
     \/ accessible.kind # "48club" /\ Goto(w, "delay")
     \/ Finish(w)
  /\ Quiet

Delay(w) ==
  /\ At(w, "delay")
  /\ Goto(w, "generalNonce")
  /\ Quiet

BackNonceSkipped(n) == n + 2

BackNonce(n) == n + 1

(***************************************************************************)
(* send_sandwich_attack_using_general: two transactions sent one after the *)
(* other.  The back run is pinned to block_number + 1.  A refusal raises.  *)
(***************************************************************************)
Send(w, from, to, kind, n) ==
  /\ At(w, from)
  /\ LET r == [tx |-> wtx[w], kind |-> kind, nonce |-> n,
               due |-> kind = "back" /\ isHead[w]]
     IN  \/ /\ Accept(r)
            /\ IF kind = "recover"
               THEN Finish(w) /\ recovered' = recovered \union {wtx[w]}
               ELSE Goto(w, to) /\ UNCHANGED recovered
            /\ UNCHANGED <<raised, misread>>
         \/ MayRefuse(r) /\ Raise(w) /\ UNCHANGED chainVars
  /\ UNCHANGED <<txQueue, streamVars, accessible, isHead, evmIsHead, seqno, target>>

SendFront(w) == Send(w, "sendFront", "sendBack", "front", seqno[w])

SendBack(w) == Send(w, "sendBack", "wait", "back", BackNonce(seqno[w]))

(* while is_pending_tx(back run)                                           *)
StillWaits(w) == IsPending(wtx[w], "back")

Wait(w) ==
  /\ At(w, "wait")
  /\ ~StillWaits(w) \/ "rpc" \in Faults
  /\ Goto(w, "result")
  /\ Quiet

(* Which of the two receipts is asked for while the node indexes           *)
(* transactions, if any: the back run's is only asked for after a good     *)
(* front run.                                                              *)
Indexed(t) ==
  {"none"} \union
    {kind \in {"front", "back"} :
       "index" \in Faults /\ (kind = "back" => HasReceipt(t, "front", TRUE))}

(* is_successful_tx answers False while the node indexes transactions, and *)
(* raises for a transaction without a receipt.                             *)
LooksFailed(t, kind, indexed) == indexed = kind \/ HasReceipt(t, kind, FALSE)

LooksGood(t, kind, indexed) == indexed # kind /\ HasReceipt(t, kind, TRUE)

NoReceipt(t, kind, indexed) ==
  indexed # kind /\ \A ok \in BOOLEAN : ~HasReceipt(t, kind, ok)

RecoveryOfNative(t, indexed) ==
  LooksGood(t, "front", indexed) /\ LooksFailed(t, "back", indexed)

RecoveryUnseen(t, indexed) ==
  /\ LooksGood(t, "front", indexed)
  /\ LooksFailed(t, "back", indexed) \/ NoReceipt(t, "back", indexed)
  /\ t \notin NativeEnd

(***************************************************************************)
(* The front run succeeded, the back run did not, and the tokens the front *)
(* run left are not the native token's.                                    *)
(***************************************************************************)
NeedsRecovery(t, indexed) ==
  /\ LooksGood(t, "front", indexed)
  /\ LooksFailed(t, "back", indexed)
  /\ t \notin NativeEnd

SettledAnyToken(t, indexed) ==
  \/ LooksFailed(t, "front", indexed)
  \/ LooksGood(t, "front", indexed) /\ LooksGood(t, "back", indexed)
  \/ LooksGood(t, "front", indexed) /\ LooksFailed(t, "back", indexed)

SettledUnseen(t, indexed) ==
  \/ LooksFailed(t, "front", indexed) \/ NoReceipt(t, "front", indexed)
  \/ LooksGood(t, "front", indexed) /\ LooksGood(t, "back", indexed)
  \/ LooksGood(t, "front", indexed) /\ LooksFailed(t, "back", indexed) /\ t \in NativeEnd

(***************************************************************************)
(* There is nothing to recover: the front run failed, both runs succeeded, *)
(* or what the front run left is the native token.                         *)
(***************************************************************************)
Settled(t, indexed) ==
  \/ LooksFailed(t, "front", indexed)
  \/ LooksGood(t, "front", indexed) /\ LooksGood(t, "back", indexed)
  \/ LooksGood(t, "front", indexed) /\ LooksFailed(t, "back", indexed) /\ t \in NativeEnd

Unanswered(t, indexed) ==
  \/ NoReceipt(t, "front", indexed)
  \/ LooksGood(t, "front", indexed) /\ NoReceipt(t, "back", indexed)

(* What a worker decides on a receipt that is being indexed is not logged: *)
(* `misread' keeps it for the properties.                                  *)
Asked(t, indexed) ==
  /\ misread' = IF indexed = "none" THEN misread ELSE misread \union {<<t, indexed>>}
  /\ UNCHANGED <<recovered, raised>>

Result(w) ==
  /\ At(w, "result")
  /\ \/ \E indexed \in Indexed(wtx[w]) :
          /\ NeedsRecovery(wtx[w], indexed)
          /\ Goto(w, "recoverNonce")
          /\ Asked(wtx[w], indexed)
     \/ \E indexed \in Indexed(wtx[w]) :
          Settled(wtx[w], indexed) /\ Finish(w) /\ Asked(wtx[w], indexed)
     \/ Unanswered(wtx[w], "none") /\ Raise(w)
  /\ UNCHANGED <<chainVars, txQueue, streamVars, accessible, isHead, evmIsHead, seqno, target>>

SendRecover(w) == Send(w, "recoverSend", "idle", "recover", seqno[w])

(***************************************************************************)
(* A call to the node or to a relay fails: the handler around the loop     *)
(* body logs the exception and the worker goes on with the next            *)
(* transaction, whatever it has sent for this one.                         *)
(***************************************************************************)
RpcFails(w) ==
  /\ "rpc" \in Faults
  /\ pc[w] \notin {"idle", "get", "search", "searching", "route", "readTarget"}
  /\ Raise(w)
  /\ UNCHANGED <<chainVars, txQueue, streamVars, accessible, isHead, evmIsHead, seqno, target>>

Work(w) ==
  \/ CheckEmpty(w) \/ Get(w)
  \/ CheckAge(w) \/ AwaitBlock(w)
  \/ StartSearch(w) \/ EndSearch(w)
  \/ CheckHead(w) \/ CheckVictim(w)
  \/ Route(w) \/ ReadTarget(w)
  \/ ReadNonce(w, "bundleNonce", "bundleSend")
  \/ SendBundle(w, "bundleSend", "bloxroute")
  \/ Route2(w)
  \/ ReadNonce(w, "clubNonce", "clubSend")
  \/ SendBundle(w, "clubSend", "48club")
  \/ Delay(w)
  \/ ReadNonce(w, "generalNonce", "sendFront")
  \/ SendFront(w) \/ SendBack(w)
  \/ Wait(w) \/ Result(w)
  \/ ReadNonce(w, "recoverNonce", "recoverSend")
  \/ SendRecover(w)

Stream == (\E t \in Txs : Receive(t)) \/ CheckFull \/ Trace \/ Put

Node ==
  \/ \E k \in 0 .. Cardinality(pool) : Mine(k)
  \/ \E b \in bundles : MineWithBundle(b)
  \/ NodeForgets

Next ==
  \/ Stream
  \/ Announce
  \/ Node
  \/ \E w \in Workers : Work(w) \/ RpcFails(w)

Spec == Init /\ [][Next]_vars

(***************************************************************************)
(* The operating system runs every process; blocks keep coming, and one    *)
(* after another takes whatever transactions of the account can execute.   *)
(***************************************************************************)
FullBlock ==
  \E k \in 0 .. Cardinality(pool) :
    Mine(k) /\ \A p \in pool : p.nonce # nonce + k

FairSpec ==
  /\ Spec
  /\ WF_vars(CheckFull) /\ WF_vars(Trace) /\ WF_vars(Put)
  /\ \A w \in Workers : WF_vars(Work(w))
  /\ WF_vars(FullBlock)

-----------------------------------------------------------------------------
(* Properties.                                                             *)

(***************************************************************************)
(* full() and put() are two calls with a trace of the transaction between  *)
(* them, and still put never waits: the stream is the only producer, so    *)
(* the feed is never left unread behind a full queue.                      *)
(***************************************************************************)
PutNeverWaits == streamPc = "put" => Len(txQueue) < MaxQueue

(***************************************************************************)
(* Every transaction is with one process: the stream, one place of the     *)
(* queue, or one worker.  No attack is ever built twice.                   *)
(***************************************************************************)
SingleOwner ==
  /\ \A i, j \in 1 .. Len(txQueue) : txQueue[i] = txQueue[j] => i = j
  /\ \A v, w \in Workers : wtx[v] = wtx[w] /\ wtx[v] # NoTx => v = w
  /\ \A i \in 1 .. Len(txQueue), w \in Workers : txQueue[i] # wtx[w]
  /\ streamTx # NoTx =>
        /\ \A i \in 1 .. Len(txQueue) : txQueue[i] # streamTx
        /\ \A w \in Workers : wtx[w] # streamTx

(***************************************************************************)
(* A recovery is only ever sent for an attack whose front run succeeded,   *)
(* that left no native token, and whose back run was mined and failed: or  *)
(* was asked for while the node was indexing, and so seemed to have.       *)
(***************************************************************************)
RecoveryJustified ==
  \A t \in Txs :
    (IsPending(t, "recover") \/ \E ok \in BOOLEAN : HasReceipt(t, "recover", ok))
      => /\ HasReceipt(t, "front", TRUE)
         /\ HasReceipt(t, "back", FALSE) \/ <<t, "back">> \in misread
         /\ t \notin NativeEnd

(***************************************************************************)
(* The nonces of the pool leave no gap above the account's: a gap would    *)
(* hold back every later transaction of the account.                       *)
(***************************************************************************)
NoNonceGap ==
  \A p \in pool :
    /\ p.nonce >= nonce
    /\ p.nonce > nonce => \E q \in pool : q.nonce = p.nonce - 1

(***************************************************************************)
(* A worker does not turn to the next transaction while the back run it    *)
(* sent is still in the pool.                                              *)
(***************************************************************************)
NoAbandonedBackRun ==
  [][\A w \in Workers :
       pc[w] # "idle" /\ pc'[w] = "idle" =>
         ~\E p \in pool : p.tx = wtx[w] /\ p.kind = "back"]_vars

(***************************************************************************)
(* Tokens a front run left in the contract are either still the business   *)
(* of the worker that sent it, or a recovery has been sent for them.       *)
(***************************************************************************)
OpenPositionIsWatched ==
  \A t \in position : t \in recovered \/ \E w \in Workers : wtx[w] = t

(***************************************************************************)
(* However calls to the node fail and transactions are lost, tokens a      *)
(* front run left in the contract are never forgotten without a word: a    *)
(* worker is still at it, has sent a recovery, or has logged an exception. *)
(* One way of losing them in silence there is: the receipt of the front    *)
(* run, asked for while the node is indexing, looks like a failure.        *)
(***************************************************************************)
NoSilentLoss ==
  \A t \in position :
    \/ t \in recovered \/ t \in raised \/ \E w \in Workers : wtx[w] = t
    \/ <<t, "front">> \in misread

(***************************************************************************)
(* However many workers send at the same time, and whatever is refused or  *)
(* lost: at most one front run or recovery is in the pool, with the nonce  *)
(* the chain takes next, and a back run has that nonce or the one after.   *)
(* Attacks of several workers take each other's places in the pool, and    *)
(* never queue up behind each other.                                       *)
(***************************************************************************)
AttacksNeverQueue ==
  \A p, q \in pool :
    /\ p.nonce = q.nonce => p = q
    /\ p.nonce >= nonce
    /\ p.nonce <= IF p.kind = "back" THEN nonce + 1 ELSE nonce

(* The front runs the account has sent for a victim, whatever has become   *)
(* of them.                                                                *)
FrontRunsFor(t) ==
  {<<"pool", p>> : p \in {q \in pool : q.tx = t /\ q.kind = "front"}}
    \union {<<"bundle", b>> : b \in {c \in bundles : c.tx = t}}
    \union {<<"mined", r>> : r \in {s \in receipts : s.tx = t /\ s.kind = "front"}}

(***************************************************************************)
(* A victim is front-run once: not by two workers, not by two routes, and  *)
(* not again when the first front run is in a block, though the shared     *)
(* value that decides the route is read twice and changes between.         *)
(***************************************************************************)
OneFrontRunPerVictim ==
  \A t \in Txs : \A r, s \in FrontRunsFor(t) : r = s

(***************************************************************************)
(* What a front run bought is sold once: a back run that succeeded and a   *)
(* recovery that succeeded are never those of one attack, though the back  *)
(* run is taken for a failed one while its receipt is being indexed.       *)
(***************************************************************************)
SoldOnce ==
  \A t \in Txs : ~(HasReceipt(t, "back", TRUE) /\ HasReceipt(t, "recover", TRUE))

(***************************************************************************)
(* A bundle for bloXroute names a block that a bloXroute validator builds. *)
(***************************************************************************)
BundleNamesBloxrouteBlock ==
  \A b \in bundles : b.relay = "bloxroute" => b.target.kind = "bloxroute"

(* Every transaction in the queue is eventually taken.                     *)
QueueDrains ==
  \A t \in Txs :
    (\E i \in 1 .. Len(txQueue) : txQueue[i] = t)
      ~> (\A i \in 1 .. Len(txQueue) : txQueue[i] # t)

(* A worker that took a transaction is eventually done with it.            *)
AttackSettles == \A w \in Workers : wtx[w] # NoTx ~> wtx[w] = NoTx
=============================================================================
