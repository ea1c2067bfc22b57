------------------------------ MODULE Multicall ------------------------------
(***************************************************************************)
(* Multicalls of src/src/multicall/multicall.py: the calls of one are cut  *)
(* into batches that are fetched concurrently, and a batch whose fetch     *)
(* fails is cut again, by a step that all fetches and all multicalls of    *)
(* the process share.  One multicall runs at a time.                       *)
(*                                                                         *)
(* Calls are the numbers from 0 on, and a batch is an interval of them:    *)
(* what a call asks does not matter to the batching.                       *)
(***************************************************************************)
EXTENDS Integers

CONSTANTS
  Sizes,        \* how many calls a multicall may have
  InitialStep,  \* NotSoBrightBatcher.step at the start, 10000
  Capacity,     \* how many calls the node answers in one request and in time
  Errors        \* how fetches may fail

(* Too large a request or answer and timeouts; out of gas; the connection    *)
(* reset; anything else.                                                     *)
ErrorKinds == {"oversize", "gas", "reset", "other"}

ASSUME MulticallAssumption ==
  /\ Sizes \subseteq Nat
  /\ InitialStep \in Nat \ {0}
  /\ Capacity \in Nat \ {0}
  /\ Errors \subseteq ErrorKinds

VARIABLES
  step,     \* the shared step
  size,     \* how many calls the multicall has that runs or ran last
  status,   \* what has become of it
  fetches   \* its fetches: the calls from .. to - 1, what became of them,
            \* and how many failures led there

vars == <<step, size, status, fetches>>

MaxRetries == 5    \* of a reset connection; more are not told apart

Fetches == [from: Nat, to: Nat, retries: 0 .. MaxRetries + 1,
            state: {"asked", "answered", "raised", "rebatched"}]

TypeOK ==
  /\ step \in Int
  /\ size \in Nat
  /\ status \in {"idle", "running", "returned", "raised"}
  /\ fetches \subseteq Fetches
  /\ \A f \in fetches : f.from <= f.to /\ f.to <= size

Init ==
  /\ step = InitialStep
  /\ size = 0
  /\ status = "idle"
  /\ fetches = {}

-----------------------------------------------------------------------------
(* NotSoBrightBatcher.                                                     *)

Least(a, b) == IF a < b THEN a ELSE b

Greatest(a, b) == IF a > b THEN a ELSE b

(* Mutations, here and below, are what a slip in the code would make of the
   definition that follows; no action uses them.                           *)
ChunkNumbersTooFew(n) == {0} \union {k \in 1 .. n : k * step < n - 2}

(***************************************************************************)
(* The chunks, numbered from 0, that batch_calls makes of n calls.  There  *)
(* is a next one when the one before ends before len(calls) - 1, not       *)
(* before len(calls).                                                      *)
(***************************************************************************)
ChunkNumbers(n) == {0} \union {k \in 1 .. n : k * step < n - 1}

(* With a step that is not positive the loop may never stop.               *)
ChunksEnd(n) == step > 0 \/ n - 1 <= step

Chunks(from, to) ==
  {<<from + k * step, Greatest(from, Least(from + (k + 1) * step, to))>> :
     k \in ChunkNumbers(to - from)}

HalvesOverlapping(from, to) ==
  LET center == from + ((to - from) \div 2)
  IN  {<<from, center + 1>>, <<center, to>>}

HalvesWithEmpty(from, to) == {<<from, to>>, <<to, to>>}

Halves(from, to) ==
  LET center == from + ((to - from) \div 2)
  IN  {<<from, center>>, <<center, to>>}

(* round(n * 0.99), or one less.                                           *)
ReducedStep(n) ==
  LET q == (99 * n) \div 100
      r == (99 * n) % 100
  IN  IF n < 100 THEN n - 1
      ELSE IF r > 50 \/ (r = 50 /\ q % 2 = 1) THEN q + 1 ELSE q

-----------------------------------------------------------------------------
(* Multicall.coroutine and fetch_outputs.                                  *)

Asked(intervals, retries) ==
  {[from |-> i[1], to |-> i[2], retries |-> retries, state |-> "asked"] : i \in intervals}

Begin(n) ==
  /\ status # "running"
  /\ ChunksEnd(n)
  /\ size' = n
  /\ status' = "running"
  /\ fetches' = Asked(Chunks(0, n), 0)
  /\ UNCHANGED step

Replace(f, gs) == fetches' = (fetches \ {f}) \union gs

Answer(f) ==
  /\ f.state = "asked"
  /\ f.to - f.from <= Capacity
  /\ Replace(f, {[f EXCEPT !.state = "answered"]})
  /\ UNCHANGED <<step, size, status>>

(***************************************************************************)
(* When a fetch may fail.  Nothing makes the node fail a request it could  *)
(* answer but a call that is dear in gas, a lost connection, or a cause    *)
(* the code does not expect.                                               *)
(***************************************************************************)
MayFail(f, error) ==
  /\ f.state = "asked"
  /\ error = "oversize" => f.to - f.from > Capacity
  /\ error = "gas" => f.to > f.from

RaisesButGas(f, error) ==
  \/ error = "other"
  \/ error = "reset" /\ f.retries > MaxRetries

(* _raise_or_proceed.                                                      *)
Raises(f, error) ==
  \/ error = "other"
  \/ error = "gas" /\ f.to - f.from = 1
  \/ error = "reset" /\ f.retries > MaxRetries

Raise(f, error) ==
  /\ MayFail(f, error)
  /\ Raises(f, error)
  /\ Replace(f, {[f EXCEPT !.state = "raised"]})
  /\ UNCHANGED <<step, size, status>>

Rebatched(f, intervals) ==
  Replace(f, {[f EXCEPT !.state = "rebatched"]}
               \union Asked(intervals, Least(f.retries + 1, MaxRetries + 1)))

(***************************************************************************)
(* rebatch: by the step when another fetch has made it small, else in two  *)
(* halves, with a smaller step if this batch was within it.                *)
(***************************************************************************)
Rebatch(f, error) ==
  LET n == f.to - f.from
  IN  /\ MayFail(f, error)
      /\ ~Raises(f, error)
      /\ \/ /\ step <= n \div 2
            /\ ChunksEnd(n)
            /\ Rebatched(f, Chunks(f.from, f.to))
            /\ UNCHANGED step
         \/ /\ step > n \div 2
            /\ step' = IF step >= n THEN ReducedStep(n) ELSE step
            /\ Rebatched(f, Halves(f.from, f.to))
      /\ UNCHANGED <<size, status>>

(* gather waits for all fetches, and raises if one of them did.            *)
Finish ==
  /\ status = "running"
  /\ \A f \in fetches : f.state # "asked"
  /\ status' = IF \E f \in fetches : f.state = "raised" THEN "raised" ELSE "returned"
  /\ UNCHANGED <<step, size, fetches>>

Fetch == \E f \in fetches :
  \/ Answer(f)
  \/ \E error \in Errors : Raise(f, error) \/ Rebatch(f, error)

Next ==
  \/ \E n \in Sizes : Begin(n)
  \/ Fetch
  \/ Finish

Spec == Init /\ [][Next]_vars

(* Every request is answered or fails in the end; no multicall has to come. *)
FairSpec == Spec /\ WF_vars(Fetch) /\ WF_vars(Finish)

-----------------------------------------------------------------------------
(* Properties.                                                             *)

Leaves == {f \in fetches : f.state # "rebatched"}

Within(c, f) == f.from <= c /\ c < f.to

(***************************************************************************)
(* However batches are cut again while others are being fetched, no call   *)
(* is asked by two fetches.                                                *)
(***************************************************************************)
AskedOnce ==
  \A f, g \in Leaves : f # g => f.to <= g.from \/ g.to <= f.from

(***************************************************************************)
(* A call nobody asks any more was the last of a batch that was cut: of    *)
(* the multicall itself, or of one whose fetch failed.                     *)
(***************************************************************************)
LostIsLast ==
  \A c \in 0 .. size - 1 :
    \/ \E f \in Leaves : Within(c, f)
    \/ c = size - 1
    \/ \E f \in fetches \ Leaves : c = f.to - 1

(***************************************************************************)
(* Unless a connection is reset under a batch that cannot be cut, the      *)
(* shared step stays a number of calls to fetch: batch_calls never loops   *)
(* for ever.                                                               *)
(***************************************************************************)
StepStaysPositive == "reset" \notin Errors => step > 0

(***************************************************************************)
(* The batcher brings the batches down to what the node can take: every    *)
(* multicall returns or raises.                                            *)
(***************************************************************************)
MulticallEnds == status = "running" ~> status # "running"

(* A multicall that returns has an answer for every one of its calls.      *)
EveryCallAnswered ==
  status = "returned" => \A c \in 0 .. size - 1 : \E f \in Leaves : Within(c, f)

(***************************************************************************)
(* Whatever the node does to the batches of one multicall, those of the    *)
(* next can be made: "should quickly bring the batch size down to          *)
(* something reasonable for your node" (multicall.py:192).                 *)
(***************************************************************************)
BatchingEnds == \A n \in Sizes : ChunksEnd(n)
=============================================================================
