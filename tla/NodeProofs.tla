------------------------------ MODULE NodeProofs ------------------------------
(***************************************************************************)
(* Theorems about what the program makes of the node's answers.            *)
(*                                                                         *)
(* Multicall: its types, the shared step, that no call is asked by two     *)
(* fetches, and that a fetch loses no call but the last of a cut, for any  *)
(* multicalls, step, capacity and errors.                                  *)
(*                                                                         *)
(* SwapTrace: that an address's event is what it was moved and that every  *)
(* swap is reported, for any addresses, tokens and amounts and however     *)
(* many calls a trace has.                                                 *)
(***************************************************************************)
EXTENDS Multicall, SwapTrace, SequenceTheorems, FiniteSetTheorems, WellFoundedInduction, TLAPS

(***************************************************************************)
(* A set of intervals cuts from .. to - 1 when they lie in it and no two   *)
(* of them overlap.                                                        *)
(***************************************************************************)
Cuts(S, from, to) ==
  /\ \A i \in S : /\ i \in Nat \X Nat
                  /\ from <= i[1] /\ i[1] <= i[2] /\ i[2] <= to
  /\ \A i, j \in S : i # j => i[2] <= j[1] \/ j[2] <= i[1]

LEMMA HalvesCut ==
  ASSUME NEW from \in Nat, NEW to \in Nat, from <= to
  PROVE  Cuts(Halves(from, to), from, to)
  BY DEF Halves, Cuts

(* Where a chunk starts, and that a later one starts where it has ended.   *)
LEMMA ChunkStart ==
  ASSUME step \in Int, NEW n \in Nat, ChunksEnd(n), NEW k \in ChunkNumbers(n)
  PROVE  /\ k \in Nat
         /\ k * step \in Nat
         /\ k * step <= n
         /\ k # 0 => step > 0
<1>1. CASE k = 0
  <2>1. k * step = 0
    BY <1>1
  <2> QED
    BY <1>1, <2>1
<1>2. CASE k # 0
  <2>1. k \in 1 .. n /\ k * step < n - 1
    BY <1>2 DEF ChunkNumbers
  <2>2. step > 0
    <3>1. CASE step > 0
      BY <3>1
    <3>2. CASE n - 1 <= step /\ ~(step > 0)
      <4>1. n = 1 /\ k = 1
        BY <2>1, <3>2
      <4>2. k * step = step
        BY <4>1
      <4> QED
        BY <2>1, <3>2, <4>1, <4>2
    <3> QED
      BY <3>1, <3>2 DEF ChunksEnd
  <2>3. k * step \in Int /\ k * step >= 0
    BY <2>1, <2>2
  <2> QED
    BY <2>1, <2>2, <2>3
<1> QED
  BY <1>1, <1>2

LEMMA ChunksInOrder ==
  ASSUME NEW s \in Int, s > 0, NEW k \in Nat, NEW l \in Nat, k < l
  PROVE  (k + 1) * s <= l * s
<1>1. l * s = (k + 1) * s + (l - k - 1) * s
  OBVIOUS
<1>2. (l - k - 1) * s >= 0
  OBVIOUS
<1>3. (k + 1) * s \in Int /\ (l - k - 1) * s \in Int
  OBVIOUS
<1> QED
  BY <1>1, <1>2, <1>3

LEMMA ChunksCut ==
  ASSUME step \in Int, NEW from \in Nat, NEW to \in Nat, from <= to, ChunksEnd(to - from)
  PROVE  Cuts(Chunks(from, to), from, to)
<1> DEFINE n == to - from
           Chunk(k) == <<from + k * step, Greatest(from, Least(from + (k + 1) * step, to))>>
<1>0. n \in Nat
  OBVIOUS
<1>1. ASSUME NEW k \in ChunkNumbers(n)
      PROVE  /\ Chunk(k) \in Nat \X Nat
             /\ from <= Chunk(k)[1] /\ Chunk(k)[1] <= Chunk(k)[2] /\ Chunk(k)[2] <= to
  <2>1. /\ k \in Nat /\ k * step \in Nat /\ k * step <= n
        /\ k # 0 => step > 0
    BY <1>0, ChunkStart
  <2>2. (k + 1) * step = k * step + step
    BY <2>1
  <2>3. k = 0 => k * step = 0
    OBVIOUS
  <2> HIDE DEF n
  <2> QED
    BY <2>1, <2>2, <2>3 DEF n, Greatest, Least
<1>2. ASSUME NEW k \in ChunkNumbers(n), NEW l \in ChunkNumbers(n), k < l
      PROVE  Chunk(k)[2] <= Chunk(l)[1]
  <2>1. /\ k \in Nat /\ l \in Nat /\ l * step \in Nat /\ step > 0
    BY <1>0, <1>2, ChunkStart
  <2>2. (k + 1) * step <= l * step
    BY <1>2, <2>1, ChunksInOrder
  <2>3. (k + 1) * step \in Int
    BY <2>1
  <2> QED
    BY <2>1, <2>2, <2>3 DEF Greatest, Least
<1>3. Chunks(from, to) = {Chunk(k) : k \in ChunkNumbers(n)}
  BY DEF Chunks
<1>4. ChunkNumbers(n) \subseteq Nat
  BY <1>0 DEF ChunkNumbers
<1> HIDE DEF Chunk, n
<1>5. ASSUME NEW i \in Chunks(from, to), NEW j \in Chunks(from, to), i # j
      PROVE  i[2] <= j[1] \/ j[2] <= i[1]
  <2>1. PICK k \in ChunkNumbers(n) : i = Chunk(k)
    BY <1>3
  <2>2. PICK l \in ChunkNumbers(n) : j = Chunk(l)
    BY <1>3
  <2>3. k < l \/ l < k
    BY <1>4, <1>5, <2>1, <2>2
  <2> QED
    BY <1>2, <2>1, <2>2, <2>3
<1> QED
  BY <1>1, <1>3, <1>5 DEF Cuts

-----------------------------------------------------------------------------
(* Types.                                                                  *)

LEMMA ReducedStepIsInt ==
  ASSUME NEW n \in Nat
  PROVE  /\ ReducedStep(n) \in Int
         /\ n >= 2 => ReducedStep(n) > 0
  BY DEF ReducedStep

(* The fetches a cut asks for, and what is left of the others.             *)
LEMMA AskedTyped ==
  ASSUME NEW S, NEW from \in Nat, NEW to \in Nat, Cuts(S, from, to), NEW r \in 0 .. MaxRetries + 1
  PROVE  /\ Asked(S, r) \subseteq Fetches
         /\ \A c \in Asked(S, r) : from <= c.from /\ c.from <= c.to /\ c.to <= to
         /\ \A c, d \in Asked(S, r) : c # d => c.to <= d.from \/ d.to <= c.from
<1>1. ASSUME NEW c \in Asked(S, r)
      PROVE  \E i \in S : c = [from |-> i[1], to |-> i[2], retries |-> r, state |-> "asked"]
  BY DEF Asked
<1>2. ASSUME NEW c \in Asked(S, r)
      PROVE  c \in Fetches /\ from <= c.from /\ c.from <= c.to /\ c.to <= to
  BY <1>1 DEF Cuts, Fetches
<1>3. ASSUME NEW c \in Asked(S, r), NEW d \in Asked(S, r), c # d
      PROVE  c.to <= d.from \/ d.to <= c.from
  BY <1>1, <1>3 DEF Cuts
<1> QED
  BY <1>2, <1>3

(* What cutting a failed batch leaves: the fetches that were there, the     *)
(* failed one set aside, and new ones within it.                            *)
LEMMA RebatchCuts ==
  ASSUME TypeOK, NEW f \in fetches, NEW error, Rebatch(f, error)
  PROVE  \E S : /\ Cuts(S, f.from, f.to)
               /\ Rebatched(f, S)
<1>1. /\ step \in Int /\ f.from \in Nat /\ f.to \in Nat /\ f.from <= f.to
  BY DEF TypeOK, Fetches
<1>2. CASE ChunksEnd(f.to - f.from) /\ Rebatched(f, Chunks(f.from, f.to))
  BY <1>1, <1>2, ChunksCut
<1>3. CASE Rebatched(f, Halves(f.from, f.to))
  BY <1>1, <1>3, HalvesCut
<1> QED
  BY <1>2, <1>3 DEF Rebatch

LEMMA BeginCuts ==
  ASSUME TypeOK, NEW n \in Nat, ChunksEnd(n)
  PROVE  Cuts(Chunks(0, n), 0, n)
  BY ChunksCut, n - 0 = n DEF TypeOK

(* The number of failures behind the fetches of a cut.                      *)
LEMMA RetriesTyped ==
  ASSUME TypeOK, NEW f \in fetches
  PROVE  Least(f.retries + 1, MaxRetries + 1) \in 0 .. MaxRetries + 1
  BY DEF TypeOK, Fetches, Least, MaxRetries

(***************************************************************************)
(* The variables keep their types, and every fetch is an interval of the   *)
(* calls of its multicall.                                                 *)
(***************************************************************************)
THEOREM TypeCorrect == Spec => []TypeOK
<1> USE MulticallAssumption
<1>1. Init => TypeOK
  BY DEF Init, TypeOK
<1>2. TypeOK /\ [Next]_vars => TypeOK'
  <2> SUFFICES ASSUME TypeOK, [Next]_vars
               PROVE  TypeOK'
    OBVIOUS
  <2>1. ASSUME NEW n \in Sizes, Begin(n)
        PROVE  TypeOK'
    <3>1. n \in Nat
      OBVIOUS
    <3>2. Cuts(Chunks(0, n), 0, n)
      BY <2>1, <3>1, BeginCuts DEF Begin
    <3>3. /\ Asked(Chunks(0, n), 0) \subseteq Fetches
          /\ \A c \in Asked(Chunks(0, n), 0) : c.from <= c.to /\ c.to <= n
      BY <3>1, <3>2, AskedTyped, 0 \in 0 .. MaxRetries + 1 DEF MaxRetries
    <3> QED
      BY <2>1, <3>1, <3>3 DEF Begin, TypeOK
  <2>2. ASSUME NEW f \in fetches, Answer(f)
        PROVE  TypeOK'
    BY <2>2 DEF Answer, Replace, TypeOK, Fetches
  <2>3. ASSUME NEW f \in fetches, NEW error \in Errors, Raise(f, error)
        PROVE  TypeOK'
    BY <2>3 DEF Raise, Replace, TypeOK, Fetches
  <2>4. ASSUME NEW f \in fetches, NEW error \in Errors, Rebatch(f, error)
        PROVE  TypeOK'
    <3> DEFINE r == Least(f.retries + 1, MaxRetries + 1)
    <3>1. /\ f \in Fetches /\ f.from \in Nat /\ f.to \in Nat /\ f.to - f.from \in Nat
          /\ f.from <= f.to /\ f.to <= size
      BY DEF TypeOK, Fetches
    <3>2. PICK S : Cuts(S, f.from, f.to) /\ Rebatched(f, S)
      BY <2>4, RebatchCuts
    <3>3. r \in 0 .. MaxRetries + 1
      BY RetriesTyped
    <3> HIDE DEF r
    <3>4. /\ Asked(S, r) \subseteq Fetches
          /\ \A c \in Asked(S, r) : c.from <= c.to /\ c.to <= f.to
      BY <3>1, <3>2, <3>3, AskedTyped
    <3>5. /\ fetches' = (fetches \ {f}) \union {[f EXCEPT !.state = "rebatched"]} \union Asked(S, r)
      BY <3>2 DEF Rebatched, Replace, r
    <3>6. /\ [f EXCEPT !.state = "rebatched"] \in Fetches
          /\ [f EXCEPT !.state = "rebatched"].from = f.from
          /\ [f EXCEPT !.state = "rebatched"].to = f.to
      BY <3>1 DEF Fetches
    <3>7. step' \in Int /\ size' = size /\ status' = status
      BY <2>4, <3>1, ReducedStepIsInt DEF Rebatch, TypeOK
    <3>8. fetches' \subseteq Fetches
      BY <3>4, <3>5, <3>6 DEF TypeOK
    <3>9. \A g \in fetches' : g.from <= g.to /\ g.to <= size
      <4> TAKE g \in fetches'
      <4>1. CASE g \in fetches
        BY <4>1 DEF TypeOK
      <4>2. CASE g = [f EXCEPT !.state = "rebatched"]
        BY <4>2, <3>1, <3>6
      <4>3. CASE g \in Asked(S, r)
        <5>1. g \in Fetches /\ g.from <= g.to /\ g.to <= f.to
          BY <4>3, <3>4
        <5> QED
          BY <5>1, <3>1 DEF TypeOK, Fetches
      <4> QED
        BY <3>5, <4>1, <4>2, <4>3
    <3> QED
      BY <3>7, <3>8, <3>9 DEF TypeOK
  <2>5. CASE Finish
    BY <2>5 DEF Finish, TypeOK
  <2>6. CASE UNCHANGED vars
    BY <2>6 DEF vars, TypeOK
  <2> QED
    BY <2>1, <2>2, <2>3, <2>4, <2>5, <2>6 DEF Next, Fetch
<1> QED
  BY <1>1, <1>2, PTL DEF Spec

-----------------------------------------------------------------------------
(* The shared step.                                                        *)

(***************************************************************************)
(* While no connection is reset the step the process shares stays          *)
(* positive: what rebatch makes smaller has two calls at least.            *)
(***************************************************************************)
THEOREM StepNeverVanishes == Spec => []StepStaysPositive
<1> USE MulticallAssumption
<1>1. Init => StepStaysPositive
  BY DEF Init, StepStaysPositive
<1>2. TypeOK /\ StepStaysPositive /\ [Next]_vars => StepStaysPositive'
  <2> SUFFICES ASSUME TypeOK, StepStaysPositive, [Next]_vars, "reset" \notin Errors
               PROVE  step' > 0
    BY DEF StepStaysPositive
  <2>1. step \in Int /\ step > 0
    BY DEF TypeOK, StepStaysPositive
  <2>2. ASSUME NEW f \in fetches, NEW error \in Errors, Rebatch(f, error)
        PROVE  step' > 0
    <3>1. f.from \in Nat /\ f.to \in Nat /\ f.to - f.from \in Nat
      BY DEF TypeOK, Fetches
    <3>2. error \in {"oversize", "gas"}
      BY <2>2 DEF Rebatch, Raises, ErrorKinds
    <3>3. f.to - f.from >= 2
      BY <2>2, <3>1, <3>2 DEF Rebatch, MayFail, Raises
    <3> QED
      BY <2>1, <2>2, <3>1, <3>3, ReducedStepIsInt DEF Rebatch
  <2>3. CASE \E n \in Sizes : Begin(n)
    BY <2>1, <2>3 DEF Begin
  <2>4. ASSUME NEW f \in fetches, Answer(f) \/ \E error \in Errors : Raise(f, error)
        PROVE  step' > 0
    BY <2>1, <2>4 DEF Answer, Raise
  <2>5. CASE Finish \/ UNCHANGED vars
    BY <2>1, <2>5 DEF Finish, vars
  <2> QED
    BY <2>2, <2>3, <2>4, <2>5 DEF Next, Fetch
<1> QED
  BY <1>1, <1>2, TypeCorrect, PTL DEF Spec

-----------------------------------------------------------------------------
(* Nothing is asked twice.                                                 *)

Apart(f, g) == f.to <= g.from \/ g.to <= f.from

(* A fetch that changes its state but keeps its calls stays apart.          *)
LEMMA ReplacedApart ==
  ASSUME TypeOK, AskedOnce, NEW f \in Leaves,
         NEW state \in {"answered", "raised"}, Replace(f, {[f EXCEPT !.state = state]})
  PROVE  AskedOnce'
<1> DEFINE new == [f EXCEPT !.state = state]
<1>1. f \in Fetches /\ f \in fetches
  BY DEF Leaves, TypeOK
<1>2. new.from = f.from /\ new.to = f.to
  BY <1>1 DEF Fetches
<1> HIDE DEF new
<1>3. fetches' = (fetches \ {f}) \union {new}
  BY DEF Replace, new
<1>4. \A g \in Leaves' : g = new \/ (g \in Leaves /\ g # f)
  BY <1>3 DEF Leaves
<1>5. \A g \in Leaves : g # f => Apart(f, g) /\ Apart(g, f)
  BY DEF AskedOnce, Apart
<1>6. \A g, h \in Leaves' : g # h => Apart(g, h)
  <2> TAKE g, h \in Leaves'
  <2> HAVE g # h
  <2>1. CASE g = new
    BY <1>2, <1>4, <1>5, <2>1 DEF Apart
  <2>2. CASE h = new
    BY <1>2, <1>4, <1>5, <2>2 DEF Apart
  <2>3. CASE g # new /\ h # new
    BY <1>4, <2>3 DEF AskedOnce, Apart
  <2> QED
    BY <2>1, <2>2, <2>3
<1> QED
  BY <1>6 DEF AskedOnce, Apart

(* The pieces of a failed batch are apart from each other, and from all     *)
(* that the batch was apart from.                                           *)
LEMMA RebatchedApart ==
  ASSUME TypeOK, AskedOnce, NEW f \in Leaves, NEW error, Rebatch(f, error)
  PROVE  AskedOnce'
<1> DEFINE r == Least(f.retries + 1, MaxRetries + 1)
           old == [f EXCEPT !.state = "rebatched"]
<1>1. f \in fetches /\ f \in Fetches /\ f.from \in Nat /\ f.to \in Nat /\ f.from <= f.to
  BY DEF Leaves, TypeOK, Fetches
<1>2. PICK S : Cuts(S, f.from, f.to) /\ Rebatched(f, S)
  BY <1>1, RebatchCuts
<1>3. r \in 0 .. MaxRetries + 1
  BY <1>1, RetriesTyped
<1>4. old.state = "rebatched"
  BY <1>1 DEF Fetches
<1>5. fetches' = (fetches \ {f}) \union {old} \union Asked(S, r)
  BY <1>2 DEF Rebatched, Replace
<1> HIDE DEF r, old
<1>6. /\ Asked(S, r) \subseteq Fetches
      /\ \A c \in Asked(S, r) : f.from <= c.from /\ c.from <= c.to /\ c.to <= f.to
      /\ \A c, d \in Asked(S, r) : c # d => Apart(c, d)
  BY <1>1, <1>2, <1>3, AskedTyped DEF Apart
<1>7. \A g \in Leaves' : g \in Asked(S, r) \/ (g \in Leaves /\ g # f)
  BY <1>4, <1>5 DEF Leaves
<1>8. ASSUME NEW g \in Leaves, g # f, NEW c \in Asked(S, r)
      PROVE  Apart(g, c) /\ Apart(c, g)
  <2>1. Apart(f, g)
    BY <1>8 DEF AskedOnce, Apart
  <2>2. /\ g \in Fetches /\ g.from \in Nat /\ g.to \in Nat /\ g.from <= g.to
        /\ c.from \in Nat /\ c.to \in Nat
    BY <1>6 DEF Leaves, TypeOK, Fetches
  <2> QED
    BY <1>1, <1>6, <2>1, <2>2 DEF Apart
<1>9. \A g, h \in Leaves' : g # h => Apart(g, h)
  BY <1>6, <1>7, <1>8 DEF AskedOnce, Apart
<1> QED
  BY <1>9 DEF AskedOnce, Apart

(***************************************************************************)
(* No call is asked by two fetches, however batches are cut again and      *)
(* whatever fails.                                                         *)
(***************************************************************************)
THEOREM NothingAskedTwice == Spec => []AskedOnce
<1> USE MulticallAssumption
<1>1. Init => AskedOnce
  BY DEF Init, AskedOnce, Leaves
<1>2. TypeOK /\ AskedOnce /\ [Next]_vars => AskedOnce'
  <2> SUFFICES ASSUME TypeOK, AskedOnce, [Next]_vars
               PROVE  AskedOnce'
    OBVIOUS
  <2>1. ASSUME NEW n \in Sizes, Begin(n)
        PROVE  AskedOnce'
    <3>1. Cuts(Chunks(0, n), 0, n) /\ n \in Nat
      BY <2>1, BeginCuts DEF Begin
    <3>2. \A c, d \in Asked(Chunks(0, n), 0) : c # d => c.to <= d.from \/ d.to <= c.from
      BY <3>1, AskedTyped, 0 \in 0 .. MaxRetries + 1 DEF MaxRetries
    <3> QED
      BY <2>1, <3>2 DEF Begin, AskedOnce, Leaves
  <2>2. ASSUME NEW f \in fetches, Answer(f)
        PROVE  AskedOnce'
    <3>1. f \in Leaves
      BY <2>2 DEF Answer, Leaves
    <3> QED
      BY <2>2, <3>1, ReplacedApart DEF Answer
  <2>3. ASSUME NEW f \in fetches, NEW error \in Errors, Raise(f, error)
        PROVE  AskedOnce'
    <3>1. f \in Leaves
      BY <2>3 DEF Raise, MayFail, Leaves
    <3> QED
      BY <2>3, <3>1, ReplacedApart DEF Raise
  <2>4. ASSUME NEW f \in fetches, NEW error \in Errors, Rebatch(f, error)
        PROVE  AskedOnce'
    <3>1. f \in Leaves
      BY <2>4 DEF Rebatch, MayFail, Leaves
    <3> QED
      BY <2>4, <3>1, RebatchedApart
  <2>5. CASE Finish \/ UNCHANGED vars
    BY <2>5 DEF Finish, vars, AskedOnce, Leaves
  <2> QED
    BY <2>1, <2>2, <2>3, <2>4, <2>5 DEF Next, Fetch
<1> QED
  BY <1>1, <1>2, TypeCorrect, PTL DEF Spec

-----------------------------------------------------------------------------
(* Which calls a fetch may lose.                                           *)

(* All calls of a cut but the last are in one of its pieces.               *)
Covers(S, from, to) == \A c \in from .. to - 2 : \E i \in S : i[1] <= c /\ c < i[2]

LEMMA HalvesCover ==
  ASSUME NEW from \in Nat, NEW to \in Nat, from <= to
  PROVE  Covers(Halves(from, to), from, to)
<1> SUFFICES ASSUME NEW c \in from .. to - 2
             PROVE  \E i \in Halves(from, to) : i[1] <= c /\ c < i[2]
  BY DEF Covers
<1> DEFINE center == from + ((to - from) \div 2)
<1>1. center \in Int
  OBVIOUS
<1>2. <<from, center>> \in Halves(from, to) /\ <<center, to>> \in Halves(from, to)
  BY DEF Halves
<1> HIDE DEF center
<1>3. CASE c < center
  BY <1>1, <1>2, <1>3
<1>4. CASE center <= c
  BY <1>1, <1>2, <1>4
<1> QED
  BY <1>1, <1>3, <1>4

(* The chunk of a call is the one its distance over the step numbers.      *)
LEMMA ChunksCover ==
  ASSUME step \in Int, NEW from \in Nat, NEW to \in Nat, from <= to, ChunksEnd(to - from)
  PROVE  Covers(Chunks(from, to), from, to)
<1> SUFFICES ASSUME NEW c \in from .. to - 2
             PROVE  \E i \in Chunks(from, to) : i[1] <= c /\ c < i[2]
  BY DEF Covers
<1> DEFINE n == to - from
           k == (c - from) \div step
           d == k * step
           chunk == <<from + d, Greatest(from, Least(from + (k + 1) * step, to))>>
<1>1. n \in Nat /\ n >= 2 /\ step > 0 /\ c - from \in Nat /\ c - from < n - 1
  BY DEF ChunksEnd
<1>2. k \in Int /\ step * k <= c - from /\ c - from < step * k + step
  BY <1>1
<1>3. d = step * k /\ (k + 1) * step = d + step /\ d \in Int
  BY <1>2
<1>4. d <= c - from /\ c - from < d + step
  BY <1>2, <1>3
<1>5. k >= 0
  BY <1>1, <1>2
<1>6. k <= n
  <2>1. k <= d
    BY <1>1, <1>2, <1>3, <1>5
  <2> QED
    BY <1>1, <1>2, <1>3, <1>4, <2>1
<1>7. k \in ChunkNumbers(n)
  BY <1>1, <1>2, <1>3, <1>4, <1>5, <1>6 DEF ChunkNumbers
<1>8. chunk \in Chunks(from, to)
  BY <1>7 DEF Chunks
<1>9. chunk[1] <= c
  BY <1>3, <1>4
<1>10. c < chunk[2]
  <2> HIDE DEF k, d
  <2> QED
    BY <1>3, <1>4 DEF Greatest, Least
<1> QED
  BY <1>8, <1>9, <1>10

LEMMA RebatchCovers ==
  ASSUME TypeOK, NEW f \in fetches, NEW error, Rebatch(f, error)
  PROVE  \E S : /\ Cuts(S, f.from, f.to) /\ Covers(S, f.from, f.to)
               /\ Rebatched(f, S)
<1>1. /\ step \in Int /\ f.from \in Nat /\ f.to \in Nat /\ f.from <= f.to
  BY DEF TypeOK, Fetches
<1>2. CASE ChunksEnd(f.to - f.from) /\ Rebatched(f, Chunks(f.from, f.to))
  BY <1>1, <1>2, ChunksCut, ChunksCover
<1>3. CASE Rebatched(f, Halves(f.from, f.to))
  BY <1>1, <1>3, HalvesCut, HalvesCover
<1> QED
  BY <1>2, <1>3 DEF Rebatch

(* A call is looked for where LostIsLast says it is.                       *)
Found(c) ==
  \/ \E f \in Leaves : Within(c, f)
  \/ c = size - 1
  \/ \E f \in fetches \ Leaves : c = f.to - 1

LEMMA AskedCovers ==
  ASSUME NEW S, NEW from \in Nat, NEW to \in Nat, Cuts(S, from, to), Covers(S, from, to),
         NEW r \in 0 .. MaxRetries + 1, NEW c \in from .. to - 2
  PROVE  \E g \in Asked(S, r) : Within(c, g) /\ g.state = "asked"
<1>1. PICK i \in S : i[1] <= c /\ c < i[2]
  BY DEF Covers
<1> DEFINE g == [from |-> i[1], to |-> i[2], retries |-> r, state |-> "asked"]
<1>2. g \in Asked(S, r)
  BY DEF Asked
<1> QED
  BY <1>1, <1>2 DEF Within

LEMMA FoundWhenReplaced ==
  ASSUME TypeOK, NEW f \in Leaves,
         NEW state \in {"answered", "raised"}, Replace(f, {[f EXCEPT !.state = state]}),
         UNCHANGED size, NEW c, Found(c)
  PROVE  Found(c)'
<1> DEFINE new == [f EXCEPT !.state = state]
<1>1. f \in Fetches /\ f \in fetches
  BY DEF Leaves, TypeOK
<1>2. new.from = f.from /\ new.to = f.to /\ new.state # "rebatched"
  BY <1>1 DEF Fetches
<1> HIDE DEF new
<1>3. fetches' = (fetches \ {f}) \union {new}
  BY DEF Replace, new
<1>4. \A g \in Leaves : g = f \/ g \in Leaves'
  BY <1>3 DEF Leaves
<1>5. new \in Leaves'
  BY <1>2, <1>3 DEF Leaves
<1>6. \A g \in fetches \ Leaves : g \in fetches' \ Leaves'
  BY <1>3 DEF Leaves
<1> QED
  BY <1>2, <1>4, <1>5, <1>6 DEF Found, Within

LEMMA FoundWhenRebatched ==
  ASSUME TypeOK, NEW f \in Leaves, NEW error, Rebatch(f, error), NEW c \in Int, Found(c)
  PROVE  Found(c)'
<1> DEFINE r == Least(f.retries + 1, MaxRetries + 1)
           old == [f EXCEPT !.state = "rebatched"]
<1>1. f \in fetches /\ f \in Fetches /\ f.from \in Nat /\ f.to \in Nat /\ f.from <= f.to
  BY DEF Leaves, TypeOK, Fetches
<1>2. PICK S : Cuts(S, f.from, f.to) /\ Covers(S, f.from, f.to) /\ Rebatched(f, S)
  BY <1>1, RebatchCovers
<1>3. r \in 0 .. MaxRetries + 1
  BY <1>1, RetriesTyped
<1>4. old.state = "rebatched" /\ old.to = f.to
  BY <1>1 DEF Fetches
<1>5. fetches' = (fetches \ {f}) \union {old} \union Asked(S, r)
  BY <1>2 DEF Rebatched, Replace
<1> HIDE DEF r, old
<1>6. \A g \in Leaves : g = f \/ g \in Leaves'
  BY <1>5 DEF Leaves
<1>7. \A g \in fetches \ Leaves : g \in fetches' \ Leaves'
  BY <1>5 DEF Leaves
<1>8. old \in fetches' \ Leaves'
  BY <1>4, <1>5 DEF Leaves
<1>9. size' = size
  BY DEF Rebatch
<1>10. CASE Within(c, f)
  <2>1. CASE c = f.to - 1
    BY <1>4, <1>8, <2>1 DEF Found
  <2>2. CASE c # f.to - 1
    <3>1. c \in f.from .. f.to - 2
      BY <1>1, <1>10, <2>2 DEF Within
    <3>0. \A d \in f.from .. f.to - 2 :
             \E g \in Asked(S, r) : Within(d, g) /\ g.state = "asked"
      <4> DEFINE from == f.from
                 to == f.to
      <4>1. from \in Nat /\ to \in Nat /\ Cuts(S, from, to) /\ Covers(S, from, to)
        BY <1>1, <1>2
      <4> HIDE DEF from, to
      <4>2. \A d \in from .. to - 2 : \E g \in Asked(S, r) : Within(d, g) /\ g.state = "asked"
        BY <1>3, <4>1, AskedCovers
      <4> QED
        BY <4>2 DEF from, to
    <3>2. PICK g \in Asked(S, r) : Within(c, g) /\ g.state = "asked"
      BY <3>0, <3>1
    <3>3. g \in Leaves'
      BY <1>5, <3>2 DEF Leaves
    <3> QED
      BY <3>2, <3>3 DEF Found, Within
  <2> QED
    BY <2>1, <2>2
<1> QED
  BY <1>6, <1>7, <1>9, <1>10 DEF Found, Within

(***************************************************************************)
(* The only calls that are lost are the last of what was cut: batch_calls  *)
(* stops one call early, and it stops no earlier, whatever the step is and *)
(* whatever other fetches make of it.                                      *)
(***************************************************************************)
THEOREM OnlyLastCallsAreLost == Spec => []LostIsLast
<1> USE MulticallAssumption
<1>1. Init => LostIsLast
  BY DEF Init, LostIsLast
<1>2. TypeOK /\ LostIsLast /\ [Next]_vars => LostIsLast'
  <2> SUFFICES ASSUME TypeOK, LostIsLast, [Next]_vars
               PROVE  LostIsLast'
    OBVIOUS
  <2>0. \A c \in 0 .. size - 1 : Found(c)
    BY DEF LostIsLast, Found
  <2>1. ASSUME NEW n \in Sizes, Begin(n)
        PROVE  LostIsLast'
    <3> SUFFICES ASSUME NEW c \in 0 .. n - 1, c # n - 1
                 PROVE  Found(c)'
      BY <2>1 DEF Begin, LostIsLast, Found
    <3>1. Cuts(Chunks(0, n), 0, n) /\ n \in Nat
      BY <2>1, BeginCuts DEF Begin
    <3>2. Covers(Chunks(0, n), 0, n)
      BY <2>1, <3>1, ChunksCover, n - 0 = n DEF Begin, TypeOK
    <3>3. c \in 0 .. n - 2
      BY <3>1
    <3>4. PICK g \in Asked(Chunks(0, n), 0) : Within(c, g) /\ g.state = "asked"
      BY <3>1, <3>2, <3>3, AskedCovers, 0 \in 0 .. MaxRetries + 1 DEF MaxRetries
    <3>5. g \in Leaves'
      BY <2>1, <3>4 DEF Begin, Leaves
    <3> QED
      BY <3>4, <3>5 DEF Found, Within
  <2>2. ASSUME NEW f \in fetches, Answer(f)
        PROVE  LostIsLast'
    <3>1. f \in Leaves /\ size' = size
      BY <2>2 DEF Answer, Leaves
    <3>2. \A c \in 0 .. size - 1 : Found(c)'
      BY <2>0, <2>2, <3>1, FoundWhenReplaced DEF Answer
    <3> QED
      BY <3>1, <3>2 DEF LostIsLast, Found
  <2>3. ASSUME NEW f \in fetches, NEW error \in Errors, Raise(f, error)
        PROVE  LostIsLast'
    <3>1. f \in Leaves /\ size' = size
      BY <2>3 DEF Raise, MayFail, Leaves
    <3>2. \A c \in 0 .. size - 1 : Found(c)'
      BY <2>0, <2>3, <3>1, FoundWhenReplaced DEF Raise
    <3> QED
      BY <3>1, <3>2 DEF LostIsLast, Found
  <2>4. ASSUME NEW f \in fetches, NEW error \in Errors, Rebatch(f, error)
        PROVE  LostIsLast'
    <3>1. f \in Leaves /\ size' = size
      BY <2>4 DEF Rebatch, MayFail, Leaves
    <3>2. \A c \in 0 .. size - 1 : Found(c)'
      BY <2>0, <2>4, <3>1, FoundWhenRebatched
    <3> QED
      BY <3>1, <3>2 DEF LostIsLast, Found
  <2>5. CASE Finish \/ UNCHANGED vars
    BY <2>5 DEF Finish, vars, LostIsLast, Leaves, Within
  <2> QED
    BY <2>1, <2>2, <2>3, <2>4, <2>5 DEF Next, Fetch
<1> QED
  BY <1>1, <1>2, TypeCorrect, PTL DEF Spec

-----------------------------------------------------------------------------
(* SwapTrace.                                                              *)

(***************************************************************************)
(* No amount without its token, and not both amounts below zero: Turned    *)
(* turns an event as soon as one is.                                       *)
(***************************************************************************)
Sound(e) ==
  /\ e.tokenIn = Unset => e.amountIn = 0
  /\ e.tokenOut = Unset => e.amountOut = 0
  /\ e.amountIn >= 0 \/ e.amountOut >= 0

(* An address without events moved nothing, one with one event what it says. *)
FlowIsBooked ==
  \A a \in Addresses \ faked, t \in Tokens :
    /\ EventsOf(a) = {} => flow[a][t] = 0
    /\ \A i \in EventsOf(a) : EventsOf(a) = {i} => Net(events[i], t) = flow[a][t]

TraceInv ==
  /\ TraceTypeOK
  /\ \A i \in DOMAIN events : Sound(events[i])
  /\ FlowIsBooked

-----------------------------------------------------------------------------
(* One event.                                                              *)

LEMMA TurnedIs ==
  ASSUME NEW e \in SwapEvent
  PROVE  /\ Turned(e) \in SwapEvent /\ Turned(e).address = e.address
         /\ Turned(e).dex = e.dex
         /\ \A t \in Tokens : Net(Turned(e), t) = Net(e, t)
         /\ (/\ e.tokenIn = Unset => e.amountIn = 0
             /\ e.tokenOut = Unset => e.amountOut = 0) => Sound(Turned(e))
<1>1. e.amountIn \in Int /\ e.amountOut \in Int
  BY DEF SwapEvent
<1>2. CASE e.amountIn < 0 \/ e.amountOut < 0
  <2>1. Turned(e) = [dex |-> e.dex, address |-> e.address,
                     tokenIn |-> e.tokenOut, tokenOut |-> e.tokenIn,
                     amountIn |-> -e.amountOut, amountOut |-> -e.amountIn]
    BY <1>2 DEF Turned, SwapEvent
  <2>2. /\ Turned(e).tokenIn = e.tokenOut /\ Turned(e).tokenOut = e.tokenIn
        /\ Turned(e).amountIn = -e.amountOut /\ Turned(e).amountOut = -e.amountIn
        /\ Turned(e).address = e.address /\ Turned(e).dex = e.dex
    BY <2>1
  <2>3. Turned(e) \in SwapEvent
    BY <1>1, <2>1 DEF SwapEvent
  <2>4. \A t \in Tokens : Net(Turned(e), t) = Net(e, t)
    BY <1>1, <2>2 DEF Net
  <2> QED
    BY <1>1, <1>2, <2>2, <2>3, <2>4 DEF Sound
<1>3. CASE ~(e.amountIn < 0 \/ e.amountOut < 0)
  BY <1>1, <1>3 DEF Turned, Sound
<1> QED
  BY <1>2, <1>3

InEvent(e, token, amount) == [e EXCEPT !.tokenIn = token, !.amountIn = amount]

OutEvent(e, token, amount) == [e EXCEPT !.tokenOut = token, !.amountOut = amount]

LEMMA InIs ==
  ASSUME NEW e \in SwapEvent, NEW token \in Tokens, NEW amount \in Int
  PROVE  LET b == InEvent(e, token, amount)
         IN  /\ b \in SwapEvent /\ b.dex = e.dex /\ b.address = e.address
             /\ b.tokenIn = token /\ b.amountIn = amount
             /\ b.tokenOut = e.tokenOut /\ b.amountOut = e.amountOut
<1> DEFINE c == [e EXCEPT !.tokenIn = token]
           b == [c EXCEPT !.amountIn = amount]
<1>1. /\ c \in SwapEvent /\ c.dex = e.dex /\ c.address = e.address /\ c.tokenIn = token
      /\ c.tokenOut = e.tokenOut /\ c.amountOut = e.amountOut
  BY DEF SwapEvent
<1> HIDE DEF c
<1>2. /\ b \in SwapEvent /\ b.dex = c.dex /\ b.address = c.address /\ b.tokenIn = c.tokenIn
      /\ b.tokenOut = c.tokenOut /\ b.amountOut = c.amountOut /\ b.amountIn = amount
  BY <1>1 DEF SwapEvent
<1> QED
  BY <1>1, <1>2 DEF c, InEvent

LEMMA OutIs ==
  ASSUME NEW e \in SwapEvent, NEW token \in Tokens, NEW amount \in Int
  PROVE  LET b == OutEvent(e, token, amount)
         IN  /\ b \in SwapEvent /\ b.dex = e.dex /\ b.address = e.address
             /\ b.tokenOut = token /\ b.amountOut = amount
             /\ b.tokenIn = e.tokenIn /\ b.amountIn = e.amountIn
<1> DEFINE c == [e EXCEPT !.tokenOut = token]
           b == [c EXCEPT !.amountOut = amount]
<1>1. /\ c \in SwapEvent /\ c.dex = e.dex /\ c.address = e.address /\ c.tokenOut = token
      /\ c.tokenIn = e.tokenIn /\ c.amountIn = e.amountIn
  BY DEF SwapEvent
<1> HIDE DEF c
<1>2. /\ b \in SwapEvent /\ b.dex = c.dex /\ b.address = c.address /\ b.tokenOut = c.tokenOut
      /\ b.tokenIn = c.tokenIn /\ b.amountIn = c.amountIn /\ b.amountOut = amount
  BY <1>1 DEF SwapEvent
<1> QED
  BY <1>1, <1>2 DEF c, OutEvent

LEMMA NewEventIs ==
  ASSUME NEW a \in Addresses, NEW token \in Tokens, NEW value \in Values
  PROVE  LET in == InEvent(NewEvent(a), token, value)
             out == OutEvent(NewEvent(a), token, value)
         IN  /\ in \in SwapEvent /\ in.address = a /\ Sound(in)
             /\ out \in SwapEvent /\ out.address = a /\ Sound(out)
             /\ \A t \in Tokens : Net(in, t) = IF t = token THEN value ELSE 0
             /\ \A t \in Tokens : Net(out, t) = IF t = token THEN -value ELSE 0
<1> DEFINE in == InEvent(NewEvent(a), token, value)
           out == OutEvent(NewEvent(a), token, value)
<1>0. value \in Nat \ {0} /\ Unset \notin Tokens
  BY TraceAssumption
<1>1. NewEvent(a) \in SwapEvent
  BY DEF NewEvent, SwapEvent
<1>2. /\ NewEvent(a).address = a /\ NewEvent(a).tokenIn = Unset /\ NewEvent(a).tokenOut = Unset
      /\ NewEvent(a).amountIn = 0 /\ NewEvent(a).amountOut = 0
  BY DEF NewEvent
<1>3. /\ in \in SwapEvent /\ in.address = a /\ in.tokenIn = token /\ in.amountIn = value
      /\ in.tokenOut = Unset /\ in.amountOut = 0
  BY <1>0, <1>1, <1>2, InIs, value \in Int
<1>4. /\ out \in SwapEvent /\ out.address = a /\ out.tokenOut = token /\ out.amountOut = value
      /\ out.tokenIn = Unset /\ out.amountIn = 0
  BY <1>0, <1>1, <1>2, OutIs, value \in Int
<1> HIDE DEF in, out
<1>5. \A t \in Tokens : Net(in, t) = IF t = token THEN value ELSE 0
  BY <1>0, <1>3 DEF Net
<1>6. \A t \in Tokens : Net(out, t) = IF t = token THEN -value ELSE 0
  BY <1>0, <1>4 DEF Net
<1>7. Sound(in) /\ Sound(out)
  BY <1>0, <1>3, <1>4 DEF Sound
<1> QED
  BY <1>3, <1>4, <1>5, <1>6, <1>7 DEF in, out

LEMMA BookedIs ==
  ASSUME NEW e \in SwapEvent, Sound(e), NEW from, NEW to,
         NEW token \in Tokens, NEW value \in Values
  PROVE  LET role == Role(e, from, to, token)
             b == Booked(e, role, token, value)
         IN  /\ b \in SwapEvent /\ Sound(b) /\ b.address = e.address /\ b.dex = e.dex
             /\ role \in {"in", "outBack"} =>
                  /\ e.address = to
                  /\ \A t \in Tokens : Net(b, t) = Net(e, t) + (IF t = token THEN value ELSE 0)
             /\ role \in {"out", "inBack"} =>
                  /\ e.address = from
                  /\ \A t \in Tokens : Net(b, t) = Net(e, t) - (IF t = token THEN value ELSE 0)
             /\ role = "none" => b = e
             /\ role \in {"in", "out", "outBack", "inBack", "none"}
<1> DEFINE role == Role(e, from, to, token)
           b == Booked(e, role, token, value)
<1>0. value \in Nat \ {0} /\ Unset \notin Tokens
  BY TraceAssumption
<1>1. CASE role = "in"
  <2>0. e.amountIn \in Int /\ e.amountOut \in Int
    BY DEF SwapEvent
  <2>1. e.address = to /\ e.tokenIn \in {Unset, token}
    BY <1>1 DEF Role
  <2>2. b = InEvent(e, token, e.amountIn + value)
    BY <1>1 DEF Booked, InEvent
  <2>3. /\ b.tokenIn = token /\ b.amountIn = e.amountIn + value /\ b.tokenOut = e.tokenOut /\ b.amountOut = e.amountOut
        /\ b.address = e.address /\ b.dex = e.dex
    BY <1>0, <2>0, <2>2, InIs, e.amountIn + value \in Int
  <2>4. b \in SwapEvent
    BY <1>0, <2>0, <2>2, InIs, e.amountIn + value \in Int
  <2> HIDE DEF b, role
  <2>5. Sound(b)
    BY <1>0, <2>0, <2>3 DEF Sound
  <2>6. \A t \in Tokens : Net(b, t) = Net(e, t) + (IF t = token THEN value ELSE 0)
    BY <1>0, <2>0, <2>1, <2>3 DEF Net, Sound
  <2> QED
    BY <1>1, <2>1, <2>3, <2>4, <2>5, <2>6 DEF role, b
<1>2. CASE role = "out"
  <2>0. e.amountIn \in Int /\ e.amountOut \in Int
    BY DEF SwapEvent
  <2>1. e.address = from /\ e.tokenOut \in {Unset, token}
    BY <1>2 DEF Role
  <2>2. b = OutEvent(e, token, e.amountOut + value)
    BY <1>2 DEF Booked, OutEvent
  <2>3. /\ b.tokenOut = token /\ b.amountOut = e.amountOut + value /\ b.tokenIn = e.tokenIn /\ b.amountIn = e.amountIn
        /\ b.address = e.address /\ b.dex = e.dex
    BY <1>0, <2>0, <2>2, OutIs, e.amountOut + value \in Int
  <2>4. b \in SwapEvent
    BY <1>0, <2>0, <2>2, OutIs, e.amountOut + value \in Int
  <2> HIDE DEF b, role
  <2>5. Sound(b)
    BY <1>0, <2>0, <2>3 DEF Sound
  <2>6. \A t \in Tokens : Net(b, t) = Net(e, t) - (IF t = token THEN value ELSE 0)
    BY <1>0, <2>0, <2>1, <2>3 DEF Net, Sound
  <2> QED
    BY <1>2, <2>1, <2>3, <2>4, <2>5, <2>6 DEF role, b
<1>3. CASE role = "outBack"
  <2> DEFINE c == [e EXCEPT !.amountOut = @ - value]
  <2>1. e.address = to /\ e.tokenOut = token
    BY <1>3 DEF Role
  <2>2. b = Turned(c)
    BY <1>3 DEF Booked
  <2>3. /\ c \in SwapEvent /\ c.address = e.address /\ c.dex = e.dex
        /\ c.tokenIn = Unset => c.amountIn = 0
        /\ c.tokenOut = Unset => c.amountOut = 0
        /\ \A t \in Tokens : Net(c, t) = Net(e, t) + (IF t = token THEN value ELSE 0)
    BY <1>0, <2>1 DEF SwapEvent, Sound, Net
  <2> HIDE DEF b, role, c
  <2> QED
    BY <1>3, <2>1, <2>2, <2>3, TurnedIs DEF role, b
<1>4. CASE role = "inBack"
  <2> DEFINE c == [e EXCEPT !.amountIn = @ - value]
  <2>1. e.address = from /\ e.tokenIn = token
    BY <1>4 DEF Role
  <2>2. b = Turned(c)
    BY <1>4 DEF Booked
  <2>3. /\ c \in SwapEvent /\ c.address = e.address /\ c.dex = e.dex
        /\ c.tokenIn = Unset => c.amountIn = 0
        /\ c.tokenOut = Unset => c.amountOut = 0
        /\ \A t \in Tokens : Net(c, t) = Net(e, t) - (IF t = token THEN value ELSE 0)
    BY <1>0, <2>1 DEF SwapEvent, Sound, Net
  <2> HIDE DEF b, role, c
  <2> QED
    BY <1>4, <2>1, <2>2, <2>3, TurnedIs DEF role, b
<1>5. CASE role = "none"
  BY <1>5 DEF Booked
<1> QED
  BY <1>1, <1>2, <1>3, <1>4, <1>5 DEF Role

-----------------------------------------------------------------------------
(* All events.                                                             *)

HasRole(es, from, to, token, roles) ==
  \E i \in DOMAIN es : Role(es[i], from, to, token) \in roles

(* A transfer books the events there are and adds at most one for each end. *)
LEMMA WithTransferIs ==
  ASSUME NEW es \in Seq(SwapEvent), \A i \in DOMAIN es : Sound(es[i]),
         NEW from \in Addresses, NEW to \in Addresses,
         NEW token \in Tokens, NEW value \in Values
  PROVE  LET new == WithTransfer(es, from, to, token, value)
             in == InEvent(NewEvent(to), token, value)
             out == OutEvent(NewEvent(from), token, value)
         IN  /\ new \in Seq(SwapEvent) /\ DOMAIN es \subseteq DOMAIN new
             /\ \A i \in DOMAIN es :
                  new[i] = Booked(es[i], Role(es[i], from, to, token), token, value)
             /\ \A i \in DOMAIN new \ DOMAIN es :
                  \/ new[i] = in /\ ~HasRole(es, from, to, token, {"in", "outBack"})
                  \/ new[i] = out /\ ~HasRole(es, from, to, token, {"out", "inBack"})
             /\ ~HasRole(es, from, to, token, {"in", "outBack"}) =>
                  \E i \in DOMAIN new \ DOMAIN es : new[i] = in
             /\ ~HasRole(es, from, to, token, {"out", "inBack"}) =>
                  \E i \in DOMAIN new \ DOMAIN es : new[i] = out
             /\ (/\ ~HasRole(es, from, to, token, {"in", "outBack"})
                 /\ ~HasRole(es, from, to, token, {"out", "inBack"})) =>
                  \E i, j \in DOMAIN new \ DOMAIN es : i # j /\ new[i] = in /\ new[j] = out
<1> DEFINE new == WithTransfer(es, from, to, token, value)
           in == InEvent(NewEvent(to), token, value)
           out == OutEvent(NewEvent(from), token, value)
           booked == [i \in DOMAIN es |->
                        Booked(es[i], Role(es[i], from, to, token), token, value)]
           hasIn == HasRole(es, from, to, token, {"in", "outBack"})
           hasOut == HasRole(es, from, to, token, {"out", "inBack"})
           ins == IF hasIn THEN <<>> ELSE <<in>>
           outs == IF hasOut THEN <<>> ELSE <<out>>
           n == Len(es)
<1>1. new = booked \o ins \o outs
  BY DEF WithTransfer, HasRole, InEvent, OutEvent
<1>2. in \in SwapEvent /\ out \in SwapEvent
  BY NewEventIs
<1>3. \A i \in DOMAIN es : booked[i] \in SwapEvent
  BY BookedIs
<1>4. booked \in Seq(SwapEvent) /\ Len(booked) = n /\ DOMAIN es = 1 .. n /\ n \in Nat
  BY <1>3
<1>5. /\ \A i \in DOMAIN es : booked[i] = Booked(es[i], Role(es[i], from, to, token), token, value)
  OBVIOUS
<1>6. /\ hasIn \in BOOLEAN /\ hasOut \in BOOLEAN
  BY DEF HasRole
<1> HIDE DEF new, in, out, booked, hasIn, hasOut, n
<1>7. /\ ins \in Seq(SwapEvent) /\ Len(ins) = (IF hasIn THEN 0 ELSE 1)
      /\ ~hasIn => ins[1] = in
  BY <1>2, <1>6
<1>8. /\ outs \in Seq(SwapEvent) /\ Len(outs) = (IF hasOut THEN 0 ELSE 1)
      /\ ~hasOut => outs[1] = out
  BY <1>2, <1>6
<1> HIDE DEF ins, outs
<1> DEFINE mid == booked \o ins
<1>9. /\ mid \in Seq(SwapEvent) /\ Len(mid) = n + Len(ins)
      /\ \A i \in 1 .. n : mid[i] = booked[i]
      /\ ~hasIn => mid[n + 1] = in
  BY <1>4, <1>7, ConcatProperties
<1> HIDE DEF mid
<1>10. /\ new \in Seq(SwapEvent) /\ Len(new) = n + Len(ins) + Len(outs)
       /\ \A i \in 1 .. Len(mid) : new[i] = mid[i]
       /\ ~hasOut => new[Len(mid) + 1] = out
  <2>1. new = mid \o outs
    BY <1>1 DEF mid
  <2>2. mid \in Seq(SwapEvent) /\ outs \in Seq(SwapEvent)
    BY <1>8, <1>9
  <2>3. /\ new \in Seq(SwapEvent) /\ Len(new) = Len(mid) + Len(outs)
        /\ \A i \in 1 .. Len(mid) + Len(outs) :
             new[i] = IF i <= Len(mid) THEN mid[i] ELSE outs[i - Len(mid)]
    BY <2>1, <2>2, ConcatProperties
  <2>4. Len(mid) \in Nat /\ Len(outs) \in Nat
    BY <2>2
  <2>5. ~hasOut => new[Len(mid) + 1] = outs[1]
    BY <1>8, <2>3, <2>4
  <2>6. \A i \in 1 .. Len(mid) : new[i] = mid[i]
    BY <2>3, <2>4
  <2> QED
    BY <1>8, <1>9, <2>3, <2>5, <2>6
<1>11. DOMAIN new = 1 .. Len(new)
  BY <1>10
<1>12. \A i \in 1 .. n : new[i] = booked[i]
  BY <1>4, <1>7, <1>9, <1>10
<1>13. ~hasIn => new[n + 1] = in
  BY <1>4, <1>7, <1>9, <1>10
<1>14. ~hasOut => new[n + Len(ins) + 1] = out
  BY <1>9, <1>10
<1>15. \A i \in DOMAIN new \ DOMAIN es : (new[i] = in /\ ~hasIn) \/ (new[i] = out /\ ~hasOut)
  BY <1>4, <1>6, <1>7, <1>8, <1>10, <1>11, <1>13, <1>14
<1>16. /\ ~hasIn => n + 1 \in DOMAIN new \ DOMAIN es
       /\ ~hasOut => n + Len(ins) + 1 \in DOMAIN new \ DOMAIN es
  BY <1>4, <1>6, <1>7, <1>8, <1>10, <1>11
<1>17. (~hasIn /\ ~hasOut) => n + 1 # n + Len(ins) + 1
  BY <1>4, <1>7
<1>18. DOMAIN es \subseteq DOMAIN new
  BY <1>4, <1>7, <1>8, <1>10, <1>11
<1>19. \A i \in DOMAIN es : new[i] = Booked(es[i], Role(es[i], from, to, token), token, value)
  BY <1>4, <1>5, <1>12
<1>20. ~hasIn => \E i \in DOMAIN new \ DOMAIN es : new[i] = in
  BY <1>13, <1>16
<1>21. ~hasOut => \E i \in DOMAIN new \ DOMAIN es : new[i] = out
  BY <1>14, <1>16
<1>22. (~hasIn /\ ~hasOut) =>
         \E i, j \in DOMAIN new \ DOMAIN es : i # j /\ new[i] = in /\ new[j] = out
  BY <1>13, <1>14, <1>16, <1>17
<1>23. new \in Seq(SwapEvent)
  BY <1>10
<1> QED
  BY <1>15, <1>18, <1>19, <1>20, <1>21, <1>22, <1>23 DEF new, in, out, hasIn, hasOut

Of(es, a) == {i \in DOMAIN es : es[i].address = a}

(* What a transfer makes of the events of an address.                  *)
LEMMA AddressAfterTransfer ==
  ASSUME NEW es \in Seq(SwapEvent), \A k \in DOMAIN es : Sound(es[k]),
         NEW from \in Addresses, NEW to \in Addresses,
         NEW token \in Tokens, NEW value \in Values,
         NEW new, new = WithTransfer(es, from, to, token, value),
         NEW a \in Addresses, NEW t \in Tokens, NEW i, Of(new, a) = {i}
  PROVE  LET moved == (IF a = to THEN value ELSE 0) - (IF a = from THEN value ELSE 0)
             change == IF t = token THEN moved ELSE 0
         IN  \/ Of(es, a) = {} /\ Net(new[i], t) = change
             \/ Of(es, a) = {i} /\ Net(new[i], t) = Net(es[i], t) + change
<1> DEFINE in == InEvent(NewEvent(to), token, value)
           out == OutEvent(NewEvent(from), token, value)
           role(k) == Role(es[k], from, to, token)
           hasIn == HasRole(es, from, to, token, {"in", "outBack"})
           hasOut == HasRole(es, from, to, token, {"out", "inBack"})
<1>1. es \in Seq(SwapEvent) /\ \A k \in DOMAIN es : Sound(es[k])
  OBVIOUS
<1>2. /\ DOMAIN es \subseteq DOMAIN new
      /\ \A k \in DOMAIN es : new[k] = Booked(es[k], role(k), token, value)
      /\ \A k \in DOMAIN new \ DOMAIN es : (new[k] = in /\ ~hasIn) \/ (new[k] = out /\ ~hasOut)
      /\ ~hasIn => \E k \in DOMAIN new \ DOMAIN es : new[k] = in
      /\ ~hasOut => \E k \in DOMAIN new \ DOMAIN es : new[k] = out
      /\ (~hasIn /\ ~hasOut) =>
           \E k, l \in DOMAIN new \ DOMAIN es : k # l /\ new[k] = in /\ new[l] = out
  <2>1. DOMAIN es \subseteq DOMAIN new
    BY WithTransferIs
  <2>2. \A k \in DOMAIN es : new[k] = Booked(es[k], role(k), token, value)
    BY WithTransferIs
  <2>3. \A k \in DOMAIN new \ DOMAIN es : (new[k] = in /\ ~hasIn) \/ (new[k] = out /\ ~hasOut)
    <3> DEFINE w == WithTransfer(es, from, to, token, value)
    <3>1. \A k \in DOMAIN w \ DOMAIN es : (w[k] = in /\ ~hasIn) \/ (w[k] = out /\ ~hasOut)
      BY WithTransferIs
    <3>2. new = w
      OBVIOUS
    <3> HIDE DEF w, in, out, hasIn, hasOut
    <3> QED
      BY <3>1, <3>2
  <2>4. ~hasIn => \E k \in DOMAIN new \ DOMAIN es : new[k] = in
    BY WithTransferIs
  <2>5. ~hasOut => \E k \in DOMAIN new \ DOMAIN es : new[k] = out
    BY WithTransferIs
  <2>6. (~hasIn /\ ~hasOut) =>
           \E k, l \in DOMAIN new \ DOMAIN es : k # l /\ new[k] = in /\ new[l] = out
    <3> DEFINE w == WithTransfer(es, from, to, token, value)
    <3>1. (~hasIn /\ ~hasOut) =>
             \E k, l \in DOMAIN w \ DOMAIN es : k # l /\ w[k] = in /\ w[l] = out
      BY WithTransferIs, SMTT(30)
    <3>2. new = w
      OBVIOUS
    <3> HIDE DEF w, in, out, hasIn, hasOut
    <3> QED
      BY <3>1, <3>2
  <2> QED
    BY <2>1, <2>2, <2>3, <2>4, <2>5, <2>6
<1>3. \A k \in DOMAIN es :
        /\ new[k].address = es[k].address
        /\ role(k) \in {"in", "outBack"} =>
             es[k].address = to
             /\ Net(new[k], t) = Net(es[k], t) + (IF t = token THEN value ELSE 0)
        /\ role(k) \in {"out", "inBack"} =>
             es[k].address = from
             /\ Net(new[k], t) = Net(es[k], t) - (IF t = token THEN value ELSE 0)
        /\ role(k) = "none" => new[k] = es[k]
        /\ role(k) \in {"in", "out", "outBack", "inBack", "none"}
        /\ Net(es[k], t) \in Int
  <2> SUFFICES ASSUME NEW k \in DOMAIN es
               PROVE  /\ new[k].address = es[k].address
                      /\ role(k) \in {"in", "outBack"} =>
                           es[k].address = to
                           /\ Net(new[k], t) = Net(es[k], t) + (IF t = token THEN value ELSE 0)
                      /\ role(k) \in {"out", "inBack"} =>
                           es[k].address = from
                           /\ Net(new[k], t) = Net(es[k], t) - (IF t = token THEN value ELSE 0)
                      /\ role(k) = "none" => new[k] = es[k]
                      /\ role(k) \in {"in", "out", "outBack", "inBack", "none"}
                      /\ Net(es[k], t) \in Int
    OBVIOUS
  <2>1. es[k] \in SwapEvent /\ Sound(es[k])
    BY <1>1
  <2>2. Net(es[k], t) \in Int
    BY <2>1 DEF SwapEvent, Net
  <2>3. new[k] = Booked(es[k], role(k), token, value)
    BY <1>2
  <2> QED
    BY <2>1, <2>2, <2>3, BookedIs
<1>4. /\ in.address = to /\ out.address = from
      /\ Net(in, t) = (IF t = token THEN value ELSE 0)
      /\ Net(out, t) = (IF t = token THEN -value ELSE 0)
  BY NewEventIs
<1>5. value \in Nat
  BY TraceAssumption
<1>6. \A k : k \in Of(new, a) <=> k \in DOMAIN new /\ new[k].address = a
  BY DEF Of
<1>7. \A k : k \in Of(es, a) <=> k \in DOMAIN es /\ es[k].address = a
  BY DEF Of
<1>8. hasIn <=> \E k \in DOMAIN es : role(k) \in {"in", "outBack"}
  BY DEF HasRole
<1>9. hasOut <=> \E k \in DOMAIN es : role(k) \in {"out", "inBack"}
  BY DEF HasRole
<1> HIDE DEF in, out, role, hasIn, hasOut
<1>10. Of(es, a) \subseteq {i}
  BY <1>2, <1>3, <1>6, <1>7
<1>11. CASE Of(es, a) = {}
  <2>1. i \in DOMAIN new \ DOMAIN es /\ new[i].address = a
    BY <1>3, <1>6, <1>7, <1>11
  <2>2. (new[i] = in /\ ~hasIn /\ a = to) \/ (new[i] = out /\ ~hasOut /\ a = from)
    BY <1>2, <1>4, <2>1
  <2>3. ~(a = to /\ a = from)
    <3> SUFFICES ASSUME a = to, a = from
                 PROVE  FALSE
      OBVIOUS
    <3>1. ~hasIn /\ ~hasOut
      BY <1>3, <1>7, <1>8, <1>9, <1>11
    <3> QED
      BY <1>2, <1>4, <1>6, <3>1
  <2> QED
    BY <1>4, <1>5, <1>11, <2>2, <2>3
<1>12. CASE Of(es, a) = {i}
  <2>1. i \in DOMAIN es /\ es[i].address = a
    BY <1>7, <1>12
  <2>2. a = to => hasIn
    BY <1>2, <1>4, <1>6, <2>1
  <2>3. a = from => hasOut
    BY <1>2, <1>4, <1>6, <2>1
  <2>4. hasIn /\ a = to => role(i) \in {"in", "outBack"}
    BY <1>3, <1>7, <1>8, <1>12
  <2>5. hasOut /\ a = from => role(i) \in {"out", "inBack"}
    BY <1>3, <1>7, <1>9, <1>12
  <2>6. CASE a = to
    <3>1. role(i) \in {"in", "outBack"} /\ a # from
      BY <2>2, <2>3, <2>4, <2>5, <2>6
    <3>2. Net(new[i], t) = Net(es[i], t) + (IF t = token THEN value ELSE 0)
      BY <1>3, <2>1, <3>1
    <3>3. Net(es[i], t) \in Int
      BY <1>3, <2>1
    <3> HIDE DEF Net
    <3> QED
      BY <1>5, <1>12, <2>6, <3>1, <3>2, <3>3
  <2>7. CASE a = from
    <3>1. role(i) \in {"out", "inBack"} /\ a # to
      BY <2>2, <2>3, <2>4, <2>5, <2>7
    <3>2. Net(new[i], t) = Net(es[i], t) - (IF t = token THEN value ELSE 0)
      BY <1>3, <2>1, <3>1
    <3>3. Net(es[i], t) \in Int
      BY <1>3, <2>1
    <3> QED
      BY <1>5, <1>12, <2>7, <3>1, <3>2, <3>3
  <2>8. CASE a # to /\ a # from
    <3>1. role(i) = "none"
      BY <1>3, <2>1, <2>8
    <3>2. new[i] = es[i] /\ Net(es[i], t) \in Int
      BY <1>3, <2>1, <3>1
    <3> QED
      BY <1>5, <1>12, <2>8, <3>2
  <2> QED
    BY <2>6, <2>7, <2>8
<1> QED
  BY <1>10, <1>11, <1>12

(* Who has no event after a transfer had none and is neither of its ends.  *)
LEMMA NoEventAfterTransfer ==
  ASSUME NEW es \in Seq(SwapEvent), \A k \in DOMAIN es : Sound(es[k]),
         NEW from \in Addresses, NEW to \in Addresses,
         NEW token \in Tokens, NEW value \in Values,
         NEW new, new = WithTransfer(es, from, to, token, value),
         NEW a \in Addresses, Of(new, a) = {}
  PROVE  Of(es, a) = {} /\ a # from /\ a # to
<1> DEFINE in == InEvent(NewEvent(to), token, value)
           out == OutEvent(NewEvent(from), token, value)
           role(k) == Role(es[k], from, to, token)
           hasIn == HasRole(es, from, to, token, {"in", "outBack"})
           hasOut == HasRole(es, from, to, token, {"out", "inBack"})
<1>1. DOMAIN es \subseteq DOMAIN new
  BY WithTransferIs
<1>2. \A k \in DOMAIN es : new[k] = Booked(es[k], role(k), token, value)
  BY WithTransferIs
<1>3. ~hasIn => \E k \in DOMAIN new \ DOMAIN es : new[k] = in
  BY WithTransferIs
<1>4. ~hasOut => \E k \in DOMAIN new \ DOMAIN es : new[k] = out
  BY WithTransferIs
<1>5. \A k \in DOMAIN es :
        /\ new[k].address = es[k].address
        /\ role(k) \in {"in", "outBack"} => es[k].address = to
        /\ role(k) \in {"out", "inBack"} => es[k].address = from
  <2> SUFFICES ASSUME NEW k \in DOMAIN es
               PROVE  /\ new[k].address = es[k].address
                      /\ role(k) \in {"in", "outBack"} => es[k].address = to
                      /\ role(k) \in {"out", "inBack"} => es[k].address = from
    OBVIOUS
  <2>1. es[k] \in SwapEvent /\ Sound(es[k])
    OBVIOUS
  <2>2. new[k] = Booked(es[k], role(k), token, value)
    BY <1>2
  <2> QED
    BY <2>1, <2>2, BookedIs
<1>6. in.address = to /\ out.address = from
  BY NewEventIs
<1>7. \A k \in DOMAIN new : new[k].address # a
  BY DEF Of
<1>8. hasIn => \E k \in DOMAIN es : role(k) \in {"in", "outBack"}
  BY DEF HasRole
<1>9. hasOut => \E k \in DOMAIN es : role(k) \in {"out", "inBack"}
  BY DEF HasRole
<1> HIDE DEF in, out, role, hasIn, hasOut
<1>10. a # to
  BY <1>1, <1>3, <1>5, <1>6, <1>7, <1>8
<1>11. a # from
  BY <1>1, <1>4, <1>5, <1>6, <1>7, <1>9
<1>12. Of(es, a) = {}
  BY <1>1, <1>5, <1>7 DEF Of
<1> QED
  BY <1>10, <1>11, <1>12

(* The new events are sound, too.                                          *)
LEMMA SoundAfterTransfer ==
  ASSUME NEW es \in Seq(SwapEvent), \A k \in DOMAIN es : Sound(es[k]),
         NEW from \in Addresses, NEW to \in Addresses,
         NEW token \in Tokens, NEW value \in Values,
         NEW new, new = WithTransfer(es, from, to, token, value)
  PROVE  new \in Seq(SwapEvent) /\ \A k \in DOMAIN new : Sound(new[k])
<1> DEFINE in == InEvent(NewEvent(to), token, value)
           out == OutEvent(NewEvent(from), token, value)
           role(k) == Role(es[k], from, to, token)
<1>1. new \in Seq(SwapEvent)
  BY WithTransferIs
<1>2. \A k \in DOMAIN es : new[k] = Booked(es[k], role(k), token, value)
  BY WithTransferIs
<1>3. \A k \in DOMAIN new \ DOMAIN es : new[k] = in \/ new[k] = out
  BY WithTransferIs
<1>4. Sound(in) /\ Sound(out)
  BY NewEventIs
<1>5. \A k \in DOMAIN es : Sound(new[k])
  BY <1>2, BookedIs
<1> HIDE DEF in, out
<1> QED
  BY <1>1, <1>3, <1>4, <1>5

(* What both kinds of transfer do to the events.                           *)
AsBooked(from, to, token, value) ==
  /\ events' \in Seq(SwapEvent) /\ \A i \in DOMAIN events' : Sound(events'[i])
  /\ \A a \in Addresses : EventsOf(a)' = {} => EventsOf(a) = {} /\ a # from /\ a # to
  /\ \A a \in Addresses, t \in Tokens, i \in DOMAIN events' :
       EventsOf(a)' = {i} =>
         LET moved == (IF a = to THEN value ELSE 0) - (IF a = from THEN value ELSE 0)
             change == IF t = token THEN moved ELSE 0
         IN  \/ EventsOf(a) = {} /\ Net(events'[i], t) = change
             \/ EventsOf(a) = {i} /\ Net(events'[i], t) = Net(events[i], t) + change

LEMMA TransferBooked ==
  ASSUME TraceInv,
         NEW from \in Addresses, NEW to \in Addresses,
         NEW token \in Tokens, NEW value \in Values,
         events' = WithTransfer(events, from, to, token, value)
  PROVE  AsBooked(from, to, token, value)
<1>1. events \in Seq(SwapEvent) /\ \A k \in DOMAIN events : Sound(events[k])
  BY DEF TraceInv, TraceTypeOK
<1>2. \A a : EventsOf(a) = Of(events, a) /\ EventsOf(a)' = Of(events', a)
  BY DEF EventsOf, Of
<1>3. events' \in Seq(SwapEvent) /\ \A i \in DOMAIN events' : Sound(events'[i])
  BY <1>1, SoundAfterTransfer
<1>4. \A a \in Addresses : Of(events', a) = {} => Of(events, a) = {} /\ a # from /\ a # to
  BY <1>1, NoEventAfterTransfer
<1>5. \A a \in Addresses, t \in Tokens, i \in DOMAIN events' :
        Of(events', a) = {i} =>
          LET moved == (IF a = to THEN value ELSE 0) - (IF a = from THEN value ELSE 0)
              change == IF t = token THEN moved ELSE 0
          IN  \/ Of(events, a) = {} /\ Net(events'[i], t) = change
              \/ Of(events, a) = {i} /\ Net(events'[i], t) = Net(events[i], t) + change
  BY <1>1, AddressAfterTransfer
<1> QED
  BY <1>2, <1>3, <1>4, <1>5 DEF AsBooked

-----------------------------------------------------------------------------
(* The steps.                                                              *)

LEMMA HopsAreAddresses ==
  ASSUME NEW hop \in Hops
  PROVE  hop[1] \in Addresses /\ hop[2] \in Addresses
BY TraceAssumption

Marked(e, dex) == [e EXCEPT !.dex = dex]

(* Marking the events of a pool as a dex's moves nothing.                  *)
LEMMA SwapKeepsBooks ==
  ASSUME TraceInv, NEW dex \in Dexes, NEW pool \in Pools, SwapCall(dex, pool)
  PROVE  TraceInv'
<1>0. pool \in Addresses /\ Unset \notin Tokens /\ MaxCalls \in Nat
  BY TraceAssumption
<1>1. /\ events \in Seq(SwapEvent) /\ \A k \in DOMAIN events : Sound(events[k])
      /\ FlowIsBooked /\ flow' = flow /\ faked' = faked
      /\ events' = WithSwap(events, dex, pool)
      /\ calls \in 0 .. MaxCalls /\ calls < MaxCalls /\ calls' = calls + 1
      /\ flow \in [Addresses -> [Tokens -> Int]] /\ faked \subseteq Addresses
  BY DEF TraceInv, TraceTypeOK, SwapCall, Visit
<1>2. \A e \in SwapEvent : LET d == Marked(e, dex)
                           IN  /\ d \in SwapEvent /\ d.address = e.address
                               /\ d.tokenIn = e.tokenIn /\ d.tokenOut = e.tokenOut
                               /\ d.amountIn = e.amountIn /\ d.amountOut = e.amountOut
  BY DEF SwapEvent, Marked
<1>3. \A e \in SwapEvent : LET d == Marked(e, dex)
                           IN  /\ Sound(d) <=> Sound(e)
                               /\ \A t \in Tokens : Net(d, t) = Net(e, t)
  BY <1>2 DEF Sound, Net
<1>4. calls' \in 0 .. MaxCalls
  BY <1>0, <1>1
<1>5. CASE \E i \in DOMAIN events : events[i].address = pool
  <2>1. events' = [i \in DOMAIN events |-> IF events[i].address = pool
                                           THEN Marked(events[i], dex) ELSE events[i]]
    BY <1>1, <1>5 DEF WithSwap, Marked
  <2>2. DOMAIN events' = DOMAIN events
    BY <2>1
  <2>3. \A i \in DOMAIN events : /\ events[i] \in SwapEvent
                                 /\ events'[i] = events[i] \/ events'[i] = Marked(events[i], dex)
    BY <1>1, <2>1
  <2>4. \A i \in DOMAIN events :
           /\ events'[i] \in SwapEvent /\ events'[i].address = events[i].address
           /\ Sound(events'[i])
           /\ \A t \in Tokens : Net(events'[i], t) = Net(events[i], t)
    BY <1>1, <1>2, <1>3, <2>3
  <2>5. events' \in Seq(SwapEvent)
    BY <1>1, <2>1, <2>2, <2>4
  <2>6. \A a : EventsOf(a)' = EventsOf(a)
    BY <2>2, <2>4 DEF EventsOf
  <2>7. FlowIsBooked'
    <3>1. \A a, i : i \in EventsOf(a) => i \in DOMAIN events
      BY DEF EventsOf
    <3> SUFFICES ASSUME NEW a \in Addresses \ faked, NEW t \in Tokens
                 PROVE  /\ EventsOf(a)' = {} => flow[a][t] = 0
                        /\ \A i \in EventsOf(a)' : EventsOf(a)' = {i} => Net(events'[i], t) = flow[a][t]
      BY <1>1 DEF FlowIsBooked
    <3>2. /\ EventsOf(a) = {} => flow[a][t] = 0
          /\ \A i \in EventsOf(a) : EventsOf(a) = {i} => Net(events[i], t) = flow[a][t]
      BY <1>1 DEF FlowIsBooked
    <3>3. \A i \in EventsOf(a) : Net(events'[i], t) = Net(events[i], t)
      BY <2>4, <3>1
    <3>4. EventsOf(a)' = EventsOf(a)
      BY <2>6
    <3> QED
      BY <3>2, <3>3, <3>4
  <2> QED
    BY <1>1, <1>4, <2>2, <2>4, <2>5, <2>7 DEF TraceInv, TraceTypeOK
<1>6. CASE ~\E i \in DOMAIN events : events[i].address = pool
  <2> DEFINE n == Len(events)
             new == Marked(NewEvent(pool), dex)
  <2>1. events' = Append(events, new)
    BY <1>1, <1>6 DEF WithSwap, Marked
  <2>2. NewEvent(pool) \in SwapEvent
    BY <1>0 DEF NewEvent, SwapEvent
  <2>3. /\ NewEvent(pool).address = pool /\ NewEvent(pool).tokenIn = Unset
        /\ NewEvent(pool).tokenOut = Unset
        /\ NewEvent(pool).amountIn = 0 /\ NewEvent(pool).amountOut = 0
    BY DEF NewEvent
  <2>4. /\ new \in SwapEvent /\ new.address = pool /\ new.tokenIn = Unset
        /\ new.tokenOut = Unset /\ new.amountIn = 0 /\ new.amountOut = 0
    BY <1>2, <2>2, <2>3
  <2> HIDE DEF new
  <2>5. Sound(new) /\ \A t \in Tokens : Net(new, t) = 0
    BY <1>0, <2>4 DEF Sound, Net
  <2>6. /\ events' \in Seq(SwapEvent) /\ DOMAIN events = 1 .. n /\ n \in Nat
        /\ DOMAIN events' = 1 .. n + 1
        /\ events'[n + 1] = new
        /\ \A i \in DOMAIN events : events'[i] = events[i]
    BY <1>1, <2>1, <2>4
  <2> HIDE DEF n
  <2>7. DOMAIN events' = DOMAIN events \union {n + 1} /\ n + 1 \notin DOMAIN events
    BY <2>6
  <2>8. \A i \in DOMAIN events' : Sound(events'[i])
    BY <1>1, <2>5, <2>6, <2>7
  <2>9. EventsOf(pool) = {} /\ EventsOf(pool)' = {n + 1}
    BY <1>6, <2>4, <2>6, <2>7 DEF EventsOf
  <2>10. \A a : a # pool => EventsOf(a)' = EventsOf(a)
    BY <2>4, <2>6, <2>7 DEF EventsOf
  <2>11. FlowIsBooked'
    <3> SUFFICES ASSUME NEW a \in Addresses \ faked, NEW t \in Tokens
                 PROVE  /\ EventsOf(a)' = {} => flow[a][t] = 0
                        /\ \A i \in EventsOf(a)' : EventsOf(a)' = {i} => Net(events'[i], t) = flow[a][t]
      BY <1>1 DEF FlowIsBooked
    <3>1. CASE a = pool
      BY <1>1, <2>5, <2>6, <2>9, <3>1 DEF FlowIsBooked
    <3>2. CASE a # pool
      <4>1. \A i \in EventsOf(a) : events'[i] = events[i]
        BY <2>6 DEF EventsOf
      <4>2. /\ EventsOf(a) = {} => flow[a][t] = 0
            /\ \A i \in EventsOf(a) : EventsOf(a) = {i} => Net(events[i], t) = flow[a][t]
        BY <1>1 DEF FlowIsBooked
      <4>3. EventsOf(a)' = EventsOf(a)
        BY <2>10, <3>2
      <4> QED
        BY <4>1, <4>2, <4>3
    <3> QED
      BY <3>1, <3>2
  <2> QED
    BY <1>1, <1>4, <2>6, <2>8, <2>11 DEF TraceInv, TraceTypeOK
<1> QED
  BY <1>5, <1>6

LEMMA TransferKeepsBooks ==
  ASSUME TraceInv, NEW from \in Addresses, NEW to \in Addresses,
         NEW token \in Tokens, NEW value \in Values,
         TransferCall(from, to, token, value)
  PROVE  TraceInv'
<1>0. value \in Nat /\ MaxCalls \in Nat
  BY TraceAssumption
<1>1. /\ FlowIsBooked /\ faked' = faked
      /\ events' = WithTransfer(events, from, to, token, value)
      /\ calls \in 0 .. MaxCalls /\ calls < MaxCalls /\ calls' = calls + 1
      /\ flow \in [Addresses -> [Tokens -> Int]] /\ faked \subseteq Addresses
      /\ flow' = [a \in Addresses |->
                    [flow[a] EXCEPT ![token] = @ + (IF a = to THEN value ELSE 0)
                                                 - (IF a = from THEN value ELSE 0)]]
  BY DEF TraceInv, TraceTypeOK, TransferCall, Visit
<1> DEFINE change(a, t) ==
             IF t = token
             THEN (IF a = to THEN value ELSE 0) - (IF a = from THEN value ELSE 0)
             ELSE 0
<1>2. \A a \in Addresses, t \in Tokens :
        flow[a][t] \in Int /\ change(a, t) \in Int /\ flow'[a][t] = flow[a][t] + change(a, t)
  BY <1>0, <1>1
<1>3. flow' \in [Addresses -> [Tokens -> Int]]
  BY <1>0, <1>1
<1>4. /\ events' \in Seq(SwapEvent) /\ \A i \in DOMAIN events' : Sound(events'[i])
      /\ \A a \in Addresses : EventsOf(a)' = {} => EventsOf(a) = {} /\ a # from /\ a # to
      /\ \A a \in Addresses, t \in Tokens, i \in DOMAIN events' :
           EventsOf(a)' = {i} =>
             \/ EventsOf(a) = {} /\ Net(events'[i], t) = change(a, t)
             \/ EventsOf(a) = {i} /\ Net(events'[i], t) = Net(events[i], t) + change(a, t)
  <2>1. AsBooked(from, to, token, value)
    BY <1>1, TransferBooked
  <2> QED
    BY <2>1 DEF AsBooked
<1>5. FlowIsBooked'
  <2> SUFFICES ASSUME NEW a \in Addresses \ faked, NEW t \in Tokens
               PROVE  /\ EventsOf(a)' = {} => flow'[a][t] = 0
                      /\ \A i \in EventsOf(a)' :
                           EventsOf(a)' = {i} => Net(events'[i], t) = flow'[a][t]
    BY <1>1 DEF FlowIsBooked
  <2>1. ASSUME EventsOf(a)' = {} PROVE flow'[a][t] = 0
    <3>1. EventsOf(a) = {} /\ a # from /\ a # to
      BY <1>4, <2>1
    <3>2. flow[a][t] = 0
      BY <1>1, <3>1 DEF FlowIsBooked
    <3>3. change(a, t) = 0
      BY <3>1
    <3> HIDE DEF change
    <3> QED
      BY <1>2, <3>2, <3>3
  <2>2. ASSUME NEW i \in EventsOf(a)', EventsOf(a)' = {i}
        PROVE  Net(events'[i], t) = flow'[a][t]
    <3>1. i \in DOMAIN events'
      BY DEF EventsOf
    <3>2. /\ EventsOf(a) = {} => flow[a][t] = 0
          /\ EventsOf(a) = {i} => Net(events[i], t) = flow[a][t]
      BY <1>1 DEF FlowIsBooked
    <3> HIDE DEF change
    <3> QED
      BY <1>2, <1>4, <2>2, <3>1, <3>2
  <2> QED
    BY <2>1, <2>2
<1>6. calls' \in 0 .. MaxCalls
  BY <1>0, <1>1
<1> QED
  BY <1>1, <1>3, <1>4, <1>5, <1>6 DEF TraceInv, TraceTypeOK

LEMMA RevertedTransferKeepsBooks ==
  ASSUME TraceInv, NEW from \in Addresses, NEW to \in Addresses,
         NEW token \in Tokens, NEW value \in Values,
         RevertedTransferCall(from, to, token, value)
  PROVE  TraceInv'
<1>0. value \in Nat /\ MaxCalls \in Nat
  BY TraceAssumption
<1>1. /\ FlowIsBooked /\ faked' = faked \union {from, to} /\ flow' = flow
      /\ events' = WithTransfer(events, from, to, token, value)
      /\ calls \in 0 .. MaxCalls /\ calls < MaxCalls /\ calls' = calls + 1
      /\ flow \in [Addresses -> [Tokens -> Int]] /\ faked \subseteq Addresses
  BY DEF TraceInv, TraceTypeOK, RevertedTransferCall, Visit
<1>2. /\ events' \in Seq(SwapEvent) /\ \A i \in DOMAIN events' : Sound(events'[i])
      /\ \A a \in Addresses : EventsOf(a)' = {} => EventsOf(a) = {}
      /\ \A a \in Addresses, t \in Tokens, i \in DOMAIN events' :
           (EventsOf(a)' = {i} /\ a # from /\ a # to) =>
             \/ EventsOf(a) = {} /\ Net(events'[i], t) = 0
             \/ EventsOf(a) = {i} /\ Net(events'[i], t) = Net(events[i], t) + 0
  <2>1. AsBooked(from, to, token, value)
    BY <1>1, TransferBooked
  <2> QED
    BY <1>0, <2>1 DEF AsBooked
<1>3. FlowIsBooked'
  <2> SUFFICES ASSUME NEW a \in Addresses \ faked', NEW t \in Tokens
               PROVE  /\ EventsOf(a)' = {} => flow[a][t] = 0
                      /\ \A i \in EventsOf(a)' :
                           EventsOf(a)' = {i} => Net(events'[i], t) = flow[a][t]
    BY <1>1 DEF FlowIsBooked
  <2>0. a \in Addresses \ faked /\ a # from /\ a # to /\ flow[a][t] \in Int
    BY <1>1
  <2>1. ASSUME EventsOf(a)' = {} PROVE flow[a][t] = 0
    BY <1>1, <1>2, <2>0, <2>1 DEF FlowIsBooked
  <2>2. ASSUME NEW i \in EventsOf(a)', EventsOf(a)' = {i}
        PROVE  Net(events'[i], t) = flow[a][t]
    <3>1. i \in DOMAIN events'
      BY DEF EventsOf
    <3>2. /\ EventsOf(a) = {} => flow[a][t] = 0
          /\ EventsOf(a) = {i} => Net(events[i], t) = flow[a][t]
      BY <1>1, <2>0 DEF FlowIsBooked
    <3>3. \/ EventsOf(a) = {} /\ Net(events'[i], t) = 0
          \/ EventsOf(a) = {i} /\ Net(events'[i], t) = Net(events[i], t) + 0
      BY <1>2, <2>0, <2>2, <3>1
    <3> QED
      BY <2>0, <3>2, <3>3
  <2> QED
    BY <2>1, <2>2
<1>4. calls' \in 0 .. MaxCalls
  BY <1>0, <1>1
<1> QED
  BY <1>1, <1>2, <1>3, <1>4 DEF TraceInv, TraceTypeOK

LEMMA TraceInvInductive == TraceInv /\ [TraceNext]_traceVars => TraceInv'
<1> SUFFICES ASSUME TraceInv, [TraceNext]_traceVars
             PROVE  TraceInv'
  OBVIOUS
<1>1. ASSUME NEW dex \in Dexes, NEW pool \in Pools, SwapCall(dex, pool)
      PROVE  TraceInv'
  BY <1>1, SwapKeepsBooks
<1>2. ASSUME NEW hop \in Hops, NEW token \in Tokens, NEW value \in Values,
             TransferCall(hop[1], hop[2], token, value)
      PROVE  TraceInv'
  BY <1>2, HopsAreAddresses, TransferKeepsBooks
<1>3. ASSUME NEW hop \in Hops, NEW token \in Tokens, NEW value \in Values,
             RevertedTransferCall(hop[1], hop[2], token, value)
      PROVE  TraceInv'
  BY <1>3, HopsAreAddresses, RevertedTransferKeepsBooks
<1>4. CASE UNCHANGED traceVars
  BY <1>4 DEF TraceInv, TraceTypeOK, traceVars, FlowIsBooked, EventsOf
<1> QED
  BY <1>1, <1>2, <1>3, <1>4 DEF TraceNext

LEMMA TraceInvFirst == TraceInit => TraceInv
BY TraceAssumption DEF TraceInit, TraceInv, TraceTypeOK, FlowIsBooked, EventsOf

(***************************************************************************)
(* The events keep their types: set_transfer_event never leaves an amount  *)
(* or a token that is none.                                                *)
(***************************************************************************)
THEOREM TraceTypesHold == TraceSpec => []TraceTypeOK
<1>1. TraceInv => TraceTypeOK
  BY DEF TraceInv
<1> QED
  BY <1>1, TraceInvFirst, TraceInvInductive, PTL DEF TraceSpec

(***************************************************************************)
(* However many calls a trace has, whoever has one event was moved exactly *)
(* what it says: set_transfer_event and swap_in_out_if_minus lose nothing. *)
(***************************************************************************)
THEOREM OneEventIsWhatMoved == TraceSpec => []OneEventIsTheFlow
<1>1. TraceInv => OneEventIsTheFlow
  BY DEF TraceInv, FlowIsBooked, OneEventIsTheFlow
<1> QED
  BY <1>1, TraceInvFirst, TraceInvInductive, PTL DEF TraceSpec

-----------------------------------------------------------------------------
(* What is reported.                                                       *)

LessThan == {pair \in Nat \X Nat : pair[1] < pair[2]}

(* Induction over the numbers, for sets of them: the library's theorem,    *)
(* which takes an operator, is out of the provers' reach.                  *)
LEMMA Induction ==
  ASSUME NEW S \in SUBSET Nat, 0 \in S, \A n \in S : n + 1 \in S
  PROVE  S = Nat
<1>1. IsWellFoundedOn(LessThan, Nat)
  BY NatLessThanWellFounded DEF OpToRel, LessThan
<1> SUFFICES ASSUME Nat \ S # {}
             PROVE  FALSE
  OBVIOUS
<1>2. PICK m \in Nat \ S : \A k \in Nat \ S : <<k, m>> \notin LessThan
  BY <1>1, WFMin, Zenon
<1>3. m # 0 /\ m - 1 \in Nat
  BY <1>2
<1>4. m - 1 \in S
  <2>1. <<m - 1, m>> \in LessThan
    BY <1>2, <1>3 DEF LessThan
  <2> QED
    BY <1>2, <1>3, <2>1
<1> QED
  BY <1>2, <1>3, <1>4

Counts(e, dex) == e.dex = dex /\ IsValid(e) /\ ~TooSmall(e)

(* f[k] are those of the first k events that are valid swaps of a dex.     *)
Keeps(f, es, dex, n) ==
  f = [k \in 0 .. n |->
         IF k = 0 THEN <<>>
         ELSE IF Counts(es[k], dex) THEN Append(f[k - 1], es[k])
         ELSE f[k - 1]]

(* Whatever is a valid swap is kept, and nothing is kept that is no event. *)
Complete(kept, es, dex, n) ==
  /\ kept \in Seq(SwapEvent)
  /\ \A k \in 1 .. n : Counts(es[k], dex) => \E j \in DOMAIN kept : kept[j] = es[k]

LEMMA KeepsExists ==
  ASSUME NEW es \in Seq(SwapEvent), NEW dex
  PROVE  \A n \in Nat : \E f : Keeps(f, es, dex, n)
<1> DEFINE S == {n \in Nat : \E f : Keeps(f, es, dex, n)}
<1>1. 0 \in S
  <2>1. Keeps([k \in 0 .. 0 |-> <<>>], es, dex, 0)
    BY DEF Keeps
  <2> QED
    BY <2>1
<1>2. ASSUME NEW n \in S
      PROVE  n + 1 \in S
  <2>1. PICK f : Keeps(f, es, dex, n)
    OBVIOUS
  <2> DEFINE last == IF Counts(es[n + 1], dex) THEN Append(f[n], es[n + 1]) ELSE f[n]
             g == [k \in 0 .. n + 1 |-> IF k = n + 1 THEN last ELSE f[k]]
  <2>2. Keeps(g, es, dex, n + 1)
    <3>1. \A k \in 0 .. n + 1 :
            g[k] = IF k = 0 THEN <<>>
                   ELSE IF Counts(es[k], dex) THEN Append(g[k - 1], es[k])
                   ELSE g[k - 1]
      <4> SUFFICES ASSUME NEW k \in 0 .. n + 1
                   PROVE  g[k] = IF k = 0 THEN <<>>
                                 ELSE IF Counts(es[k], dex) THEN Append(g[k - 1], es[k])
                                 ELSE g[k - 1]
        OBVIOUS
      <4>1. CASE k = n + 1
        <5>1. g[k] = last /\ g[k - 1] = f[n] /\ k # 0
          BY <4>1
        <5> HIDE DEF g
        <5> QED
          BY <4>1, <5>1
      <4>2. CASE k = 0
        BY <2>1, <4>2 DEF Keeps
      <4>3. CASE k # n + 1 /\ k # 0
        <5>1. g[k] = f[k] /\ g[k - 1] = f[k - 1] /\ k \in 0 .. n
          BY <4>3
        <5> HIDE DEF g
        <5> QED
          BY <2>1, <4>3, <5>1 DEF Keeps
      <4> QED
        BY <4>1, <4>2, <4>3
    <3>2. g = [k \in 0 .. n + 1 |-> g[k]]
      OBVIOUS
    <3> HIDE DEF g
    <3> QED
      BY <3>1, <3>2 DEF Keeps
  <2> QED
    BY <2>2
<1> HIDE DEF S
<1>3. S = Nat
  BY <1>1, <1>2, Induction DEF S
<1> QED
  BY <1>3 DEF S

LEMMA KeepsIsComplete ==
  ASSUME NEW es \in Seq(SwapEvent), NEW dex, NEW f, Keeps(f, es, dex, Len(es))
  PROVE  Complete(f[Len(es)], es, dex, Len(es))
<1> DEFINE N == Len(es)
           S == {n \in Nat : n <= N => Complete(f[n], es, dex, n)}
<1>0. N \in Nat /\ \A k \in 1 .. N : es[k] \in SwapEvent
  OBVIOUS
<1> HIDE DEF N
<1>1. \A k \in 1 .. N : f[k] = IF Counts(es[k], dex) THEN Append(f[k - 1], es[k]) ELSE f[k - 1]
  <2>1. \A k \in 0 .. N : f[k] = IF k = 0 THEN <<>>
                               ELSE IF Counts(es[k], dex) THEN Append(f[k - 1], es[k])
                               ELSE f[k - 1]
    BY DEF Keeps, N
  <2> QED
    BY <1>0, <2>1
<1>2. 0 \in S
  <2>1. f[0] = <<>>
    BY <1>0 DEF Keeps, N
  <2>2. Complete(<<>>, es, dex, 0)
    BY DEF Complete
  <2> QED
    BY <2>1, <2>2
<1>3. ASSUME NEW n \in S
      PROVE  n + 1 \in S
  <2> SUFFICES ASSUME n + 1 <= N
               PROVE  Complete(f[n + 1], es, dex, n + 1)
    OBVIOUS
  <2>1. Complete(f[n], es, dex, n) /\ n + 1 \in 1 .. N /\ n + 1 - 1 = n
    BY <1>0
  <2>2. f[n + 1] = IF Counts(es[n + 1], dex) THEN Append(f[n], es[n + 1]) ELSE f[n]
    BY <1>1, <2>1
  <2> DEFINE old == f[n]
             new == f[n + 1]
             e == es[n + 1]
  <2>3. old \in Seq(SwapEvent) /\ e \in SwapEvent
    BY <1>0, <2>1 DEF Complete
  <2>4. CASE Counts(e, dex)
    <3>1. new = Append(old, e)
      BY <2>2, <2>4
    <3> HIDE DEF old, new, e
    <3>2. new \in Seq(SwapEvent) /\ new[Len(old) + 1] = e /\ Len(old) + 1 \in DOMAIN new
      BY <2>3, <3>1
    <3>3. \A j \in DOMAIN old : j \in DOMAIN new /\ new[j] = old[j]
      BY <2>3, <3>1
    <3>4. \A k \in 1 .. n + 1 : k \in 1 .. n \/ k = n + 1
      OBVIOUS
    <3>5. \A k \in 1 .. n : Counts(es[k], dex) => \E j \in DOMAIN new : new[j] = es[k]
      BY <2>1, <3>3 DEF Complete, old
    <3>6. \E j \in DOMAIN new : new[j] = es[n + 1]
      BY <3>2 DEF e
    <3> QED
      BY <3>2, <3>4, <3>5, <3>6 DEF Complete, new
  <2>5. CASE ~Counts(e, dex)
    <3>1. new = old
      BY <2>2, <2>5
    <3>2. \A k \in 1 .. n + 1 : k \in 1 .. n \/ k = n + 1
      OBVIOUS
    <3> HIDE DEF old, new
    <3> QED
      BY <2>1, <2>5, <3>1, <3>2 DEF Complete, old, new
  <2> QED
    BY <2>4, <2>5
<1> HIDE DEF S
<1>4. S = Nat
  BY <1>2, <1>3, Induction DEF S
<1> QED
  BY <1>0, <1>4 DEF S, N

LEMMA SwapsOfIsComplete ==
  ASSUME events \in Seq(SwapEvent), NEW dex
  PROVE  Complete(SwapsOf(dex, Len(events)), events, dex, Len(events))
<1> DEFINE n == Len(events)
           kept == CHOOSE f : Keeps(f, events, dex, n)
<1>1. n \in Nat
  OBVIOUS
<1>2. \E f : Keeps(f, events, dex, n)
  BY <1>1, KeepsExists
<1>3. Keeps(kept, events, dex, n)
  BY <1>2
<1>4. SwapsOf(dex, n) = kept[n]
  BY DEF SwapsOf, Keeps, Counts
<1> QED
  BY <1>3, <1>4, KeepsIsComplete

(* Every valid event is among the reported ones.                           *)
LEMMA ReportedIsComplete ==
  ASSUME events \in Seq(SwapEvent), NEW i \in DOMAIN events,
         events[i].dex \in Dexes, IsValid(events[i]), ~TooSmall(events[i])
  PROVE  \E j \in DOMAIN Reported : Reported[j] = events[i]
<1> DEFINE a == SwapsOf("UNISWAP_V2", Len(events))
           b == SwapsOf("UNISWAP_V3", Len(events))
           c == SwapsOf("BAKERYSWAP", Len(events))
           e == events[i]
<1>1. Reported = (a \o b) \o c
  BY DEF Reported
<1>2. /\ Complete(a, events, "UNISWAP_V2", Len(events))
      /\ Complete(b, events, "UNISWAP_V3", Len(events))
      /\ Complete(c, events, "BAKERYSWAP", Len(events))
  BY SwapsOfIsComplete
<1>3. a \in Seq(SwapEvent) /\ b \in Seq(SwapEvent) /\ c \in Seq(SwapEvent)
  BY <1>2 DEF Complete
<1>4. i \in 1 .. Len(events)
  OBVIOUS
<1>5. Counts(e, e.dex) /\ e.dex \in {"UNISWAP_V2", "UNISWAP_V3", "BAKERYSWAP"}
  BY DEF Counts, Dexes
<1>6. \/ \E j \in DOMAIN a : a[j] = e
      \/ \E j \in DOMAIN b : b[j] = e
      \/ \E j \in DOMAIN c : c[j] = e
  BY <1>2, <1>4, <1>5 DEF Complete
<1> HIDE DEF a, b, c, e
<1>7. /\ a \o b \in Seq(SwapEvent) /\ Len(a \o b) = Len(a) + Len(b)
      /\ \A j \in DOMAIN a : j \in DOMAIN (a \o b) /\ (a \o b)[j] = a[j]
      /\ \A j \in DOMAIN b : Len(a) + j \in DOMAIN (a \o b) /\ (a \o b)[Len(a) + j] = b[j]
  BY <1>3, ConcatProperties
<1> DEFINE ab == a \o b
           all == ab \o c
<1> HIDE DEF ab
<1>8. /\ \A j \in DOMAIN ab : j \in DOMAIN all /\ all[j] = ab[j]
      /\ \A j \in DOMAIN c : Len(ab) + j \in DOMAIN all /\ all[Len(ab) + j] = c[j]
  BY <1>3, <1>7, ConcatProperties DEF ab
<1> HIDE DEF all
<1>9. \E j \in DOMAIN all : all[j] = e
  BY <1>6, <1>7, <1>8 DEF ab
<1> QED
  BY <1>1, <1>9 DEF ab, all, e

(* An event with the flow of a swap is that swap, not turned round.        *)
LEMMA SwapIsBooked ==
  ASSUME NEW e \in SwapEvent, Sound(e), NEW f \in [Tokens -> Int],
         \A t \in Tokens : Net(e, t) = f[t],
         NEW in \in Tokens, NEW out \in Tokens, f[in] > 0, f[out] < 0
  PROVE  /\ e.tokenIn = in /\ e.amountIn = f[in]
         /\ e.tokenOut = out /\ e.amountOut = -f[out]
<1>1. e.amountIn \in Int /\ e.amountOut \in Int /\ f[in] \in Int /\ f[out] \in Int /\ in # out
  BY DEF SwapEvent
<1>2. /\ f[in] = (IF e.tokenIn = in THEN e.amountIn ELSE 0)
                   - (IF e.tokenOut = in THEN e.amountOut ELSE 0)
      /\ f[out] = (IF e.tokenIn = out THEN e.amountIn ELSE 0)
                   - (IF e.tokenOut = out THEN e.amountOut ELSE 0)
  BY DEF Net
<1>3. e.amountIn >= 0 \/ e.amountOut >= 0
  BY DEF Sound
<1> QED
  BY <1>1, <1>2, <1>3

(***************************************************************************)
(* Every pool with one event that took one token for another is reported   *)
(* with what it took and gave, however many events the trace has: neither  *)
(* set_transfer_event nor filter_swap_events loses it.                     *)
(***************************************************************************)
THEOREM NoSwapIsMissed == TraceSpec => []SwapsAreReported
<1>1. TraceInv => SwapsAreReported
  <2> SUFFICES ASSUME TraceInv,
                      NEW p \in Pools \ faked, NEW in \in Tokens, NEW out \in Tokens,
                      NEW i \in EventsOf(p), EventsOf(p) = {i}, events[i].dex # Unset,
                      Swapped(p, in, out), in = Native => flow[p][in] >= MinNative
               PROVE  \E j \in DOMAIN Reported :
                        /\ Reported[j].address = p
                        /\ Reported[j].tokenIn = in /\ Reported[j].amountIn = flow[p][in]
                        /\ Reported[j].tokenOut = out /\ Reported[j].amountOut = -flow[p][out]
    BY DEF SwapsAreReported
  <2> DEFINE e == events[i]
             f == flow[p]
  <2>0. p \in Addresses \ faked /\ Unset \notin Tokens
    BY TraceAssumption
  <2>1. /\ events \in Seq(SwapEvent) /\ i \in DOMAIN events /\ e.address = p
        /\ e \in SwapEvent /\ Sound(e) /\ e.dex \in Dexes
    <3>1. events \in Seq(SwapEvent) /\ i \in DOMAIN events /\ e.address = p
      BY DEF TraceInv, TraceTypeOK, EventsOf
    <3>2. e \in SwapEvent /\ Sound(e)
      BY <3>1 DEF TraceInv
    <3> QED
      BY <3>1, <3>2 DEF SwapEvent
  <2>2. f \in [Tokens -> Int] /\ \A t \in Tokens : Net(e, t) = f[t]
    BY <2>0 DEF TraceInv, TraceTypeOK, FlowIsBooked
  <2>3. f[in] > 0 /\ f[out] < 0
    BY DEF Swapped
  <2>4. /\ e.tokenIn = in /\ e.amountIn = f[in]
        /\ e.tokenOut = out /\ e.amountOut = -f[out]
    BY <2>1, <2>2, <2>3, SwapIsBooked
  <2>5. f[in] \in Int /\ f[out] \in Int /\ MinNative \in Nat
    BY <2>2, TraceAssumption
  <2>6. IsValid(e) /\ ~TooSmall(e)
    <3>1. e.dex # Unset /\ e.tokenIn # Unset /\ e.tokenOut # Unset
      BY <2>0, <2>4
    <3>2. e.amountIn > 0 /\ e.amountOut > 0
      BY <2>3, <2>4, <2>5
    <3>3. e.tokenIn = Native => ~(e.amountIn < MinNative)
      BY <2>4, <2>5
    <3> QED
      BY <3>1, <3>2, <3>3 DEF IsValid, TooSmall
  <2>7. PICK j \in DOMAIN Reported : Reported[j] = e
    BY <2>1, <2>6, ReportedIsComplete
  <2> QED
    BY <2>1, <2>4, <2>7
<1> QED
  BY <1>1, TraceInvFirst, TraceInvInductive, PTL DEF TraceSpec
=============================================================================
