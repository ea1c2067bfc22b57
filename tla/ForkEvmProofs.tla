---------------------------- MODULE ForkEvmProofs ----------------------------
(***************************************************************************)
(* Theorems about ForkEvm, for every set of effects, every deployment and  *)
(* every length of the journal.                                            *)
(***************************************************************************)
EXTENDS ForkEvm, FiniteSetTheorems, SequenceTheorems, TLAPS

(***************************************************************************)
(* RevertRestores is not inductive.  It holds because the checkpoint stays *)
(* where EVM.set put it, with the deployment alone beneath it and nothing  *)
(* of the deployment above it, and because no revert finds depth 0.        *)
(***************************************************************************)
EvmInv ==
  /\ EvmTypeOK
  /\ depth > 0
  /\ snapshot = 1 /\ snapshot \in checkpoints
  /\ Len(journal) >= 2
  /\ journal[1] = Deployment
  /\ \A i \in 2 .. Len(journal) : journal[i] \intersect Deployment = {}
  /\ state = UNION {journal[i] : i \in 1 .. Len(journal)}

LEMMA EvmInvInit == EvmInit => EvmInv
<1> SUFFICES ASSUME EvmInit PROVE EvmInv
  OBVIOUS
<1>1. EvmTypeOK
  BY ForkAssumption DEF EvmInit, EvmTypeOK
<1>2. Len(journal) = 2 /\ journal[1] = Deployment /\ journal[2] = {}
  BY DEF EvmInit
<1>3. state = UNION {journal[i] : i \in 1 .. Len(journal)}
  BY <1>2 DEF EvmInit
<1> QED
  BY <1>1, <1>2, <1>3 DEF EvmInit, EvmInv

(* What a level more on the journal changes.                               *)
LEMMA LevelAdded ==
  ASSUME EvmTypeOK, NEW e \in Effects, journal' = Append(journal, {e})
  PROVE  /\ journal' \in Seq(SUBSET Effects)
         /\ Len(journal') = Len(journal) + 1
         /\ \A i \in 1 .. Len(journal) : journal'[i] = journal[i]
         /\ journal'[Len(journal) + 1] = {e}
         /\ UNION {journal'[i] : i \in 1 .. Len(journal')}
              = (UNION {journal[i] : i \in 1 .. Len(journal)}) \union {e}
<1>0. journal \in Seq(SUBSET Effects) /\ {e} \in SUBSET Effects
  BY DEF EvmTypeOK
<1>1. /\ journal' \in Seq(SUBSET Effects)
      /\ Len(journal') = Len(journal) + 1 /\ Len(journal) \in Nat
      /\ \A i \in 1 .. Len(journal) : journal'[i] = journal[i]
      /\ journal'[Len(journal) + 1] = {e}
  <2>1. journal' \in Seq(SUBSET Effects) /\ Len(journal) \in Nat
    BY <1>0
  <2>2. Len(journal') = Len(journal) + 1
    BY <1>0
  <2>3. \A i \in 1 .. Len(journal) : journal'[i] = journal[i]
    BY <1>0
  <2>4. journal'[Len(journal) + 1] = {e}
    BY <1>0
  <2> QED
    BY <2>1, <2>2, <2>3, <2>4
<1>2. \A i \in 1 .. Len(journal') : i \in 1 .. Len(journal) \/ i = Len(journal) + 1
  BY <1>1
<1>3. 1 .. Len(journal) \subseteq 1 .. Len(journal')
  BY <1>1
<1>4. Len(journal) + 1 \in 1 .. Len(journal')
  BY <1>1
<1> QED
  BY <1>1, <1>2, <1>3, <1>4

(* A call, complete or torn, that does nothing of what the deployment did. *)
LEMMA PerformInv ==
  ASSUME EvmInv, NEW e \in Effects \ Deployment,
         journal' = Append(journal, {e}), state' = state \union {e},
         depth' \in {depth, depth + 1}, commitCount' \in Nat,
         UNCHANGED <<checkpoints, snapshot>>
  PROVE  EvmInv'
<1>1. EvmTypeOK /\ Len(journal) \in Nat
  BY DEF EvmInv, EvmTypeOK
<1>2. \A i \in 2 .. Len(journal') :
         i \in 2 .. Len(journal) \/ (i = Len(journal) + 1 /\ journal'[i] = {e})
  BY <1>1, LevelAdded
<1>3. \A i \in 2 .. Len(journal') : journal'[i] \intersect Deployment = {}
  BY <1>1, <1>2, LevelAdded DEF EvmInv
<1>4. state' = UNION {journal'[i] : i \in 1 .. Len(journal')}
  BY <1>1, LevelAdded DEF EvmInv
<1>5. EvmTypeOK'
  BY <1>1, LevelAdded DEF EvmTypeOK
<1>6. depth' > 0 /\ snapshot' = 1 /\ snapshot' \in checkpoints'
  BY <1>1 DEF EvmInv, EvmTypeOK
<1>7. Len(journal') >= 2 /\ journal'[1] = Deployment
  <2>1. Len(journal) >= 2 /\ 1 \in 1 .. Len(journal)
    BY <1>1 DEF EvmInv
  <2> QED
    BY <1>1, <2>1, LevelAdded DEF EvmInv
<1> QED
  BY <1>3, <1>4, <1>5, <1>6, <1>7 DEF EvmInv

(* What revert leaves: the journal and the state as EVM.set made them.     *)
LEMMA RevertToSnapshotResult ==
  ASSUME EvmInv, RevertToSnapshot
  PROVE  /\ state' = Deployment
         /\ Len(journal') = 2 /\ journal'[1] = Deployment /\ journal'[2] = {}
         /\ depth' = depth
         /\ EvmInv'
<1> DEFINE n == Len(journal)
<1>1. n \in Nat /\ n >= 2 /\ journal \in Seq(SUBSET Effects) /\ Deployment \subseteq Effects
  BY ForkAssumption DEF EvmInv, EvmTypeOK
<1>2. Undone = 2 .. n
  BY DEF Undone, EvmInv, EvmTypeOK
<1>3. Cardinality(Undone) = n - 1
  BY <1>1, <1>2, FS_Interval
<1>4. Kept = SubSeq(journal, 1, 1)
  BY <1>1, <1>3 DEF Kept
<1>5. Len(Kept) = 1 /\ Kept = <<Deployment>>
  <2>1. Kept \in Seq(SUBSET Effects) /\ Len(Kept) = 1 /\ Kept[1] = journal[1]
    BY <1>1, <1>4
  <2>2. <<Deployment>> \in Seq(SUBSET Effects) /\ Len(<<Deployment>>) = 1
    BY <1>1
  <2>3. Kept = <<Deployment>>
    BY <2>1, <2>2, SeqEqual DEF EvmInv
  <2> QED
    BY <2>1, <2>3
<1>6. /\ journal' \in Seq(SUBSET Effects)
      /\ Len(journal') = 2 /\ journal'[1] = Deployment /\ journal'[2] = {}
  <2>1. <<Deployment>> \in Seq(SUBSET Effects) /\ {} \in SUBSET Effects
    BY <1>1
  <2>2. journal' = Append(<<Deployment>>, {})
    BY <1>5 DEF RevertToSnapshot
  <2> QED
    BY <2>1, <2>2
<1>7. state' = Deployment
  <2>1. state' = (UNION {journal[i] : i \in 1 .. n}) \ (UNION {journal[i] : i \in 2 .. n})
    BY <1>2 DEF RevertToSnapshot, EvmInv
  <2>2. \A i \in 1 .. n : i = 1 \/ i \in 2 .. n
    BY <1>1
  <2>3. 1 \in 1 .. n
    BY <1>1
  <2> QED
    BY <2>1, <2>2, <2>3 DEF EvmInv
<1>8. EvmInv'
  <2>1. /\ snapshot' = 1 /\ depth' = depth /\ commitCount' = 0
        /\ checkpoints' = (checkpoints \ {snapshot}) \union {1}
    BY <1>5 DEF RevertToSnapshot, NewDepth, EvmInv
  <2>2. EvmTypeOK'
    BY <1>1, <1>6, <1>7, <2>1 DEF EvmInv, EvmTypeOK
  <2>3. state' = UNION {journal'[i] : i \in 1 .. Len(journal')}
    BY <1>6, <1>7
  <2> QED
    BY <1>6, <2>1, <2>2, <2>3 DEF EvmInv
<1> QED
  BY <1>6, <1>7, <1>8 DEF RevertToSnapshot, NewDepth, EvmInv

-----------------------------------------------------------------------------
(* The fork under any client.                                              *)

(* What a client of the fork can rely on.                                  *)
LEMMA RevertInv ==
  ASSUME EvmInv, Revert
  PROVE  /\ EvmInv'
         /\ commitCount' = 0
         /\ depth' = depth
         /\ commitCount > 0 => state' = Deployment
         /\ commitCount = 0 => state' = state
<1>1. CASE commitCount > 0
  <2>1. RevertToSnapshot
    BY <1>1 DEF Revert
  <2> QED
    BY <1>1, <2>1, RevertToSnapshotResult DEF RevertToSnapshot
<1>2. CASE commitCount = 0
  <2>1. UNCHANGED evmVars
    BY <1>2 DEF Revert
  <2> QED
    BY <1>2, <2>1 DEF evmVars, EvmInv, EvmTypeOK
<1> QED
  BY <1>1, <1>2 DEF EvmInv, EvmTypeOK

LEMMA UnchangedFork ==
  ASSUME EvmInv, UNCHANGED evmVars
  PROVE  EvmInv'
BY DEF evmVars, EvmInv, EvmTypeOK

(* Every step keeps the invariant.                                         *)
LEMMA EvmInvNext == EvmInv /\ [EvmNext]_evmVars => EvmInv'
<1> SUFFICES ASSUME EvmInv, [EvmNext]_evmVars PROVE EvmInv'
  OBVIOUS
<1>1. EvmTypeOK /\ Deployment \subseteq state
  BY DEF EvmInv, EvmTypeOK
<1>2. ASSUME NEW e \in Effects \ state, CountedCall(e) \/ UncountedCall(e) \/ TornCall(e)
      PROVE EvmInv'
  <2>1. e \in Effects \ Deployment
    BY <1>1
  <2>2. /\ journal' = Append(journal, {e}) /\ state' = state \union {e}
        /\ UNCHANGED <<checkpoints, snapshot>>
    BY <1>2 DEF CountedCall, UncountedCall, TornCall, Perform
  <2>3. depth' \in {depth, depth + 1} /\ commitCount' \in Nat
    BY <1>1, <1>2 DEF CountedCall, UncountedCall, TornCall, Perform, CountIncreased, EvmTypeOK
  <2> QED
    BY <2>1, <2>2, <2>3, PerformInv
<1>3. CASE RevertToSnapshot
  BY <1>3, RevertToSnapshotResult
<1>4. CASE UNCHANGED evmVars
  BY <1>4 DEF evmVars, EvmInv, EvmTypeOK
<1> QED
  BY <1>2, <1>3, <1>4 DEF EvmNext, Revert

LEMMA EvmInvariant == EvmSpec => []EvmInv
  BY EvmInvInit, EvmInvNext, PTL DEF EvmSpec

(* The fork's variables keep their types.                                  *)
THEOREM ForkTypeCorrect == EvmSpec => []EvmTypeOK
<1>1. EvmInv => EvmTypeOK
  BY DEF EvmInv
<1> QED
  BY <1>1, EvmInvariant, PTL

(* EVM.revert always finds its checkpoint, at a depth it can come down     *)
(* from: torn calls included.                                              *)
THEOREM CheckpointIsAlive == EvmSpec => []CheckpointAlive
<1>1. EvmInv => CheckpointAlive
  BY DEF EvmInv, EvmTypeOK, CheckpointAlive
<1> QED
  BY <1>1, EvmInvariant, PTL

(* EVM.revert, once a call has been counted, brings back what EVM.set made, *)
(* for any calls, as many as there may be.                                 *)
THEOREM RevertGoesBack == EvmSpec => RevertRestores
<1>1. EvmInv /\ [EvmNext]_evmVars
        => [commitCount > 0 /\ commitCount' = 0 => state' = Deployment]_evmVars
  <2> SUFFICES ASSUME EvmInv, [EvmNext]_evmVars, commitCount > 0, commitCount' = 0
               PROVE  state' = Deployment
    OBVIOUS
  <2>1. commitCount \in Nat
    BY DEF EvmInv, EvmTypeOK
  <2>2. ASSUME NEW e \in Effects \ state,
               CountedCall(e) \/ UncountedCall(e) \/ TornCall(e)
        PROVE FALSE
    BY <2>1, <2>2 DEF CountedCall, UncountedCall, TornCall, CountIncreased
  <2>3. CASE RevertToSnapshot
    BY <2>3, RevertToSnapshotResult
  <2>4. CASE UNCHANGED evmVars
    BY <2>4 DEF evmVars
  <2> QED
    BY <2>2, <2>3, <2>4 DEF EvmNext, Revert
<1> QED
  BY <1>1, EvmInvariant, PTL DEF EvmSpec, RevertRestores

(***************************************************************************)
(* No effect is in two levels: new calls do what the state does not show.  *)
(***************************************************************************)
LevelsDisjoint ==
  \A i, j \in 1 .. Len(journal) : journal[i] \intersect journal[j] # {} => i = j

LEMMA LevelsDisjointNext ==
  EvmInv /\ LevelsDisjoint /\ [EvmNext]_evmVars => LevelsDisjoint'
<1> SUFFICES ASSUME EvmInv, LevelsDisjoint, [EvmNext]_evmVars PROVE LevelsDisjoint'
  OBVIOUS
<1>1. EvmTypeOK /\ Len(journal) \in Nat
  BY DEF EvmInv, EvmTypeOK
<1>2. ASSUME NEW e \in Effects \ state, journal' = Append(journal, {e})
      PROVE LevelsDisjoint'
  <2> DEFINE n == Len(journal)
  <2>1. /\ Len(journal') = n + 1 /\ journal'[n + 1] = {e}
        /\ \A i \in 1 .. n : journal'[i] = journal[i] /\ e \notin journal'[i]
    BY <1>1, <1>2, LevelAdded DEF EvmInv
  <2>2. \A i \in 1 .. Len(journal') : i \in 1 .. n \/ i = n + 1
    BY <1>1, <2>1
  <2> QED
    BY <2>1, <2>2 DEF LevelsDisjoint
<1>3. CASE RevertToSnapshot
  <2>1. Len(journal') = 2 /\ journal'[2] = {}
    BY <1>3, RevertToSnapshotResult
  <2>2. \A i \in 1 .. Len(journal') : i = 1 \/ i = 2
    BY <2>1
  <2> QED
    BY <2>1, <2>2 DEF LevelsDisjoint
<1>4. CASE UNCHANGED evmVars
  BY <1>4 DEF evmVars, LevelsDisjoint
<1> QED
  BY <1>2, <1>3, <1>4 DEF EvmNext, CountedCall, UncountedCall, TornCall, Perform, Revert

(* The journal accounts for the whole state, each effect in one level.     *)
THEOREM JournalIsSound == EvmSpec => []JournalSound
<1>1. EvmInit => LevelsDisjoint
  <2> SUFFICES ASSUME EvmInit PROVE LevelsDisjoint
    OBVIOUS
  <2>1. Len(journal) = 2 /\ journal[2] = {}
    BY DEF EvmInit
  <2>2. \A i \in 1 .. Len(journal) : i = 1 \/ i = 2
    BY <2>1
  <2> QED
    BY <2>1, <2>2 DEF LevelsDisjoint
<1>2. EvmInv /\ LevelsDisjoint => JournalSound
  BY DEF EvmInv, LevelsDisjoint, JournalSound
<1> QED
  BY <1>1, <1>2, LevelsDisjointNext, EvmInvariant, PTL DEF EvmSpec
=============================================================================
