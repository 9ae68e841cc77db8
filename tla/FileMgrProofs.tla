---------------------------- MODULE FileMgrProofs ----------------------------
(***************************************************************************)
(* Proofs about FileMgr for every set of chunks, pages, values, limits and *)
(* bounds.                                                                 *)
(***************************************************************************)
EXTENDS FileMgr, TLAPS

(***************************************************************************)
(* The floor of the epoch file.  What makes it monotonic: the epoch that a *)
(* checkpoint writes out has a floor between that of the epoch file and    *)
(* its own ceiling, at every point of a checkpoint.                        *)
(***************************************************************************)
EpochPairs == [floor : Nat, ceiling : Nat]

FloorInv ==
  /\ epochFile \in EpochPairs
  /\ epoch \in EpochPairs
  /\ maxRollbackEpochs \in Int
  /\ epochFile.floor <= epochFile.ceiling
  /\ pc # "down" => epochFile.floor <= epoch.floor /\ epoch.floor <= epoch.ceiling

\* Rolling off raises the floor, and not above the epoch being checkpointed.
LEMMA RollOffFloorBounds ==
  ASSUME NEW e \in Nat, NEW floor \in Nat, NEW limit \in Int, floor <= e
  PROVE  /\ rollOffFloor(e, floor, limit) \in Nat
         /\ floor <= rollOffFloor(e, floor, limit)
         /\ rollOffFloor(e, floor, limit) <= e
<1>1. CASE limit >= 0
  <2> DEFINE S == {e - limit, floor}
  <2>1. PICK x \in S : \A y \in S : x >= y
    OBVIOUS
  <2>2. Max(S) \in S /\ \A y \in S : Max(S) >= y
    BY <2>1 DEF Max
  <2>3. rollOffFloor(e, floor, limit) = Max(S)
    BY <1>1 DEF rollOffFloor
  <2> QED BY <2>2, <2>3, <1>1
<1>2. CASE ~(limit >= 0)
  BY <1>2 DEF rollOffFloor
<1> QED BY <1>1, <1>2

\* A new table starts with an empty history (createEpochFile).
LEMMA FloorInvInit == Init => FloorInv
BY SizesAssumption DEF Init, FloorInv, EpochPairs

\* No operation, crash or reopening breaks the order of the floors and ceilings.
LEMMA FloorInvNext == FloorInv /\ [Next]_vars => FloorInv'
<1> SUFFICES ASSUME FloorInv, [Next]_vars PROVE FloorInv'
  OBVIOUS
<1> USE DEF FloorInv, EpochPairs
<1>1. ASSUME NEW c \in Chunks, NEW n \in 1 .. MaxSize, NEW v \in Vals, append(c, n, v)
      PROVE FloorInv'
  BY <1>1 DEF append
<1>2. ASSUME NEW c \in Chunks, NEW k \in 1 .. MaxSize, NEW v \in Vals,
             putBufferUpdated(c, k, v)
      PROVE FloorInv'
  BY <1>2 DEF putBufferUpdated
<1>3. ASSUME NEW c \in Chunks, NEW n \in 1 .. MaxSize, putBufferVacuumed(c, n)
      PROVE FloorInv'
  BY <1>3 DEF putBufferVacuumed
<1>4. ASSUME NEW c \in Chunks, dropColumn(c) PROVE FloorInv'
  BY <1>4 DEF dropColumn, deleteBuffers
<1>5. ASSUME NEW c \in Chunks, dropFragments(c) PROVE FloorInv'
  BY <1>5 DEF dropFragments, deleteBuffers
<1>6. CASE checkpoint
  <2>1. pc # "down" /\ pc' # "down"
    BY <1>6 DEF checkpoint
  <2>2. /\ epoch' = [epoch EXCEPT !.floor =
                       rollOffFloor(epoch.ceiling, epoch.floor, maxRollbackEpochs)]
        /\ UNCHANGED <<epochFile, maxRollbackEpochs>>
    BY <1>6 DEF checkpoint
  <2> QED BY <2>1, <2>2, RollOffFloorBounds
<1>7. CASE syncFilesToDisk
  BY <1>7 DEF syncFilesToDisk
<1>8. CASE writeAndSyncEpochToDisk
  BY <1>8 DEF writeAndSyncEpochToDisk
<1>9. CASE closeFileMgr
  BY <1>9 DEF closeFileMgr, Forget
<1>10. CASE crash
  BY <1>10 DEF crash, Forget
<1>11. ASSUME NEW e \in -1 .. epochFile.ceiling + EpochsAhead, NEW limit \in RollbackLimits,
              init(e, limit)
       PROVE FloorInv'
  <2> DEFINE at == IF e = -1 THEN epochFile.ceiling ELSE e
             min == rollOffFloor(at, epochFile.floor, limit)
  <2>1. /\ e # -1 => e >= epochFile.floor
        /\ epochFile' = setEpoch(at)
        /\ maxRollbackEpochs' = limit
        /\ IF min > epochFile.floor
           THEN epoch' = [floor |-> min, ceiling |-> at]
           ELSE epoch' = [floor |-> epochFile.floor, ceiling |-> at + 1]
    BY <1>11 DEF init
  <2>2. at \in Nat /\ epochFile.floor <= at /\ limit \in Int
    BY <2>1, SizesAssumption
  <2>3. min \in Nat /\ epochFile.floor <= min /\ min <= at
    BY <2>2, RollOffFloorBounds
  <2> HIDE DEF at, min
  <2> QED BY <2>1, <2>2, <2>3 DEF setEpoch
<1>12. CASE UNCHANGED vars
  BY <1>12 DEF vars
<1> QED BY <1>1, <1>2, <1>3, <1>4, <1>5, <1>6, <1>7, <1>8, <1>9, <1>10, <1>11, <1>12 DEF Next

\* The floor of the epoch file never goes down (rollOffOldData, setEpoch and
\* resetEpochFloor): history once given up is not offered again.
THEOREM FloorMonotonic == Spec => FloorNeverLowered
<1>1. Init => FloorInv
  BY FloorInvInit
<1>2. FloorInv /\ [Next]_vars => FloorInv'
  BY FloorInvNext
<1>3. FloorInv /\ [Next]_vars => [epochFile'.floor >= epochFile.floor]_vars
  <2> SUFFICES ASSUME FloorInv, Next PROVE epochFile'.floor >= epochFile.floor
    BY DEF vars
  <2> USE DEF FloorInv, EpochPairs
  <2>1. CASE writeAndSyncEpochToDisk
    BY <2>1 DEF writeAndSyncEpochToDisk
  <2>2. ASSUME NEW e \in -1 .. epochFile.ceiling + EpochsAhead,
               NEW limit \in RollbackLimits, init(e, limit)
        PROVE epochFile'.floor >= epochFile.floor
    BY <2>2 DEF init, setEpoch
  <2>3. ASSUME NEW c \in Chunks, dropColumn(c) \/ dropFragments(c)
        PROVE UNCHANGED epochFile
    BY <2>3 DEF dropColumn, dropFragments, deleteBuffers
  <2>4. ASSUME NEW c \in Chunks, NEW n \in 1 .. MaxSize, NEW v \in Vals,
               append(c, n, v) \/ putBufferUpdated(c, n, v) \/ putBufferVacuumed(c, n)
        PROVE UNCHANGED epochFile
    BY <2>4 DEF append, putBufferUpdated, putBufferVacuumed
  <2>5. ASSUME NEW c \in Chunks, NEW n \in 1 .. MaxSize, putBufferVacuumed(c, n)
        PROVE UNCHANGED epochFile
    BY <2>5 DEF putBufferVacuumed
  <2>6. checkpoint \/ syncFilesToDisk \/ closeFileMgr \/ crash => UNCHANGED epochFile
    BY DEF checkpoint, syncFilesToDisk, closeFileMgr, crash, Forget
  <2>7. UNCHANGED epochFile => epochFile'.floor >= epochFile.floor
    OBVIOUS
  <2> QED BY <2>1, <2>2, <2>3, <2>4, <2>5, <2>6, <2>7 DEF Next
<1> QED BY <1>1, <1>2, <1>3, PTL DEF Spec, FloorNeverLowered
=============================================================================
