---------------------------- MODULE RefreshLockProofs ----------------------------
(***************************************************************************)
(* Proofs about RefreshLock, for any number of threads and mishaps: the    *)
(* queue file is torn only if two threads were under the lock at once.     *)
(***************************************************************************)
EXTENDS RefreshLock, FiniteSetTheorems, TLAPS

\* One thread at most is under the lock; only it has the temporary file open,
\* nobody has the queue file open, and what it has validated stays whole or is
\* cleaned up.
Undisturbed ==
    /\ \A r, s \in Runner : pc[r] \in Critical /\ pc[s] \in Critical => r = s
    /\ \A r \in Runner : open[r] = "tmp" => pc[r] = "writeTmp"
    /\ \A r \in Runner : open[r] # "queue"
    /\ \A r \in Runner : pc[r] = "replace" => tmp # "torn"
    /\ queue # "torn"

LockInv == TypeOK /\ (~overlap => Undisturbed)

LEMMA LockInitInv == Init => LockInv
<1> SUFFICES ASSUME Init PROVE LockInv
  OBVIOUS
<1>1. TypeOK
  <2>1. 0 \in 0..MaxMishaps
    BY MaxMishapsAssumption
  <2>2. open \in [Runner -> {"none", "lock", "tmp", "queue"}] /\ pc \in [Runner -> RunStep]
    BY DEF Init, RunStep
  <2>3. QED
    BY <2>1, <2>2 DEF Init, TypeOK
<1>2. QED
  BY <1>1 DEF Init, LockInv, Undisturbed, Critical

\* A set of at most one thread.
LEMMA OneAtMost ==
    ASSUME NEW S \in SUBSET Runner, Cardinality(S) <= 1, NEW r \in S, NEW s \in S
    PROVE  r = s
<1>1. IsFiniteSet(S) /\ Cardinality(S) \in Nat
  BY RunnerAssumption, FS_Subset, FS_CardinalityType
<1>2. Cardinality(S) = 1
  BY <1>1, FS_EmptySet
<1>3. PICK q : S = {q}
  BY <1>1, <1>2, FS_Singleton
<1>4. QED
  BY <1>3

LEMMA OneInside ==
    ASSUME MutualExclusion'
    PROVE  \A r, s \in Runner : pc'[r] \in Critical /\ pc'[s] \in Critical => r = s
<1> DEFINE inside == {q \in Runner : pc'[q] \in Critical}
<1>1. Cardinality(inside) <= 1
  BY DEF MutualExclusion
<1> HIDE DEF inside
<1>2. \A r, s \in inside : r = s
  <2>1. inside \in SUBSET Runner
    BY DEF inside
  <2>2. QED
    BY <1>1, <2>1, OneAtMost
<1>3. QED
  BY <1>2 DEF inside

\* The steps of a thread before it has the lock, and the pace of time.
LEMMA OutsideType ==
    ASSUME TypeOK, NEW r \in Runner,
           CleanTmp(r) \/ CleanLock(r) \/ CleanUnlink(r) \/ Check(r) \/ UnlinkLock(r)
             \/ OpenLock(r) \/ WriteLock(r),
           overlap' \in BOOLEAN
    PROVE  TypeOK'
BY DEF TypeOK, CleanTmp, CleanLock, CleanUnlink, Check, UnlinkLock, OpenLock, WriteLock,
       Remove, Goto, Unlinked, RunStep, Critical, files

LEMMA InsideType ==
    ASSUME TypeOK, NEW r \in Runner,
           Prepare(r) \/ OpenTmp(r) \/ WriteTmp(r) \/ Validate(r) \/ Replace(r) \/ DropTmp(r) \/ Release(r),
           overlap' \in BOOLEAN
    PROVE  TypeOK'
<1>1. CASE Prepare(r) \/ OpenTmp(r) \/ Validate(r) \/ Release(r)
  BY <1>1 DEF TypeOK, Prepare, OpenTmp, Validate, Release, Goto, Unlinked, RunStep, Critical, files
<1>2. CASE WriteTmp(r)
  BY <1>2 DEF TypeOK, WriteTmp, Written, Goto, RunStep, Critical
<1>3. CASE Replace(r)
  BY <1>3 DEF TypeOK, Replace, Goto, Renamed, Unlinked, RunStep, Critical, files
<1>4. CASE DropTmp(r)
  BY <1>4 DEF TypeOK, DropTmp, Goto, Unlinked, RunStep, Critical
<1>5. QED
  BY <1>1, <1>2, <1>3, <1>4

\* A thread without the lock disturbs the one that has it by removing its
\* temporary file at most.
LEMMA OutsideStep ==
    ASSUME TypeOK, Undisturbed, MutualExclusion', NEW r \in Runner,
           CleanTmp(r) \/ CleanLock(r) \/ CleanUnlink(r) \/ Check(r) \/ UnlinkLock(r)
             \/ OpenLock(r) \/ WriteLock(r)
    PROVE  Undisturbed'
<1>1. queue' = queue /\ tmp' \in {tmp, "absent"}
  BY DEF CleanTmp, CleanLock, CleanUnlink, Check, UnlinkLock, OpenLock, WriteLock, Remove, files
<1>2. /\ \A q \in Runner \ {r} : pc'[q] = pc[q]
      /\ pc[r] # "writeTmp" /\ pc'[r] \notin {"writeTmp", "replace"}
  BY DEF CleanTmp, CleanLock, CleanUnlink, Check, UnlinkLock, OpenLock, WriteLock, Remove,
         Goto, TypeOK
<1>3. \A q \in Runner : open'[q] \in {open[q], "none", "lock"}
  BY DEF CleanTmp, CleanLock, CleanUnlink, Check, UnlinkLock, OpenLock, WriteLock, Remove,
         Unlinked, TypeOK, files
<1>4. QED
  BY <1>1, <1>2, <1>3, OneInside DEF Undisturbed

LEMMA InsideStep ==
    ASSUME TypeOK, Undisturbed, MutualExclusion', NEW r \in Runner,
           Prepare(r) \/ OpenTmp(r) \/ WriteTmp(r) \/ Validate(r) \/ Replace(r) \/ DropTmp(r) \/ Release(r)
    PROVE  Undisturbed'
<1>1. /\ pc[r] \in Critical
      /\ \A q \in Runner \ {r} : pc'[q] = pc[q] /\ pc[q] \notin Critical
  BY DEF Prepare, OpenTmp, WriteTmp, Validate, Replace, DropTmp, Release, Goto, TypeOK,
         Critical, Undisturbed
<1>2. \A q \in Runner \ {r} : /\ pc[q] \notin {"writeTmp", "replace"}
                              /\ open[q] \notin {"tmp", "queue"}
  BY <1>1 DEF Critical, Undisturbed
<1>3. CASE Prepare(r) \/ OpenTmp(r)
  BY <1>1, <1>2, <1>3, OneInside DEF Prepare, OpenTmp, Goto, TypeOK, Undisturbed, files
<1>4. CASE WriteTmp(r)
  BY <1>1, <1>2, <1>4, OneInside DEF WriteTmp, Goto, TypeOK, Undisturbed
<1>5. CASE Validate(r)
  BY <1>1, <1>2, <1>5, OneInside DEF Validate, Goto, TypeOK, Undisturbed, files
<1>6. CASE Replace(r)
  <2>1. open[r] \notin {"tmp", "queue"} /\ tmp # "torn"
    BY <1>6 DEF Replace, Undisturbed
  <2>2. \A q \in Runner : open'[q] \notin {"tmp", "queue"}
    BY <1>2, <1>6, <2>1 DEF Replace, Renamed, Unlinked, TypeOK, files
  <2>3. queue' # "torn" /\ pc'[r] # "replace"
    BY <1>6, <2>1 DEF Replace, Undisturbed, Goto, TypeOK, files
  <2>4. QED
    BY <1>1, <1>2, <2>2, <2>3, OneInside DEF Undisturbed
<1>7. CASE DropTmp(r) \/ Release(r)
  <2>1. queue' = queue /\ pc'[r] # "replace"
    BY <1>7 DEF DropTmp, Release, Goto, TypeOK
  <2>2. \A q \in Runner : open'[q] \notin {"tmp", "queue"}
    BY <1>2, <1>7 DEF DropTmp, Release, Unlinked, TypeOK, Undisturbed
  <2>3. QED
    BY <1>1, <1>2, <2>1, <2>2, OneInside DEF Undisturbed
<1>8. QED
  BY <1>3, <1>4, <1>5, <1>6, <1>7

LEMMA LockStepInv == LockInv /\ [Next]_vars => LockInv'
<1> SUFFICES ASSUME LockInv, [Next]_vars PROVE LockInv'
  OBVIOUS
<1>1. ASSUME NEW r \in Runner, Observed(RunnerStep(r)) PROVE LockInv'
  <2>1. overlap' \in BOOLEAN /\ RunnerStep(r) /\ (~overlap' => ~overlap /\ MutualExclusion')
    BY <1>1 DEF Observed, LockInv, TypeOK
  <2>2. TypeOK'
    BY <2>1, OutsideType, InsideType DEF RunnerStep, LockInv
  <2>3. ~overlap' => Undisturbed'
    BY <2>1, OutsideStep, InsideStep DEF RunnerStep, LockInv
  <2>4. QED
    BY <2>2, <2>3 DEF LockInv
<1>2. CASE Observed(Crash)
  <2>1. overlap' \in BOOLEAN /\ Crash /\ (~overlap' => ~overlap /\ MutualExclusion')
    BY <1>2 DEF Observed, LockInv, TypeOK
  <2>2. TypeOK'
    BY <2>1, MaxMishapsAssumption DEF Crash, LockInv, TypeOK, RunStep
  <2>3. ~overlap' => Undisturbed'
    BY <2>1, OneInside DEF Crash, LockInv, TypeOK, Undisturbed
  <2>4. QED
    BY <2>2, <2>3 DEF LockInv
<1>3. ASSUME NEW r \in Runner, Observed(LeaveLock(r)) PROVE LockInv'
  <2>1. overlap' \in BOOLEAN /\ LeaveLock(r) /\ (~overlap' => ~overlap /\ MutualExclusion')
    BY <1>3 DEF Observed, LockInv, TypeOK
  <2>2. TypeOK'
    BY <2>1, MaxMishapsAssumption DEF LeaveLock, Goto, LockInv, TypeOK, RunStep
  <2>3. ~overlap' => Undisturbed'
    BY <2>1, OneInside DEF LeaveLock, Goto, LockInv, TypeOK, Undisturbed
  <2>4. QED
    BY <2>2, <2>3 DEF LockInv
<1>4. CASE Observed(LockAges)
  BY <1>4, OneInside DEF Observed, LockAges, LockInv, TypeOK, Undisturbed
<1>5. CASE UNCHANGED vars
  BY <1>5 DEF vars, files, LockInv, TypeOK, Undisturbed
<1>6. QED
  BY <1>1, <1>2, <1>3, <1>4, <1>5 DEF Next

-----------------------------------------------------------------------------
LEMMA LockInvariant == Spec => []LockInv
BY LockInitInv, LockStepInv, PTL DEF Spec

\* Files and threads keep their types.
THEOREM TypeCorrect == Spec => []TypeOK
BY LockInvariant, PTL DEF LockInv

\* For any number of threads and mishaps, only two threads that are under the
\* lock at once can tear the queue file (atomic_save_json).
THEOREM OnlyOverlapTears == Spec => []QueueTornOnlyByOverlap
<1>1. LockInv => QueueTornOnlyByOverlap
  BY DEF LockInv, Undisturbed, QueueTornOnlyByOverlap
<1>2. QED
  BY LockInvariant, <1>1, PTL
==================================================================================
