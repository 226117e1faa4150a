--------------------------- MODULE UserDataProofs ---------------------------
(***************************************************************************)
(* Proofs about what users keep: the ranking history, the favorites, the   *)
(* watchlist groups and the portfolio, for any tabs, sessions, symbols,    *)
(* runs, groups, prices and bounds.                                        *)
(***************************************************************************)
EXTENDS RankingHistory, Favorites, WatchlistGroups, PortfolioRebalance,
        FiniteSetTheorems, SequenceTheorems, WellFoundedInduction, TLAPS

\* A set of natural numbers that is not empty has a least element.
LEMMA LeastNumber ==
    ASSUME NEW S \in SUBSET Nat, S # {}
    PROVE  \E m \in S : \A n \in S : m <= n
<1>1. PICK R : R = OpToRel(<, Nat)
  OBVIOUS
<1>2. IsWellFoundedOn(R, Nat)
  BY <1>1, NatLessThanWellFounded
<1>3. ASSUME NEW i \in Nat, NEW j \in Nat, i < j PROVE <<i, j>> \in R
  BY <1>1, <1>3 DEF OpToRel
<1>4. PICK m \in S : \A n \in S : ~ (<<n, m>> \in R)
  BY <1>2, WFMin
<1>5. ASSUME NEW n \in S PROVE m <= n
  <2>1. m \in Nat /\ n \in Nat /\ ~(n < m)
    BY <1>3, <1>4
  <2>2. QED
    BY <2>1
<1>6. QED
  BY <1>5

-----------------------------------------------------------------------------
(* RankingHistory.                                                         *)

\* What a worker under the lock has read and been asked for.
Mine(w) ==
    /\ at[w] \in Held => lock = w
    /\ at[w] \in {"snapshot", "index"} => loaded[w] = index
    /\ at[w] \in {"waiting", "snapshot", "index"} =>
          /\ job[w] \in HistoryJob
          /\ job[w].kind = "save" => job[w].sig \in Signature
          /\ job[w].kind # "save" => job[w].run \in 1..lastRun
    /\ at[w] \in {"snapshot", "index"} =>
          /\ job[w].run \in 1..lastRun
          /\ IF job[w].kind = "save" THEN \A q \in Indexed(index) : q < job[w].run
                                     ELSE index[job[w].run] # None
    /\ at[w] = "index" /\ job[w].kind # "delete" => snapshots[job[w].run] # None
    /\ at[w] = "remove" => doomed[w] \cap Indexed(index) = {}

HistoryInv ==
    /\ HistoryTypes
    /\ \A r \in Indexed(index) : r <= lastRun
    /\ IndexedReadable
    /\ \A w \in Worker : Mine(w)

LEMMA NoneDiffers ==
    /\ None \notin Run /\ None \notin Item /\ None \notin HistoryJob
    /\ None # TRUE /\ None # FALSE
BY HistoryNoneAssumption

\* Pruning drops entries and changes none.
LEMMA PrunedIndex ==
    ASSUME NEW i \in Index
    PROVE  Pruned(i) \in Index /\ \A r \in Run : Pruned(i)[r] \in {i[r], None}
BY DEF Pruned, Index

\* What a mutation makes of an index is an index.
LEMMA ChangedIndex ==
    ASSUME NEW i \in Index, NEW j \in HistoryJob, j.run \in Run,
           j.kind = "save" => j.sig \in Signature,
           j.kind # "save" => i[j.run] # None
    PROVE  /\ Changed(i, j) \in Index
           /\ \A r \in Run \ {j.run} : Changed(i, j)[r] = i[r]
           /\ j.kind = "delete" => Changed(i, j)[j.run] = None
<1>1. CASE j.kind = "save"
  <2>1. [sig |-> j.sig, at |-> j.at, pinned |-> FALSE] \in Item
    BY <1>1 DEF Item, HistoryJob
  <2>2. QED
    BY <1>1, <2>1 DEF Changed, Index
<1>2. CASE j.kind = "delete"
  BY <1>2 DEF Changed, Index
<1>3. CASE j.kind \notin {"save", "delete"}
  <2>1. i[j.run] \in Item
    BY <1>3 DEF Index
  <2>2. [i[j.run] EXCEPT !.pinned = (j.kind = "pin")] \in Item
    BY <2>1 DEF Item
  <2>3. QED
    BY <1>3, <2>2 DEF Changed, Index
<1>4. QED
  BY <1>1, <1>2, <1>3

LEMMA HistoryInitInv == HistoryInit => HistoryInv
<1> SUFFICES ASSUME HistoryInit PROVE HistoryInv
  OBVIOUS
<1>1. NoIndex \in Index /\ NoIndex \in [Run -> BOOLEAN \cup {None}]
  BY DEF NoIndex, Index
<1>2. 0 \in HistoryTime /\ 0 \in 0..MaxRuns
  BY HistoryBoundsAssumption DEF HistoryTime
<1>3. HistoryTypes
  BY <1>1, <1>2 DEF HistoryInit, HistoryTypes
<1>4. QED
  BY <1>3, NoneDiffers DEF HistoryInit, HistoryInv, Mine, Held, Indexed, IndexedReadable, NoIndex

\* The runs that have been numbered are runs.
LEMMA NumberedRuns == HistoryTypes => 1..lastRun \subseteq Run
BY HistoryBoundsAssumption DEF HistoryTypes, Run

\* A worker that is in the middle of a mutation has the lock, and no other is.
LEMMA Alone ==
    ASSUME HistoryInv, NEW w \in Worker, NEW v \in Worker, at[v] \in Held
    PROVE  lock = v /\ lock # "free" /\ (at[w] \in Held => w = v)
BY HistoryLockAssumption DEF HistoryInv, Mine

LEMMA AskInv ==
    ASSUME HistoryInv, NEW w \in Worker, NEW j \in HistoryJob, Ask(w, j),
           j.kind = "save" => j.sig \in Signature,
           j.kind # "save" => j.run \in 1..lastRun
    PROVE  HistoryInv'
<1> USE DEF HistoryInv, Ask, Moves, historyFiles
<1>1. HistoryTypes'
  BY DEF HistoryTypes
<1>2. (\A r \in Indexed(index) : r <= lastRun)' /\ IndexedReadable'
  BY DEF Indexed, IndexedReadable
<1>3. \A v \in Worker : Mine(v)'
  BY DEF Mine, Held, Indexed, HistoryTypes
<1>4. QED
  BY <1>1, <1>2, <1>3

LEMMA AcquireInv ==
    ASSUME HistoryInv, NEW w \in Worker, Acquire(w) PROVE HistoryInv'
<1> USE DEF HistoryInv, Acquire, Moves
<1>1. \A v \in Worker : at[v] \notin Held
  BY Alone
<1>2. lock' = w /\ index' = index /\ snapshots' = snapshots /\ loaded'[w] = index
  BY DEF HistoryTypes
<1>3. CASE Refused(index, job[w])
  <2>1. HistoryTypes'
    BY <1>3 DEF HistoryTypes, Held
  <2>2. (\A r \in Indexed(index) : r <= lastRun)' /\ IndexedReadable'
    BY <1>2, <1>3 DEF Indexed, IndexedReadable
  <2>3. \A v \in Worker : Mine(v)'
    BY <1>1, <1>2, <1>3 DEF Mine, Held, HistoryTypes
  <2>4. QED
    BY <2>1, <2>2, <2>3
<1>4. CASE ~Refused(index, job[w]) /\ job[w].kind = "save"
  <2>1. lastRun + 1 \in Run /\ lastRun' = lastRun + 1 /\ lastRun' \in 0..MaxRuns
    BY <1>4, HistoryBoundsAssumption DEF HistoryTypes, Run
  <2>2. /\ job'[w] = [job[w] EXCEPT !.run = lastRun + 1, !.at = now]
        /\ job'[w] \in HistoryJob
        /\ job'[w].kind = "save" /\ job'[w].sig \in Signature /\ job'[w].run = lastRun'
    <3>1. job[w] \in HistoryJob /\ job[w].sig \in Signature /\ now \in HistoryTime
      BY <1>4 DEF HistoryTypes, Mine
    <3>2. job'[w] = [job[w] EXCEPT !.run = lastRun + 1, !.at = now]
      BY <1>4 DEF HistoryTypes
    <3>3. QED
      BY <1>4, <2>1, <3>1, <3>2 DEF HistoryJob
  <2>3. HistoryTypes'
    BY <1>4, <2>1, <2>2 DEF HistoryTypes, Held
  <2>4. (\A r \in Indexed(index) : r <= lastRun)' /\ IndexedReadable'
    BY <1>2, <2>1 DEF Indexed, IndexedReadable, HistoryTypes, Run
  <2>5. \A q \in Indexed(index) : q < lastRun'
    BY <2>1 DEF Indexed, HistoryTypes, Run
  <2>6. Mine(w)'
    BY <1>2, <1>4, <2>1, <2>2, <2>5 DEF Mine, Held, Indexed, HistoryTypes
  <2>7. \A v \in Worker \ {w} : Mine(v)'
    BY <1>1, <1>4, <2>1 DEF Mine, Held, HistoryTypes
  <2>8. QED
    BY <2>3, <2>4, <2>6, <2>7
<1>5. CASE ~Refused(index, job[w]) /\ job[w].kind # "save"
  <2>1. index[job[w].run] # None
    BY <1>5 DEF Refused
  <2>2. HistoryTypes'
    BY <1>5 DEF HistoryTypes, Held
  <2>3. (\A r \in Indexed(index) : r <= lastRun)' /\ IndexedReadable'
    BY <1>2, <1>5 DEF Indexed, IndexedReadable
  <2>4. Mine(w)'
    BY <1>2, <1>5, <2>1 DEF Mine, Held, HistoryTypes
  <2>5. \A v \in Worker \ {w} : Mine(v)'
    BY <1>1, <1>5 DEF Mine, Held, HistoryTypes
  <2>6. QED
    BY <2>2, <2>3, <2>4, <2>5
<1>6. QED
  BY <1>3, <1>4, <1>5

LEMMA WriteSnapshotInv ==
    ASSUME HistoryInv, NEW w \in Worker, WriteSnapshot(w) PROVE HistoryInv'
<1> USE DEF HistoryInv, WriteSnapshot, Moves
<1>1. job[w].run \in Run /\ w \in Worker /\ at[w] \in Held
  BY NumberedRuns DEF Mine, Held
<1>2. index' = index /\ \A r \in Run : snapshots[r] # None => snapshots'[r] # None
  BY <1>1, NoneDiffers DEF HistoryTypes
<1>3. HistoryTypes'
  BY <1>1 DEF HistoryTypes, Held
<1>4. (\A r \in Indexed(index) : r <= lastRun)' /\ IndexedReadable'
  BY <1>2 DEF Indexed, IndexedReadable
<1>5. Mine(w)'
  BY <1>1, <1>2, NoneDiffers DEF Mine, Held, Indexed, HistoryTypes
<1>6. \A v \in Worker \ {w} : Mine(v)'
  BY <1>1, <1>2, Alone DEF Mine, Held, HistoryTypes
<1>7. QED
  BY <1>3, <1>4, <1>5, <1>6

\* What SaveIndex makes of the index.
LEMMA SavedIndex ==
    ASSUME HistoryInv, NEW w \in Worker, SaveIndex(w)
    PROVE  /\ index' \in Index
           /\ job[w] \in HistoryJob /\ job[w].run \in Run /\ loaded[w] = index
           /\ \A r \in Run \ {job[w].run} : index'[r] \in {index[r], None}
           /\ job[w].kind = "delete" => index'[job[w].run] = None
<1>1. /\ loaded[w] = index /\ index \in Index
      /\ job[w] \in HistoryJob /\ job[w].run \in Run
      /\ job[w].kind = "save" => job[w].sig \in Signature
      /\ job[w].kind # "save" => index[job[w].run] # None
  BY NumberedRuns DEF HistoryInv, HistoryTypes, Mine, SaveIndex
<1> DEFINE changed == Changed(index, job[w])
<1>2. /\ changed \in Index
      /\ \A r \in Run \ {job[w].run} : changed[r] = index[r]
      /\ job[w].kind = "delete" => changed[job[w].run] = None
  BY <1>1, ChangedIndex
<1>3. index' \in {changed, Pruned(changed)} /\ (job[w].kind = "delete" => index' = changed)
  BY <1>1 DEF SaveIndex
<1>4. Pruned(changed) \in Index /\ \A r \in Run : Pruned(changed)[r] \in {changed[r], None}
  BY <1>2, PrunedIndex
<1>5. QED
  BY <1>1, <1>2, <1>3, <1>4

LEMMA SaveIndexInv ==
    ASSUME HistoryInv, NEW w \in Worker, SaveIndex(w) PROVE HistoryInv'
<1> USE DEF HistoryInv, Moves
<1>1. /\ index' \in Index
      /\ job[w] \in HistoryJob /\ job[w].run \in Run /\ loaded[w] = index
      /\ \A r \in Run \ {job[w].run} : index'[r] \in {index[r], None}
      /\ job[w].kind = "delete" => index'[job[w].run] = None
  BY SavedIndex
<1>2. /\ at[w] = "index" /\ at' = [at EXCEPT ![w] = "remove"]
      /\ doomed' = [doomed EXCEPT
           ![w] = (Indexed(loaded[w]) \cup {job[w].run}) \ Indexed(index')]
      /\ UNCHANGED <<now, lastRun, snapshots, lock, job, loaded, faulted, crashed>>
  BY DEF SaveIndex
<1>3. HistoryTypes'
  BY <1>1, <1>2 DEF HistoryTypes, Held, Indexed
<1>4. job[w].run \in 1..lastRun /\ (job[w].kind # "delete" => snapshots[job[w].run] # None)
  BY <1>2 DEF Mine
<1>5. (\A r \in Indexed(index) : r <= lastRun)' /\ IndexedReadable'
  BY <1>1, <1>2, <1>4 DEF Indexed, IndexedReadable, HistoryTypes
<1>6. Mine(w)'
  BY <1>1, <1>2 DEF Mine, Held, Indexed, HistoryTypes
<1>7. \A v \in Worker \ {w} : Mine(v)'
  BY <1>2, Alone DEF Mine, Held, HistoryTypes
<1>8. QED
  BY <1>3, <1>5, <1>6, <1>7

LEMMA RemoveSnapshotsInv ==
    ASSUME HistoryInv, NEW w \in Worker, RemoveSnapshots(w) PROVE HistoryInv'
<1> USE DEF HistoryInv, RemoveSnapshots, Moves
<1>1. /\ snapshots' \in [Run -> BOOLEAN \cup {None}]
      /\ \A r \in Run : snapshots'[r] # snapshots[r] => r \in doomed[w]
  BY DEF HistoryTypes
<1>2. HistoryTypes'
  BY <1>1 DEF HistoryTypes, Held
<1>3. (\A r \in Indexed(index) : r <= lastRun)' /\ IndexedReadable'
  BY <1>1 DEF Indexed, IndexedReadable, Mine
<1>4. Mine(w)'
  BY DEF Mine, Held, HistoryTypes
<1>5. \A v \in Worker \ {w} : Mine(v)'
  BY Alone DEF Mine, Held, HistoryTypes
<1>6. QED
  BY <1>2, <1>3, <1>4, <1>5

\* The steps that end a mutation change neither the index nor a snapshot.
LEMMA EndInv ==
    ASSUME HistoryInv, NEW w \in Worker, GiveUp(w) \/ Raise(w) \/ Release(w)
    PROVE  HistoryInv'
<1> USE DEF HistoryInv, GiveUp, Raise, Release, Leave, Moves, historyFiles
<1>1. HistoryTypes'
  <2>1. NoIndex \in Index
    BY DEF NoIndex, Index
  <2>2. QED
    BY <2>1 DEF HistoryTypes, Held
<1>2. (\A r \in Indexed(index) : r <= lastRun)' /\ IndexedReadable'
  BY DEF Indexed, IndexedReadable
<1>3. Mine(w)'
  BY DEF Mine, Held, HistoryTypes
<1>4. \A v \in Worker \ {w} : Mine(v)'
  <2>1. CASE Release(w)
    BY <2>1, Alone DEF Mine, Held, HistoryTypes
  <2>2. CASE GiveUp(w) \/ Raise(w)
    BY <2>2 DEF Mine, Held, HistoryTypes
  <2>3. QED
    BY <2>1, <2>2
<1>5. QED
  BY <1>1, <1>2, <1>3, <1>4

LEMMA ServerDiesInv == HistoryInv /\ ServerDies => HistoryInv'
<1> SUFFICES ASSUME HistoryInv, ServerDies PROVE HistoryInv'
  OBVIOUS
<1> USE DEF HistoryInv, ServerDies
<1>1. HistoryTypes'
  <2>1. NoIndex \in Index
    BY DEF NoIndex, Index
  <2>2. QED
    BY <2>1 DEF HistoryTypes
<1>2. QED
  BY <1>1 DEF Indexed, IndexedReadable, Mine, Held

LEMMA TickInv == HistoryInv /\ HistoryTick => HistoryInv'
<1> SUFFICES ASSUME HistoryInv, HistoryTick PROVE HistoryInv'
  OBVIOUS
<1> USE DEF HistoryInv, HistoryTick, historyFiles, historyLocals
<1>1. HistoryTypes'
  BY HistoryBoundsAssumption DEF HistoryTypes, HistoryTime
<1>2. QED
  BY <1>1 DEF Indexed, IndexedReadable, Mine

LEMMA HistoryStepInv == HistoryInv /\ [HistoryNext]_historyVars => HistoryInv'
<1> SUFFICES ASSUME HistoryInv, [HistoryNext]_historyVars PROVE HistoryInv'
  OBVIOUS
<1>1. ASSUME NEW w \in Worker, NEW sig \in Signature, AskSave(w, sig)
      PROVE  HistoryInv'
  <2>1. [kind |-> "save", run |-> None, sig |-> sig, at |-> 0] \in HistoryJob
    BY HistoryBoundsAssumption DEF HistoryJob, Kind, HistoryTime
  <2>2. QED
    BY <1>1, <2>1, AskInv DEF AskSave
<1>2. ASSUME NEW w \in Worker, NEW kind \in Kind \ {"save"}, NEW r \in Run,
             AskAbout(w, kind, r)
      PROVE  HistoryInv'
  <2>1. [kind |-> kind, run |-> r, sig |-> None, at |-> 0] \in HistoryJob
    BY HistoryBoundsAssumption DEF HistoryJob, HistoryTime
  <2>2. r \in 1..lastRun
    BY <1>2, HistoryBoundsAssumption DEF AskAbout, Run, HistoryInv, HistoryTypes
  <2>3. QED
    BY <1>2, <2>1, <2>2, AskInv DEF AskAbout
<1>3. ASSUME NEW w \in Worker, Acquire(w) PROVE HistoryInv'
  BY <1>3, AcquireInv
<1>4. ASSUME NEW w \in Worker, WriteSnapshot(w) PROVE HistoryInv'
  BY <1>4, WriteSnapshotInv
<1>5. ASSUME NEW w \in Worker, SaveIndex(w) PROVE HistoryInv'
  BY <1>5, SaveIndexInv
<1>6. ASSUME NEW w \in Worker, RemoveSnapshots(w) PROVE HistoryInv'
  BY <1>6, RemoveSnapshotsInv
<1>7. ASSUME NEW w \in Worker, GiveUp(w) \/ Raise(w) \/ Release(w) PROVE HistoryInv'
  BY <1>7, EndInv
<1>8. CASE ServerDies
  BY <1>8, ServerDiesInv
<1>9. CASE HistoryTick
  BY <1>9, TickInv
<1>10. CASE UNCHANGED historyVars
  BY <1>10 DEF historyVars, historyFiles, historyLocals, HistoryInv, HistoryTypes, Mine,
               Indexed, IndexedReadable
<1>11. QED
  BY <1>1, <1>2, <1>3, <1>4, <1>5, <1>6, <1>7, <1>8, <1>9, <1>10
     DEF HistoryNext, HistoryStep

-----------------------------------------------------------------------------
\* Every run the index lists has its snapshot, for any number of sessions and
\* whatever fails (RankingHistoryService writes the snapshot before the index
\* and removes it after).
THEOREM AlwaysReadable == HistorySpec => []IndexedReadable
<1>1. HistoryInv => IndexedReadable
  BY DEF HistoryInv
<1>2. QED
  BY HistoryInitInv, HistoryStepInv, <1>1, PTL DEF HistorySpec

\* The list counts as the history does.
LEMMA SameCardinality ==
    ASSUME NEW S PROVE List!Cardinality(S) = Cardinality(S)
BY DEF List!Cardinality, Cardinality

\* Pruning is what the list calls retaining.
LEMMA PrunedIsRetained ==
    ASSUME NEW i \in Index PROVE Pruned(i) = List!Retained(i)
<1>1. Normal(i) = List!Unpinned(i)
  BY DEF Normal, Indexed, List!Unpinned, List!InList
<1>2. ASSUME NEW r \in Run PROVE Cardinality({n \in Normal(i) : n > r}) \in Nat
  <2>1. IsFiniteSet(Run)
    BY FS_Interval, HistoryBoundsAssumption DEF Run
  <2>2. {n \in Normal(i) : n > r} \subseteq Run
    BY DEF Normal, Indexed
  <2>3. QED
    BY <2>1, <2>2, FS_Subset, FS_CardinalityType
<1>3. ASSUME NEW r \in Run PROVE Pruned(i)[r] = List!Retained(i)[r]
  <2>1. Cardinality({n \in Normal(i) : n > r}) < Keep
          <=> ~(Cardinality({n \in Normal(i) : n > r}) >= Keep)
    BY <1>2, HistoryBoundsAssumption
  <2>2. r \in Normal(i) => i[r] # None
    BY DEF Normal, Indexed
  <2>3. QED
    BY <1>1, <2>1, <2>2, SameCardinality DEF Pruned, List!Retained
<1>4. QED
  BY <1>3 DEF Pruned, List!Retained

\* The newest run stays, as there is room for it.
LEMMA NewestStays ==
    ASSUME NEW i \in Index, NEW r \in Run, i[r] # None, Keep > 0,
           \A q \in Indexed(i) : q <= r
    PROVE  Pruned(i)[r] = i[r]
<1>1. {n \in Normal(i) : n > r} = {}
  BY DEF Normal, Indexed, Run
<1>2. Cardinality({n \in Normal(i) : n > r}) < Keep
  BY <1>1, FS_EmptySet
<1>3. QED
  BY <1>2 DEF Pruned

LEMMA SaveIndexChangesList ==
    ASSUME HistoryInv, NEW w \in Worker, SaveIndex(w) PROVE List!ListNext
<1> DEFINE r == job[w].run
           changed == Changed(index, job[w])
<1>1. /\ loaded[w] = index /\ index \in Index
      /\ job[w] \in HistoryJob /\ r \in Run
      /\ job[w].kind = "save" => job[w].sig \in Signature
      /\ IF job[w].kind = "save" THEN \A q \in Indexed(index) : q < r
                                 ELSE index[r] # None
  BY NumberedRuns DEF HistoryInv, HistoryTypes, Mine, SaveIndex
<1>2. changed \in Index
  BY <1>1, ChangedIndex
<1>3. index' = IF job[w].kind = "delete" THEN changed ELSE List!Retained(changed)
  BY <1>1, <1>2, PrunedIsRetained DEF SaveIndex
<1>4. CASE job[w].kind = "save"
  <2> DEFINE item == [sig |-> job[w].sig, at |-> job[w].at, pinned |-> FALSE]
  <2>1. item \in Item
    BY <1>1, <1>4 DEF Item, HistoryJob
  <2>2. changed = [index EXCEPT ![r] = item] /\ changed[r] = item /\ item # None
    BY <1>1, <1>4, <2>1, NoneDiffers DEF Changed, Index
  <2>3. \A q \in Indexed(changed) : q <= r
    BY <1>1, <1>4, <2>2 DEF Indexed, Run, Index
  <2>4. Keep > 0 => index'[r] = item
    <3>1. index' = Pruned(changed)
      BY <1>2, <1>3, <1>4, PrunedIsRetained
    <3>2. Keep > 0 => Pruned(changed)[r] = changed[r]
      <4> HIDE DEF changed, r
      <4>1. changed[r] # None
        BY <2>2
      <4>2. QED
        BY <1>1, <1>2, <2>3, <4>1, NewestStays
    <3>3. QED
      BY <2>2, <3>1, <3>2
  <2>5. List!SaveRun(r, item)
    BY <1>1, <1>3, <1>4, <2>2, <2>4 DEF List!SaveRun, List!InList, Indexed
  <2>6. QED
    BY <1>1, <2>1, <2>5 DEF List!ListNext
<1>5. CASE job[w].kind = "delete"
  <2>1. List!DeleteRun(r)
    BY <1>1, <1>3, <1>5 DEF List!DeleteRun, Changed
  <2>2. QED
    BY <1>1, <2>1 DEF List!ListNext
<1>6. CASE job[w].kind \notin {"save", "delete"}
  <2>1. List!SetPinned(r, job[w].kind = "pin")
    BY <1>1, <1>3, <1>6 DEF List!SetPinned, Changed
  <2>2. (job[w].kind = "pin") \in BOOLEAN
    OBVIOUS
  <2>3. QED
    BY <1>1, <2>1, <2>2 DEF List!ListNext
<1>7. QED
  BY <1>4, <1>5, <1>6

\* Only SaveIndex writes the index.
LEMMA StepChangesList ==
    HistoryInv /\ [HistoryNext]_historyVars => [List!ListNext]_index
<1> SUFFICES ASSUME HistoryInv, HistoryNext PROVE List!ListNext \/ UNCHANGED index
  BY DEF historyVars, historyFiles
<1>1. ASSUME NEW w \in Worker, SaveIndex(w) PROVE List!ListNext
  BY <1>1, SaveIndexChangesList
<1>2. ASSUME NEW w \in Worker, HistoryStep(w), ~SaveIndex(w) PROVE UNCHANGED index
  BY <1>2 DEF HistoryStep, AskSave, AskAbout, Ask, Acquire, GiveUp, WriteSnapshot,
              RemoveSnapshots, Raise, Release, historyFiles
<1>3. ServerDies \/ HistoryTick => UNCHANGED index
  BY DEF ServerDies, HistoryTick, historyFiles
<1>4. QED
  BY <1>1, <1>2, <1>3 DEF HistoryNext

\* The mutations of RankingHistoryService take effect one after the other, at
\* the write of the index, for any number of sessions: the history implements
\* the list.
THEOREM HistoryImplementsList == HistorySpec => Serialized
<1>1. HistoryInit => List!ListInit
  BY DEF HistoryInit, List!ListInit, NoIndex
<1>2. QED
  BY <1>1, HistoryInitInv, HistoryStepInv, StepChangesList, PTL
     DEF HistorySpec, Serialized, List!ListSpec

-----------------------------------------------------------------------------
\* The snapshot of a run says what the index says of it.
Agrees(r) == IF index[r] = None THEN snapshots[r] = None
                                ELSE snapshots[r] = index[r].pinned

\* As long as nothing has failed, the files differ only under the lock, and only
\* in what its holder is about to write or to remove.
Undisturbed ==
    ~faulted /\ ~crashed =>
       /\ lock # "left"
       /\ lock = "free" => \A r \in Run : Agrees(r)
       /\ \A w \in Worker : lock = w =>
             /\ at[w] \in Held
             /\ \A r \in Run : \/ Agrees(r)
                               \/ at[w] = "index" /\ r = job[w].run
                               \/ at[w] = "remove" /\ r \in doomed[w]
             /\ at[w] = "index" /\ job[w].kind # "delete" =>
                   snapshots[job[w].run] = (job[w].kind = "pin")

LEMMA UndisturbedInit == HistoryInit => Undisturbed
BY HistoryLockAssumption DEF HistoryInit, Undisturbed, Agrees, NoIndex

\* A step that leaves the files and the holder of the lock alone.
LEMMA UndisturbedElsewhere ==
    ASSUME HistoryInv, Undisturbed, NEW w \in Worker,
           Ask(w, job'[w]) \/ GiveUp(w)
    PROVE  Undisturbed'
<1> USE DEF HistoryInv, HistoryTypes, Ask, GiveUp, Leave, Moves, historyFiles
<1>1. lock # w \/ faulted \/ crashed
  BY DEF Undisturbed, Held
<1>2. \A v \in Worker \ {w} : at'[v] = at[v] /\ job'[v] = job[v] /\ doomed'[v] = doomed[v]
  OBVIOUS
<1>3. UNCHANGED <<index, snapshots, lock, faulted, crashed>>
  OBVIOUS
<1>4. QED
  BY <1>1, <1>2, <1>3 DEF Undisturbed, Agrees

LEMMA UndisturbedAcquire ==
    ASSUME HistoryInv, Undisturbed, NEW w \in Worker, Acquire(w)
    PROVE  Undisturbed'
<1>1. /\ lock = "free" /\ lock' = w /\ UNCHANGED <<index, snapshots, faulted, crashed>>
      /\ at'[w] \in Held
      /\ at'[w] = "index" => job'[w].kind = "delete"
  <2>1. at[w] = "waiting" /\ job[w].kind \in Kind
    BY DEF Acquire, HistoryInv, Mine, HistoryJob
  <2>2. QED
    BY <2>1 DEF Acquire, HistoryInv, HistoryTypes, Moves, Held
<1>2. ~faulted /\ ~crashed => \A r \in Run : Agrees(r)'
  BY <1>1 DEF Undisturbed, Agrees
<1>3. QED
  BY <1>1, <1>2, HistoryLockAssumption DEF Undisturbed

LEMMA UndisturbedWrite ==
    ASSUME HistoryInv, Undisturbed, NEW w \in Worker, WriteSnapshot(w)
    PROVE  Undisturbed'
<1> DEFINE run == job[w].run
<1>1. /\ lock = w /\ UNCHANGED <<index, lock, job, doomed, faulted, crashed>>
      /\ at[w] = "snapshot" /\ run \in Run
  BY NumberedRuns DEF WriteSnapshot, HistoryInv, Mine, Held
<1>2. CASE at'[w] = "release"
  <2>1. snapshots' = snapshots
    BY <1>2 DEF WriteSnapshot, Moves, HistoryInv, HistoryTypes
  <2>2. QED
    BY <1>1, <1>2, <2>1, HistoryLockAssumption DEF Undisturbed, Agrees, Held
<1>3. CASE at'[w] # "release"
  <2>1. /\ at'[w] = "index"
        /\ snapshots'[run] = (job[w].kind = "pin")
        /\ \A r \in Run \ {run} : snapshots'[r] = snapshots[r]
    BY <1>1, <1>3 DEF WriteSnapshot, Moves, HistoryInv, HistoryTypes
  <2>2. QED
    BY <1>1, <2>1, HistoryLockAssumption DEF Undisturbed, Agrees, Held
<1>4. QED
  BY <1>2, <1>3

\* What the index says of the run after SaveIndex is what its snapshot says.
LEMMA SavedPin ==
    ASSUME HistoryInv, NEW w \in Worker, SaveIndex(w), index'[job[w].run] # None
    PROVE  /\ job[w].kind # "delete"
           /\ index'[job[w].run].pinned = (job[w].kind = "pin")
<1> DEFINE run == job[w].run
           changed == Changed(index, job[w])
<1>1. /\ loaded[w] = index /\ index \in Index /\ job[w] \in HistoryJob /\ run \in Run
      /\ job[w].kind = "save" => job[w].sig \in Signature
      /\ job[w].kind # "save" => index[run] # None
  BY NumberedRuns DEF HistoryInv, HistoryTypes, Mine, SaveIndex
<1>2. changed \in Index
  BY <1>1, ChangedIndex
<1>3. job[w].kind # "delete" /\ index' = Pruned(changed)
  BY <1>1, SavedIndex DEF SaveIndex
<1>4. index'[run] = changed[run]
  BY <1>1, <1>2, <1>3, PrunedIndex
<1>5. changed[run].pinned = (job[w].kind = "pin")
  <2>1. CASE job[w].kind = "save"
    BY <1>1, <2>1 DEF Changed, Index
  <2>2. CASE job[w].kind # "save"
    <3>1. index[run] \in Item
      BY <1>1, <2>2 DEF Index
    <3>2. changed[run] = [index[run] EXCEPT !.pinned = (job[w].kind = "pin")]
      BY <1>1, <1>3, <2>2 DEF Changed, Index
    <3>3. QED
      BY <3>1, <3>2 DEF Item
  <2>3. QED
    BY <2>1, <2>2
<1>6. QED
  BY <1>3, <1>4, <1>5

LEMMA UndisturbedSave ==
    ASSUME HistoryInv, Undisturbed, NEW w \in Worker, SaveIndex(w)
    PROVE  Undisturbed'
<1> DEFINE run == job[w].run
<1>1. /\ at[w] = "index" /\ lock = w /\ loaded[w] = index /\ run \in Run
      /\ at'[w] = "remove" /\ UNCHANGED <<snapshots, lock, job, faulted, crashed>>
      /\ doomed'[w] = (Indexed(index) \cup {run}) \ Indexed(index')
  BY SavedIndex DEF SaveIndex, Moves, HistoryInv, HistoryTypes, Mine, Held
<1>2. \A r \in Run \ {run} : index'[r] \in {index[r], None}
  BY SavedIndex
<1>3. ASSUME ~faulted, ~crashed, NEW r \in Run, r \notin doomed'[w] PROVE Agrees(r)'
  <2>1. CASE r = run
    <3>1. index'[r] # None
      BY <1>1, <1>3, <2>1 DEF Indexed
    <3>2. job[w].kind # "delete" /\ index'[r].pinned = (job[w].kind = "pin")
      BY <2>1, <3>1, SavedPin
    <3>3. snapshots'[r] = (job[w].kind = "pin")
      BY <1>1, <1>3, <2>1, <3>2 DEF Undisturbed
    <3>4. QED
      BY <3>1, <3>2, <3>3 DEF Agrees
  <2>2. CASE r # run
    <3>1. Agrees(r)
      BY <1>1, <1>3, <2>2 DEF Undisturbed
    <3>2. index'[r] = index[r]
      BY <1>1, <1>2, <1>3, <2>2 DEF Indexed
    <3>3. QED
      BY <1>1, <3>1, <3>2 DEF Agrees
  <2>3. QED
    BY <2>1, <2>2
<1>4. QED
  BY <1>1, <1>3, HistoryLockAssumption DEF Undisturbed, Held

LEMMA UndisturbedRemove ==
    ASSUME HistoryInv, Undisturbed, NEW w \in Worker, RemoveSnapshots(w)
    PROVE  Undisturbed'
<1>1. /\ at[w] = "remove" /\ lock = w /\ UNCHANGED <<index, lock, crashed>>
      /\ at'[w] = "release" /\ doomed[w] \cap Indexed(index) = {}
  BY DEF RemoveSnapshots, Moves, HistoryInv, HistoryTypes, Mine, Held
<1>2. ASSUME ~faulted', ~crashed, NEW r \in Run PROVE Agrees(r)'
  <2>1. ~faulted /\ snapshots' = [q \in Run |-> IF q \in doomed[w] THEN None ELSE snapshots[q]]
    BY <1>2 DEF RemoveSnapshots
  <2>2. r \in doomed[w] \/ Agrees(r)
    BY <1>1, <1>2, <2>1 DEF Undisturbed
  <2>3. QED
    BY <1>1, <2>1, <2>2 DEF Agrees, Indexed
<1>3. QED
  BY <1>1, <1>2, HistoryLockAssumption DEF Undisturbed, Held

LEMMA UndisturbedRelease ==
    ASSUME HistoryInv, Undisturbed, NEW w \in Worker, Release(w)
    PROVE  Undisturbed'
<1>1. /\ at[w] = "release" /\ lock = w /\ lock' = "free"
      /\ UNCHANGED <<index, snapshots, faulted, crashed>>
  BY DEF Release, HistoryInv, Mine, Held
<1>2. QED
  BY <1>1, HistoryLockAssumption DEF Undisturbed, Agrees

LEMMA UndisturbedStep == HistoryInv /\ Undisturbed /\ [HistoryNext]_historyVars => Undisturbed'
<1> SUFFICES ASSUME HistoryInv, Undisturbed, [HistoryNext]_historyVars PROVE Undisturbed'
  OBVIOUS
<1>1. ASSUME NEW w \in Worker, HistoryStep(w) PROVE Undisturbed'
  <2>1. ASSUME NEW j, Ask(w, j) PROVE Undisturbed'
    <3>1. job'[w] = j
      BY <2>1 DEF Ask, HistoryInv, HistoryTypes
    <3>2. QED
      BY <2>1, <3>1, UndisturbedElsewhere
  <2>2. GiveUp(w) => Undisturbed'
    BY UndisturbedElsewhere
  <2>3. Raise(w) => Undisturbed'
    BY DEF Raise, Undisturbed
  <2>4. QED
    BY <1>1, <2>1, <2>2, <2>3, UndisturbedAcquire, UndisturbedWrite, UndisturbedSave, UndisturbedRemove,
       UndisturbedRelease DEF HistoryStep, AskSave, AskAbout
<1>2. ServerDies => Undisturbed'
  <2> SUFFICES ASSUME ServerDies, ~faulted', ~crashed' PROVE Undisturbed'
    BY DEF Undisturbed
  <2>1. UNCHANGED <<index, snapshots>> /\ lock = "free" /\ lock' = "free" /\ ~faulted /\ ~crashed
    BY DEF ServerDies
  <2>2. QED
    BY <2>1, HistoryLockAssumption DEF Undisturbed, Agrees
<1>3. HistoryTick \/ UNCHANGED historyVars => Undisturbed'
  BY DEF HistoryTick, historyVars, historyFiles, historyLocals, Undisturbed, Agrees
<1>4. QED
  BY <1>1, <1>2, <1>3 DEF HistoryNext

\* Unless a step failed or the server died under the lock, the index and the
\* snapshots of RankingHistoryService agree whenever the lock is free: no
\* snapshot is left behind, no pin is in one of them only.
THEOREM HistoryFilesAgree == HistorySpec => []FilesAgree
<1>1. Undisturbed => FilesAgree
  BY DEF Undisturbed, Agrees, FilesAgree
<1>2. QED
  BY HistoryInitInv, HistoryStepInv, UndisturbedInit, UndisturbedStep, <1>1, PTL DEF HistorySpec

\* If fewer than k numbers of N are above each member of S, S has at most k.
LEMMA FewAbove ==
    ASSUME NEW N \in SUBSET Nat, IsFiniteSet(N), NEW S \in SUBSET N, NEW k \in Nat,
           \A r \in S : Cardinality({n \in N : n > r}) < k
    PROVE  Cardinality(S) <= k
<1>1. IsFiniteSet(S)
  BY FS_Subset
<1>2. CASE S = {}
  BY <1>2, FS_EmptySet
<1>3. CASE S # {}
  <2>1. PICK m \in S : \A n \in S : m <= n
    BY <1>3, LeastNumber
  <2> DEFINE above == {n \in N : n > m}
  <2>2. S \ {m} \subseteq above
    BY <2>1
  <2>3. IsFiniteSet(above) /\ Cardinality(above) \in Nat /\ Cardinality(above) < k
    BY <2>1, FS_Subset, FS_CardinalityType
  <2> HIDE DEF above
  <2>4. Cardinality(S \ {m}) <= Cardinality(above)
    BY <2>2, <2>3, FS_Subset
  <2>5. Cardinality(S \ {m}) = Cardinality(S) - 1 /\ Cardinality(S) \in Nat
    BY <1>1, <2>1, FS_RemoveElement, FS_CardinalityType
  <2>6. QED
    BY <2>3, <2>4, <2>5
<1>4. QED
  BY <1>2, <1>3

\* Pruning leaves at most Keep runs that are not pinned: below the oldest of
\* them, fewer than Keep are newer.
LEMMA PrunedIsShort ==
    ASSUME NEW i \in Index
    PROVE  Cardinality(Normal(Pruned(i))) <= Keep
<1>1. Run \in SUBSET Nat /\ IsFiniteSet(Run) /\ Keep \in Nat
  BY FS_Interval, HistoryBoundsAssumption DEF Run
<1>2. Normal(i) \in SUBSET Nat /\ IsFiniteSet(Normal(i))
  BY <1>1, FS_Subset DEF Normal, Indexed
<1>3. Normal(Pruned(i)) \in SUBSET Normal(i)
  BY DEF Pruned, Normal, Indexed
<1>4. \A r \in Normal(Pruned(i)) : Cardinality({n \in Normal(i) : n > r}) < Keep
  BY DEF Pruned, Normal, Indexed
<1>5. QED
  BY <1>1, <1>2, <1>3, <1>4, FewAbove

\* The index lists at most Keep runs that are not pinned, after every mutation:
\* a run that is no longer pinned may push another one out, and a delete, which
\* does not prune, adds none.
THEOREM HistoryTypeCorrect == HistorySpec => []HistoryTypeOK
<1> DEFINE Short == Cardinality(Normal(index)) <= Keep
<1>1. HistoryInit => Short
  <2> SUFFICES ASSUME HistoryInit PROVE Short
    OBVIOUS
  <2>1. Normal(index) = {}
    BY DEF HistoryInit, NoIndex, Normal, Indexed
  <2>2. QED
    BY <2>1, FS_EmptySet, HistoryBoundsAssumption
<1>2. HistoryInv /\ Short /\ [HistoryNext]_historyVars => Short'
  <2> SUFFICES ASSUME HistoryInv, Short, [HistoryNext]_historyVars PROVE Short'
    OBVIOUS
  <2>1. ASSUME NEW w \in Worker, SaveIndex(w) PROVE Short'
    <3> DEFINE changed == Changed(index, job[w])
    <3>1. /\ loaded[w] = index /\ index \in Index /\ job[w] \in HistoryJob
          /\ job[w].run \in Run
          /\ job[w].kind = "save" => job[w].sig \in Signature
          /\ job[w].kind # "save" => index[job[w].run] # None
      BY <2>1, NumberedRuns DEF HistoryInv, HistoryTypes, Mine, SaveIndex
    <3>2. changed \in Index
      BY <3>1, ChangedIndex
    <3>3. index' = IF job[w].kind = "delete" THEN changed ELSE Pruned(changed)
      BY <2>1, <3>1 DEF SaveIndex
    <3>4. CASE job[w].kind = "delete"
      <4>1. Normal(changed) \subseteq Normal(index)
        <5>1. /\ changed[job[w].run] = None
              /\ \A r \in Run \ {job[w].run} : changed[r] = index[r]
          BY <3>1, <3>4, ChangedIndex
        <5> HIDE DEF changed
        <5>2. QED
          BY <5>1 DEF Normal, Indexed
      <4>2. IsFiniteSet(Normal(index))
        <5>1. IsFiniteSet(Run)
          BY FS_Interval, HistoryBoundsAssumption DEF Run
        <5>2. QED
          BY <5>1, FS_Subset DEF Normal, Indexed
      <4>3. Cardinality(Normal(changed)) <= Cardinality(Normal(index))
        BY <4>1, <4>2, FS_Subset
      <4>4. Cardinality(Normal(changed)) \in Nat /\ Cardinality(Normal(index)) \in Nat
        BY <4>1, <4>2, FS_Subset, FS_CardinalityType
      <4>5. index' = changed /\ Keep \in Nat
        BY <3>3, <3>4, HistoryBoundsAssumption
      <4> HIDE DEF changed
      <4>6. QED
        BY <4>3, <4>4, <4>5
    <3>5. CASE job[w].kind # "delete"
      <4>1. index' = Pruned(changed)
        BY <3>3, <3>5
      <4> HIDE DEF changed
      <4>2. QED
        BY <3>2, <4>1, PrunedIsShort
    <3>6. QED
      BY <3>4, <3>5
  <2>2. ASSUME NEW w \in Worker, HistoryStep(w), ~SaveIndex(w) PROVE UNCHANGED index
    BY <2>2 DEF HistoryStep, AskSave, AskAbout, Ask, Acquire, GiveUp, WriteSnapshot,
                RemoveSnapshots, Raise, Release, historyFiles
  <2>3. ServerDies \/ HistoryTick \/ UNCHANGED historyVars => UNCHANGED index
    BY DEF ServerDies, HistoryTick, historyFiles, historyVars
  <2>4. UNCHANGED index => Short'
    OBVIOUS
  <2>5. QED
    BY <2>1, <2>2, <2>3, <2>4 DEF HistoryNext
<1>3. HistoryInv /\ Short => HistoryTypeOK
  BY DEF HistoryInv, HistoryTypeOK
<1>4. QED
  BY HistoryInitInv, HistoryStepInv, <1>1, <1>2, <1>3, PTL DEF HistorySpec

-----------------------------------------------------------------------------
(* Favorites.                                                              *)

\* A tab that has decided what to do has a symbol to do it to.
Decided ==
    \A t \in Tab :
        /\ edit[t].pc # "idle" => edit[t].symbol \in Symbol
        /\ edit[t].pc \in {"load", "open", "write"} => edit[t].kind \in {"add", "remove", "note", "touch"}

FavoritesInv == FavoritesTypeOK /\ Decided

LEMMA NoFavoritesType == NoFavorites \in FavoriteList
BY DEF NoFavorites, FavoriteList

LEMMA NoEditType ==
    /\ NoEdit \in [pc : {"idle", "look", "load", "open", "write"}, kind : EditKind \cup {"add"},
                   symbol : Symbol \cup {Absent}, read : FavoriteList]
    /\ NoEdit.pc = "idle"
BY NoFavoritesType DEF NoEdit, EditKind

LEMMA LoadedType == FavoritesTypeOK => Loaded \in FavoriteList
BY NoFavoritesType DEF FavoritesTypeOK, Loaded

\* An edit makes favorites of favorites.
LEMMA EditedType ==
    ASSUME NEW f \in FavoriteList, NEW kind, NEW s \in Symbol
    PROVE  Edited(f, kind, s) \in FavoriteList
BY DEF Edited, FavoriteList, Favorite

LEMMA FavoritesInitInv == FavoritesInit => FavoritesInv
BY NoFavoritesType, NoEditType DEF FavoritesInit, FavoritesInv, FavoritesTypeOK, Decided

LEMMA FavoritesStepInv == FavoritesInv /\ [FavoritesNext]_favoritesVars => FavoritesInv'
<1> SUFFICES ASSUME FavoritesInv, [FavoritesNext]_favoritesVars PROVE FavoritesInv'
  OBVIOUS
<1> DEFINE EditType == [pc : {"idle", "look", "load", "open", "write"}, kind : EditKind \cup {"add"},
                        symbol : Symbol \cup {Absent}, read : FavoriteList]
<1>0. FavoritesTypeOK /\ edit \in [Tab -> EditType] /\ Decided /\ NoEdit \in EditType
  BY NoEditType DEF FavoritesInv, FavoritesTypeOK
<1>1. ASSUME NEW t \in Tab, BeginEdit(t) PROVE FavoritesInv'
  <2>1. PICK kind \in EditKind, s \in Symbol :
           edit' = [edit EXCEPT ![t] =
             [NoEdit EXCEPT !.pc = IF kind = "toggle" THEN "look" ELSE "load",
                            !.kind = kind, !.symbol = s]]
    BY <1>1 DEF BeginEdit
  <2> DEFINE e == [NoEdit EXCEPT !.pc = IF kind = "toggle" THEN "look" ELSE "load",
                                 !.kind = kind, !.symbol = s]
  <2>2. e \in EditType /\ e.pc = (IF kind = "toggle" THEN "look" ELSE "load") /\ e.kind = kind
        /\ e.symbol = s
    BY <1>0, NoEditType DEF EditKind
  <2> HIDE DEF e
  <2>3. edit' = [edit EXCEPT ![t] = e]
    BY <2>1 DEF e
  <2>4. FavoritesTypeOK'
    BY <1>0, <1>1, <2>2, <2>3 DEF BeginEdit, FavoritesTypeOK
  <2>5. Decided'
    BY <1>0, <2>2, <2>3 DEF Decided, EditKind
  <2>6. QED
    BY <2>4, <2>5 DEF FavoritesInv
<1>2. ASSUME NEW t \in Tab, Look(t) PROVE FavoritesInv'
  <2> DEFINE kind == IF Loaded[edit[t].symbol] = Absent THEN "add" ELSE "remove"
             e    == [edit[t] EXCEPT !.pc = "load", !.kind = kind]
  <2>1. e \in EditType /\ e.pc = "load" /\ e.kind \in {"add", "remove"} /\ e.symbol = edit[t].symbol
    BY <1>0 DEF EditKind
  <2>2. edit' = [edit EXCEPT ![t] = e]
    BY <1>0, <1>2 DEF Look
  <2> HIDE DEF e
  <2>3. FavoritesTypeOK'
    BY <1>0, <1>2, <2>1, <2>2 DEF Look, FavoritesTypeOK
  <2>4. Decided'
    BY <1>0, <1>2, <2>1, <2>2 DEF Look, Decided
  <2>5. QED
    BY <2>3, <2>4 DEF FavoritesInv
<1>3. ASSUME NEW t \in Tab, LoadFavorites(t) PROVE FavoritesInv'
  <2>1. edit[t].pc = "load" /\ edit[t].symbol \in Symbol /\ edit[t].kind \in {"add", "remove", "note", "touch"}
    BY <1>0, <1>3 DEF LoadFavorites, Decided
  <2>2. Loaded \in FavoriteList
    BY <1>0, LoadedType
  <2>3. CASE NothingToSave(Loaded, edit[t].kind, edit[t].symbol)
    <3>1. edit' = [edit EXCEPT ![t] = NoEdit] /\ wanted' = Edited(wanted, edit[t].kind, edit[t].symbol)
      BY <1>3, <2>3 DEF LoadFavorites
    <3>2. wanted' \in FavoriteList
      BY <1>0, <2>1, <3>1, EditedType DEF FavoritesTypeOK
    <3>3. QED
      BY <1>0, <1>3, <3>1, <3>2, NoEditType
         DEF LoadFavorites, FavoritesTypeOK, Decided, FavoritesInv
  <2>4. CASE ~NothingToSave(Loaded, edit[t].kind, edit[t].symbol)
    <3> DEFINE e == [edit[t] EXCEPT !.pc = "open", !.read = Loaded]
    <3>1. e \in EditType /\ e.pc = "open" /\ e.kind = edit[t].kind /\ e.symbol = edit[t].symbol
      BY <1>0, <2>2
    <3>2. edit' = [edit EXCEPT ![t] = e] /\ wanted' = wanted
      BY <1>0, <1>3, <2>4 DEF LoadFavorites
    <3> HIDE DEF e
    <3>3. QED
      BY <1>0, <1>3, <2>1, <3>1, <3>2 DEF LoadFavorites, FavoritesTypeOK, Decided, FavoritesInv
  <2>5. QED
    BY <2>3, <2>4
<1>4. ASSUME NEW t \in Tab, OpenFavorites(t) PROVE FavoritesInv'
  <2> DEFINE e == [edit[t] EXCEPT !.pc = "write"]
  <2>1. e \in EditType /\ e.pc = "write" /\ e.kind = edit[t].kind /\ e.symbol = edit[t].symbol
    BY <1>0
  <2>2. edit' = [edit EXCEPT ![t] = e]
    BY <1>0, <1>4 DEF OpenFavorites
  <2> HIDE DEF e
  <2>3. QED
    BY <1>0, <1>4, <2>1, <2>2 DEF OpenFavorites, FavoritesTypeOK, Decided, FavoritesInv
<1>5. ASSUME NEW t \in Tab, WriteFavorites(t) PROVE FavoritesInv'
  <2>1. edit' = [edit EXCEPT ![t] = NoEdit] /\ cut' \in BOOLEAN
    BY <1>5 DEF WriteFavorites
  <2>2. edit[t].symbol \in Symbol /\ edit[t].read \in FavoriteList /\ wanted \in FavoriteList
    BY <1>0, <1>5 DEF WriteFavorites, Decided, FavoritesTypeOK
  <2>3. favorites' \in FavoriteList /\ wanted' \in FavoriteList
    BY <1>5, <2>2, EditedType DEF WriteFavorites
  <2>4. QED
    BY <1>0, <1>5, <2>1, <2>3, NoEditType
       DEF WriteFavorites, FavoritesTypeOK, Decided, FavoritesInv
<1>6. ASSUME NEW t \in Tab, LoadFails(t) PROVE FavoritesInv'
  BY <1>0, <1>6, NoEditType DEF LoadFails, FavoritesTypeOK, Decided, FavoritesInv
<1>7. CASE FavoritesKilled
  BY <1>0, <1>7, NoEditType DEF FavoritesKilled, FavoritesTypeOK, Decided, FavoritesInv
<1>8. CASE UNCHANGED favoritesVars
  BY <1>8 DEF favoritesVars, FavoritesInv, FavoritesTypeOK, Decided
<1>9. QED
  BY <1>1, <1>2, <1>3, <1>4, <1>5, <1>6, <1>7, <1>8 DEF FavoritesNext

\* The types of the file, of its edits and of their history.
THEOREM FavoritesTypeCorrect == FavoritesSpec => []FavoritesTypeOK
BY FavoritesInitInv, FavoritesStepInv, PTL DEF FavoritesSpec, FavoritesInv

-----------------------------------------------------------------------------
(* WatchlistGroups.                                                        *)

\* A group list and the drafts that are well-formed and place symbols in groups
\* they have.
Consistent(g) ==
    /\ WellFormed(g)
    /\ \A s \in Placeable : g.place[s] \in ToSet(g.order) \cup {Unplaced}

GroupsInv ==
    /\ GroupsTypeOK
    /\ Consistent(groups)
    /\ \A t \in Editor : Open(t) => Consistent(draft[t])

\* An order of at most MaxGroups groups.
Orders == UNION {[1..n -> GroupId] : n \in 0..MaxGroups}

LEMMA OrdersByLength ==
    ASSUME NEW o
    PROVE  o \in Orders <=> o \in Seq(GroupId) /\ Len(o) <= MaxGroups
<1>1. ASSUME NEW n \in 0..MaxGroups, o \in [1..n -> GroupId]
      PROVE  o \in Seq(GroupId) /\ Len(o) <= MaxGroups
  BY <1>1, GroupsAssumption
<1>2. ASSUME o \in Seq(GroupId), Len(o) <= MaxGroups
      PROVE  Len(o) \in 0..MaxGroups /\ o \in [1..Len(o) -> GroupId]
  BY <1>2, GroupsAssumption
<1>3. QED
  BY <1>1, <1>2 DEF Orders

LEMMA GroupsType ==
    Groups = [order : Orders, name : [GroupId -> Name \cup {Unplaced}],
              place : [Placeable -> GroupId \cup {Unplaced}]]
BY DEF Groups, Orders

\* The parts of a group list.
LEMMA GroupsFields ==
    ASSUME NEW g \in Groups
    PROVE  /\ g.order \in Seq(GroupId) /\ Len(g.order) <= MaxGroups /\ Len(g.order) \in Nat
           /\ DOMAIN g.order = 1..Len(g.order)
           /\ ToSet(g.order) \subseteq GroupId
           /\ g.name \in [GroupId -> Name \cup {Unplaced}]
           /\ g.place \in [Placeable -> GroupId \cup {Unplaced}]
<1>1. g.order \in Seq(GroupId) /\ Len(g.order) <= MaxGroups
  BY GroupsType, OrdersByLength
<1>2. QED
  BY <1>1, GroupsType DEF ToSet

LEMMA Removed ==
    ASSUME NEW S, NEW o \in Seq(S), NEW i \in DOMAIN o
    PROVE  /\ RemoveAt(o, i) \in Seq(S)
           /\ Len(RemoveAt(o, i)) = Len(o) - 1
           /\ \A k \in 1..(Len(o) - 1) : RemoveAt(o, i)[k] = IF k < i THEN o[k] ELSE o[k + 1]
<1> DEFINE a == SubSeq(o, 1, i - 1)
           b == SubSeq(o, i + 1, Len(o))
<1>1. Len(o) \in Nat /\ i \in 1..Len(o)
  OBVIOUS
<1>2. a \in Seq(S) /\ Len(a) = i - 1 /\ \A k \in 1..(i - 1) : a[k] = o[k]
  BY <1>1
<1>3. b \in Seq(S) /\ Len(b) = Len(o) - i /\ \A k \in 1..(Len(o) - i) : b[k] = o[k + i]
  BY <1>1
<1> HIDE DEF a, b
<1>4. /\ a \o b \in Seq(S) /\ Len(a \o b) = Len(a) + Len(b)
      /\ \A k \in 1..(Len(a) + Len(b)) : (a \o b)[k] = IF k <= Len(a) THEN a[k] ELSE b[k - Len(a)]
  BY <1>2, <1>3, ConcatProperties
<1>5. ASSUME NEW k \in 1..(Len(o) - 1)
      PROVE  (a \o b)[k] = IF k < i THEN o[k] ELSE o[k + 1]
  <2>1. CASE k < i
    <3>1. k \in 1..(i - 1) /\ k \in 1..(Len(a) + Len(b)) /\ k <= Len(a)
      BY <1>1, <1>2, <1>3, <2>1
    <3>2. (a \o b)[k] = a[k] /\ a[k] = o[k]
      BY <1>2, <1>4, <3>1
    <3>3. QED
      BY <2>1, <3>2
  <2>2. CASE ~(k < i)
    <3>1. k - (i - 1) \in 1..(Len(o) - i)
      BY <1>1, <2>2
    <3>2. b[k - (i - 1)] = o[(k - (i - 1)) + i]
      BY <1>3, <3>1
    <3>3. (k - (i - 1)) + i = k + 1
      BY <1>1
    <3>4. k \in 1..(Len(a) + Len(b)) /\ ~(k <= Len(a)) /\ k - Len(a) = k - (i - 1)
      BY <1>1, <1>2, <1>3, <2>2
    <3>5. QED
      BY <1>4, <2>2, <3>2, <3>3, <3>4
  <2>3. QED
    BY <2>1, <2>2
<1>6. RemoveAt(o, i) = a \o b
  BY DEF RemoveAt, a, b
<1>7. Len(a \o b) = Len(o) - 1
  BY <1>1, <1>2, <1>3, <1>4
<1>8. QED
  BY <1>4, <1>5, <1>6, <1>7

LEMMA GroupsInitInv == GroupsInit => GroupsInv
<1> SUFFICES ASSUME GroupsInit PROVE GroupsInv
  OBVIOUS
<1>1. <<>> \in Seq(GroupId) /\ Len(<<>>) = 0 /\ DOMAIN <<>> = {}
  OBVIOUS
<1>2. NoGroups \in Groups
  <2>1. /\ [g \in GroupId |-> Unplaced] \in [GroupId -> Name \cup {Unplaced}]
        /\ [s \in Placeable |-> Unplaced] \in [Placeable -> GroupId \cup {Unplaced}]
        /\ Len(<<>>) <= MaxGroups
    BY <1>1, GroupsAssumption
  <2>2. QED
    BY <1>1, <2>1, GroupsType, OrdersByLength DEF NoGroups
<1>3. Consistent(NoGroups)
  BY <1>1, GroupsAssumption DEF NoGroups, Consistent, WellFormed, IsInjective
<1>4. QED
  BY <1>2, <1>3 DEF GroupsInit, GroupsInv, GroupsTypeOK, Open

\* A consistent draft keeps the invariant.
LEMMA DraftedInv ==
    ASSUME GroupsInv, NEW t \in Editor, NEW d \in Groups, Consistent(d), Drafted(t, d)
    PROVE  GroupsInv'
BY DEF GroupsInv, GroupsTypeOK, Drafted, Open

LEMMA AddGroupInv ==
    ASSUME GroupsInv, NEW t \in Editor, NEW name \in Name, AddGroup(t, name)
    PROVE  GroupsInv'
<1> DEFINE d == draft[t]
<1>1. d \in Groups /\ Consistent(d) /\ Len(d.order) < MaxGroups
      /\ \A g \in GroupId : d.name[g] # name
  <2>1. draft[t] # Unplaced /\ draft \in [Editor -> Groups \cup {Unplaced}]
    BY DEF AddGroup, Open, GroupsInv, GroupsTypeOK
  <2>2. QED
    BY <2>1 DEF AddGroup, Open, GroupsInv
<1>2. PICK g \in GroupId \ InUse :
         Drafted(t, [d EXCEPT !.order = Append(@, g), !.name[g] = name])
  BY DEF AddGroup
<1>3. g \notin ToSet(d.order)
  BY <1>2 DEF InUse, AddGroup, Open
<1> DEFINE order == Append(d.order, g)
           names == [d.name EXCEPT ![g] = name]
           e == [d EXCEPT !.order = Append(@, g), !.name[g] = name]
<1> HIDE DEF d
<1>4. e.order = order /\ e.name = names /\ e.place = d.place
  BY <1>1, GroupsType
<1>5. /\ order \in Seq(GroupId) /\ Len(order) = Len(d.order) + 1 /\ order[Len(order)] = g
      /\ \A i \in 1..Len(d.order) : order[i] = d.order[i]
      /\ DOMAIN order = 1..(Len(d.order) + 1)
  BY <1>1, <1>2, GroupsFields
<1>6. names \in [GroupId -> Name \cup {Unplaced}] /\ names[g] = name
      /\ \A h \in GroupId \ {g} : names[h] = d.name[h]
  BY <1>1, <1>2, GroupsFields
<1>7. \A i \in 1..Len(d.order) : d.order[i] \in GroupId \ {g}
  BY <1>1, <1>3, GroupsFields DEF ToSet
<1>8. Len(d.order) \in Nat /\ Len(d.order) + 1 <= MaxGroups /\ DOMAIN d.order = 1..Len(d.order)
  BY <1>1, GroupsFields, GroupsAssumption
<1> HIDE DEF order, names
<1>9. e \in Groups
  <2>1. order \in Orders
    BY <1>5, <1>8, OrdersByLength
  <2>2. QED
    BY <1>1, <1>6, <2>1, GroupsType DEF order, names
<1> HIDE DEF e
<1>10. WellFormed(e)
  <2>1. IsInjective(order)
    <3>1. SUFFICES ASSUME NEW i \in DOMAIN order, NEW j \in DOMAIN order, order[i] = order[j]
                   PROVE  i = j
      BY DEF IsInjective
    <3>2. QED
      BY <1>1, <1>5, <1>7, <1>8, <3>1 DEF Consistent, WellFormed, IsInjective
  <2>2. ASSUME NEW i \in DOMAIN order, NEW j \in DOMAIN order, i # j
        PROVE  names[order[i]] # names[order[j]]
    BY <1>1, <1>2, <1>5, <1>6, <1>7, <1>8, <2>2 DEF Consistent, WellFormed
  <2>3. QED
    BY <1>4, <1>5, <1>8, <2>1, <2>2 DEF WellFormed
<1>11. ToSet(d.order) \subseteq ToSet(order)
  BY <1>5, <1>8 DEF ToSet
<1>12. Consistent(e)
  BY <1>1, <1>4, <1>10, <1>11 DEF Consistent
<1>13. Drafted(t, e)
  BY <1>2 DEF e, d
<1>14. QED
  BY <1>9, <1>12, <1>13, DraftedInv

LEMMA RenameGroupInv ==
    ASSUME GroupsInv, NEW t \in Editor, NEW name \in Name, RenameGroup(t, name)
    PROVE  GroupsInv'
<1> DEFINE d == draft[t]
<1>1. d \in Groups /\ Consistent(d)
  BY DEF RenameGroup, Open, GroupsInv, GroupsTypeOK
<1>2. PICK g \in ToSet(d.order) :
         /\ \A h \in GroupId \ {g} : d.name[h] # name
         /\ Drafted(t, [d EXCEPT !.name[g] = name])
  BY DEF RenameGroup
<1> DEFINE names == [d.name EXCEPT ![g] = name]
           e == [d EXCEPT !.name[g] = name]
<1> HIDE DEF d
<1>3. g \in GroupId /\ d.name \in [GroupId -> Name \cup {Unplaced}]
      /\ d.order \in Seq(GroupId)
  BY <1>1, GroupsFields
<1>4. e.order = d.order /\ e.name = names /\ e.place = d.place /\ e \in Groups
  BY <1>1, <1>3, GroupsType
<1>5. names[g] = name /\ \A h \in GroupId \ {g} : names[h] = d.name[h]
  BY <1>3
<1> HIDE DEF e, names
<1>6. ASSUME NEW i \in DOMAIN d.order, NEW j \in DOMAIN d.order, i # j
      PROVE  names[d.order[i]] # names[d.order[j]]
  <2>1. d.order[i] \in GroupId /\ d.order[j] \in GroupId /\ d.order[i] # d.order[j]
        /\ d.name[d.order[i]] # d.name[d.order[j]]
    BY <1>1, <1>3, <1>6 DEF Consistent, WellFormed, IsInjective
  <2>2. QED
    BY <1>2, <1>5, <2>1
<1>7. Consistent(e)
  BY <1>1, <1>4, <1>6 DEF Consistent, WellFormed
<1>8. QED
  BY <1>2, <1>4, <1>7, DraftedInv DEF d, e

LEMMA DeleteGroupInv ==
    ASSUME GroupsInv, NEW t \in Editor, DeleteGroup(t)
    PROVE  GroupsInv'
<1> DEFINE d == draft[t]
<1>1. d \in Groups /\ Consistent(d)
  BY DEF DeleteGroup, Open, GroupsInv, GroupsTypeOK
<1>2. PICK k \in DOMAIN d.order :
         Drafted(t, [order |-> RemoveAt(d.order, k),
                     name  |-> [d.name EXCEPT ![d.order[k]] = Unplaced],
                     place |-> [s \in Placeable |-> IF d.place[s] = d.order[k] THEN Unplaced
                                                 ELSE d.place[s]]])
  BY DEF DeleteGroup
<1> DEFINE g     == d.order[k]
           order == RemoveAt(d.order, k)
           names == [d.name EXCEPT ![g] = Unplaced]
           place == [s \in Placeable |-> IF d.place[s] = g THEN Unplaced ELSE d.place[s]]
           e     == [order |-> order, name |-> names, place |-> place]
           n     == Len(d.order)
           old(i) == IF i < k THEN i ELSE i + 1
<1> HIDE DEF d
<1>3. /\ d.order \in Seq(GroupId) /\ n \in Nat /\ n <= MaxGroups /\ DOMAIN d.order = 1..n
      /\ k \in 1..n /\ g \in GroupId
      /\ d.name \in [GroupId -> Name \cup {Unplaced}]
      /\ d.place \in [Placeable -> GroupId \cup {Unplaced}]
  BY <1>1, <1>2, GroupsFields
<1>4. /\ order \in Seq(GroupId) /\ Len(order) = n - 1 /\ DOMAIN order = 1..(n - 1)
      /\ \A i \in 1..(n - 1) : order[i] = d.order[old(i)]
  BY <1>3, Removed
<1>5. /\ \A i \in 1..(n - 1) : old(i) \in 1..n /\ old(i) # k
      /\ \A i, j \in 1..(n - 1) : old(i) = old(j) => i = j
  BY <1>3
<1>6. ASSUME NEW i \in 1..n, i # k PROVE \E j \in 1..(n - 1) : old(j) = i
  <2>1. CASE i < k
    BY <1>3, <2>1
  <2>2. CASE ~(i < k)
    <3>1. i - 1 \in 1..(n - 1) /\ old(i - 1) = i
      BY <1>3, <1>6, <2>2
    <3>2. QED
      BY <3>1
  <2>3. QED
    BY <2>1, <2>2
<1>7. \A i \in 1..n : i # k => d.order[i] \in GroupId \ {g}
  BY <1>1, <1>3 DEF Consistent, WellFormed, IsInjective
<1>8. \A h \in GroupId \ {g} : names[h] = d.name[h]
  BY <1>3
<1>9. e \in Groups
  <2>1. order \in Orders
    BY <1>3, <1>4, OrdersByLength, GroupsAssumption
  <2>2. names \in [GroupId -> Name \cup {Unplaced}] /\ place \in [Placeable -> GroupId \cup {Unplaced}]
    BY <1>3
  <2>3. QED
    BY <2>1, <2>2, GroupsType
<1> HIDE DEF order, names, n, old, g
<1>10. IsInjective(order)
  <2>1. SUFFICES ASSUME NEW i \in DOMAIN order, NEW j \in DOMAIN order, order[i] = order[j]
                 PROVE  i = j
    BY DEF IsInjective
  <2>2. old(i) \in 1..n /\ old(j) \in 1..n /\ d.order[old(i)] = d.order[old(j)]
    BY <1>4, <1>5, <2>1
  <2>3. old(i) = old(j)
    BY <1>1, <1>3, <2>2 DEF Consistent, WellFormed, IsInjective
  <2>4. QED
    BY <1>4, <1>5, <2>3
<1>11. ASSUME NEW i \in DOMAIN order, NEW j \in DOMAIN order, i # j
       PROVE  names[order[i]] # names[order[j]]
  <2>1. old(i) \in 1..n /\ old(j) \in 1..n /\ old(i) # old(j) /\ old(i) # k /\ old(j) # k
    BY <1>4, <1>5, <1>11
  <2>2. d.name[d.order[old(i)]] # d.name[d.order[old(j)]]
    BY <1>1, <1>3, <2>1 DEF Consistent, WellFormed
  <2>3. QED
    BY <1>4, <1>7, <1>8, <1>11, <2>1, <2>2
<1>12. ASSUME NEW s \in Placeable PROVE place[s] \in ToSet(order) \cup {Unplaced}
  <2>1. CASE d.place[s] = Unplaced \/ d.place[s] = g
    BY <2>1
  <2>2. CASE d.place[s] # Unplaced /\ d.place[s] # g
    <3>1. PICK i \in 1..n : d.place[s] = d.order[i]
      BY <1>1, <1>3, <2>2 DEF Consistent, ToSet
    <3>2. PICK j \in 1..(n - 1) : old(j) = i
      BY <1>6, <2>2, <3>1 DEF g
    <3>3. order[j] = d.place[s]
      BY <1>4, <3>1, <3>2
    <3>4. QED
      BY <1>4, <2>2, <3>3 DEF ToSet
  <2>3. QED
    BY <2>1, <2>2
<1>13. Len(order) <= MaxGroups
  BY <1>3, <1>4, GroupsAssumption
<1>14. Consistent(e)
  BY <1>10, <1>11, <1>12, <1>13 DEF Consistent, WellFormed
<1>15. Drafted(t, e)
  BY <1>2 DEF order, names, g
<1>16. QED
  BY <1>9, <1>14, <1>15, DraftedInv

LEMMA MoveGroupInv ==
    ASSUME GroupsInv, NEW t \in Editor, MoveGroup(t)
    PROVE  GroupsInv'
<1> DEFINE d == draft[t]
<1>1. d \in Groups /\ Consistent(d)
  BY DEF MoveGroup, Open, GroupsInv, GroupsTypeOK
<1>2. PICK k \in 1..(Len(d.order) - 1) :
         Drafted(t, [d EXCEPT !.order[k] = d.order[k + 1], !.order[k + 1] = d.order[k]])
  BY DEF MoveGroup
<1> DEFINE n     == Len(d.order)
           order == [[d.order EXCEPT ![k] = d.order[k + 1]] EXCEPT ![k + 1] = d.order[k]]
           e     == [d EXCEPT !.order[k] = d.order[k + 1], !.order[k + 1] = d.order[k]]
           old(i) == IF i = k THEN k + 1 ELSE IF i = k + 1 THEN k ELSE i
<1> HIDE DEF d
<1>3. /\ d.order \in Seq(GroupId) /\ n \in Nat /\ n <= MaxGroups /\ DOMAIN d.order = 1..n
      /\ k \in 1..n /\ k + 1 \in 1..n /\ k # k + 1 /\ d.order \in [1..n -> GroupId]
  BY <1>1, <1>2, GroupsFields
<1>4. /\ order \in [1..n -> GroupId] /\ order \in Seq(GroupId) /\ Len(order) = n
      /\ \A i \in 1..n : order[i] = d.order[old(i)]
  <2>1. order \in [1..n -> GroupId] /\ DOMAIN order = 1..n
    BY <1>3
  <2>2. \A i \in 1..n : order[i] = d.order[old(i)]
    BY <1>3
  <2> HIDE DEF order, n
  <2>3. order \in Seq(GroupId) /\ Len(order) = n
    BY <1>3, <2>1
  <2>4. QED
    BY <2>1, <2>2, <2>3
<1>5. \A i \in 1..n : old(i) \in 1..n /\ old(old(i)) = i
  BY <1>3
<1>6. e.order = order /\ e.name = d.name /\ e.place = d.place
  BY <1>1, <1>3, GroupsType
<1>7. e \in Groups
  <2>1. order \in Orders
    BY <1>3, <1>4, OrdersByLength
  <2>2. QED
    BY <1>1, <2>1, GroupsType
<1> HIDE DEF order, n, old, e
<1>8. IsInjective(order)
  BY <1>1, <1>3, <1>4, <1>5 DEF Consistent, WellFormed, IsInjective
<1>9. ASSUME NEW i \in DOMAIN order, NEW j \in DOMAIN order, i # j
      PROVE  d.name[order[i]] # d.name[order[j]]
  <2>1. old(i) \in 1..n /\ old(j) \in 1..n /\ old(i) # old(j)
    BY <1>4, <1>5, <1>9
  <2>2. QED
    BY <1>1, <1>3, <1>4, <1>9, <2>1 DEF Consistent, WellFormed
<1>10. ToSet(d.order) \subseteq ToSet(order)
  BY <1>3, <1>4, <1>5 DEF ToSet
<1>11. Consistent(e)
  BY <1>1, <1>3, <1>4, <1>6, <1>8, <1>9, <1>10 DEF Consistent, WellFormed
<1>12. QED
  BY <1>2, <1>7, <1>11, DraftedInv DEF d, e

LEMMA SortInv ==
    ASSUME GroupsInv, NEW t \in Editor, Sort(t)
    PROVE  GroupsInv'
<1> DEFINE d == draft[t]
<1>1. d \in Groups /\ Consistent(d)
  BY DEF Sort, Open, GroupsInv, GroupsTypeOK
<1>2. PICK board \in [Placeable -> ToSet(d.order) \cup {Unplaced}] :
         Drafted(t, [d EXCEPT !.place = board])
  BY DEF Sort
<1> DEFINE e == [d EXCEPT !.place = board]
<1> HIDE DEF d
<1>3. board \in [Placeable -> GroupId \cup {Unplaced}]
  BY <1>1, GroupsFields
<1>4. e.order = d.order /\ e.name = d.name /\ e.place = board /\ e \in Groups
  BY <1>1, <1>3, GroupsType
<1>5. Consistent(e)
  BY <1>1, <1>4 DEF Consistent, WellFormed
<1>6. QED
  BY <1>2, <1>4, <1>5, DraftedInv DEF d

LEMMA GroupsStepInv == GroupsInv /\ [GroupsNext]_groupsVars => GroupsInv'
<1> SUFFICES ASSUME GroupsInv, [GroupsNext]_groupsVars PROVE GroupsInv'
  OBVIOUS
<1>1. ASSUME NEW t \in Editor, OpenEditor(t) PROVE GroupsInv'
  BY <1>1, DraftedInv DEF OpenEditor, GroupsInv, GroupsTypeOK
<1>2. ASSUME NEW t \in Editor, SaveDraft(t) PROVE GroupsInv'
  BY <1>2 DEF SaveDraft, GroupsInv, GroupsTypeOK, Open
<1>3. ASSUME NEW t \in Editor, CancelDraft(t) PROVE GroupsInv'
  BY <1>3 DEF CancelDraft, Drafted, GroupsInv, GroupsTypeOK, Open
<1>4. CASE DraftsLost
  BY <1>4 DEF DraftsLost, GroupsInv, GroupsTypeOK, Open
<1>5. CASE UNCHANGED groupsVars
  BY <1>5 DEF groupsVars, GroupsInv, GroupsTypeOK, Open
<1>6. QED
  BY <1>1, <1>2, <1>3, <1>4, <1>5, AddGroupInv, RenameGroupInv, DeleteGroupInv, MoveGroupInv, SortInv
     DEF GroupsNext

\* The types of the group file and of the drafts.
THEOREM GroupsTypeCorrect == GroupsSpec => []GroupsTypeOK
BY GroupsInitInv, GroupsStepInv, PTL DEF GroupsSpec, GroupsInv

\* Whatever editors add, rename, delete, move, sort, save and lose, the file and
\* all drafts stay well-formed and place symbols in groups they have.
THEOREM GroupsStayConsistent == GroupsSpec => []GroupsConsistent
<1>1. GroupsInv => GroupsConsistent
  BY DEF GroupsInv, Consistent, GroupsConsistent
<1>2. QED
  BY <1>1, GroupsInitInv, GroupsStepInv, PTL DEF GroupsSpec

-----------------------------------------------------------------------------
(* PortfolioRebalance.                                                     *)

\* Of some subsets of a finite set, one has no smaller one among them.
LEMMA SmallestSet ==
    ASSUME NEW S, IsFiniteSet(S), NEW B \in SUBSET SUBSET S, B # {}
    PROVE  \E m \in B : \A x \in m : m \ {x} \notin B
<1>1. \A s \in B : IsFiniteSet(s) /\ Cardinality(s) \in Nat
  BY FS_Subset, FS_CardinalityType
<1> DEFINE C == {Cardinality(s) : s \in B}
<1>2. C \in SUBSET Nat /\ C # {}
  BY <1>1
<1>3. PICK n \in C : \A k \in C : n <= k
  BY <1>2, LeastNumber
<1>4. PICK m \in B : n = Cardinality(m)
  BY <1>3
<1>5. ASSUME NEW x \in m, m \ {x} \in B PROVE FALSE
  <2>1. Cardinality(m \ {x}) = Cardinality(m) - 1
    BY <1>1, FS_RemoveElement
  <2>2. n <= Cardinality(m \ {x})
    BY <1>3, <1>5
  <2>3. QED
    BY <1>1, <1>4, <2>1, <2>2
<1>6. QED
  BY <1>5

\* SumFunction adds the value at a member of the set to the sum over the others;
\* Summation says so of a function that sums f over the subsets of S.
One(s) == CHOOSE x \in s : TRUE
Summation(f, S, g) ==
    g = [s \in SUBSET S |-> IF s = {} THEN 0 ELSE f[One(s)] + g[s \ {One(s)}]]
SumOver(f, S) == (CHOOSE g : Summation(f, S, g))[S]

LEMMA SumFunctionIsSumOver == ASSUME NEW f PROVE SumFunction(f) = SumOver(f, DOMAIN f)
BY DEF SumFunction, SumFunctionOnSet, FoldFunctionOnSet, MapThenFoldSet, SumOver,
       Summation, One

LEMMA OneIsMember == \A s : s # {} => One(s) \in s
BY DEF One

LEMMA SummationIsUnique ==
    ASSUME NEW f, NEW S, IsFiniteSet(S), NEW g, NEW h, Summation(f, S, g), Summation(f, S, h)
    PROVE  g = h
<1> DEFINE B == {s \in SUBSET S : g[s] # h[s]}
<1>1. SUFFICES ASSUME B # {} PROVE FALSE
  BY DEF Summation
<1>2. PICK m \in B : \A x \in m : m \ {x} \notin B
  BY <1>1, SmallestSet
<1>3. m # {} /\ One(m) \in m
  BY <1>2, OneIsMember DEF Summation
<1>4. g[m \ {One(m)}] = h[m \ {One(m)}]
  BY <1>2, <1>3
<1>5. /\ g[m] = f[One(m)] + g[m \ {One(m)}]
      /\ h[m] = f[One(m)] + h[m \ {One(m)}]
  BY <1>2, <1>3 DEF Summation
<1>6. QED
  BY <1>2, <1>4, <1>5

LEMMA SummationOfSubset ==
    ASSUME NEW f, NEW S, NEW g, Summation(f, S, g), NEW T \in SUBSET S
    PROVE  Summation(f, T, [s \in SUBSET T |-> g[s]])
<1> DEFINE h == [s \in SUBSET T |-> g[s]]
<1>1. ASSUME NEW s \in SUBSET T
      PROVE  h[s] = IF s = {} THEN 0 ELSE f[One(s)] + h[s \ {One(s)}]
  <2>1. g[s] = IF s = {} THEN 0 ELSE f[One(s)] + g[s \ {One(s)}]
    BY DEF Summation
  <2>2. s \ {One(s)} \in SUBSET T
    OBVIOUS
  <2>3. h[s] = g[s] /\ h[s \ {One(s)}] = g[s \ {One(s)}]
    BY <2>2
  <2> HIDE DEF h
  <2>4. QED
    BY <2>1, <2>3
<1>2. h = [s \in SUBSET T |-> h[s]]
  OBVIOUS
<1> HIDE DEF h
<1>3. h = [s \in SUBSET T |-> IF s = {} THEN 0 ELSE f[One(s)] + h[s \ {One(s)}]]
  BY <1>1, <1>2
<1>4. QED
  BY <1>3 DEF Summation, h

\* Where there is a summation, SumOver is one.
LEMMA SumOverUnfolds ==
    ASSUME NEW f, NEW S, IsFiniteSet(S), \E g : Summation(f, S, g)
    PROVE  SumOver(f, S) = IF S = {} THEN 0 ELSE f[One(S)] + SumOver(f, S \ {One(S)})
<1>1. PICK g : Summation(f, S, g) /\ g = (CHOOSE e : Summation(f, S, e))
  OBVIOUS
<1>2. g[S] = IF S = {} THEN 0 ELSE f[One(S)] + g[S \ {One(S)}]
  BY <1>1 DEF Summation
<1> DEFINE T == S \ {One(S)}
           h == [s \in SUBSET T |-> g[s]]
<1>3. Summation(f, T, h) /\ IsFiniteSet(T)
  <2>1. T \in SUBSET S /\ IsFiniteSet(T)
    BY FS_Subset
  <2>2. Summation(f, T, h)
    BY <1>1, <2>1, SummationOfSubset
  <2>3. QED
    BY <2>1, <2>2
<1>4. h[T] = g[T]
  OBVIOUS
<1> HIDE DEF h
<1>5. Summation(f, T, CHOOSE e : Summation(f, T, e))
  BY <1>3
<1>6. h = (CHOOSE e : Summation(f, T, e))
  BY <1>3, <1>5, SummationIsUnique
<1>7. SumOver(f, T) = g[T]
  BY <1>4, <1>6 DEF SumOver
<1>8. SumOver(f, S) = g[S]
  BY <1>1 DEF SumOver
<1>9. QED
  BY <1>2, <1>7, <1>8

LEMMA SummationExists ==
    ASSUME NEW f, NEW S, IsFiniteSet(S) PROVE \E g : Summation(f, S, g)
<1> DEFINE B == {s \in SUBSET S : ~ \E g : Summation(f, s, g)}
<1>1. SUFFICES ASSUME B # {} PROVE FALSE
  OBVIOUS
<1>2. PICK m \in B : \A x \in m : m \ {x} \notin B
  BY <1>1, SmallestSet
<1> DEFINE G == [t \in SUBSET m |-> IF t # m THEN SumOver(f, t)
                                    ELSE IF m = {} THEN 0
                                    ELSE f[One(m)] + SumOver(f, m \ {One(m)})]
<1>3. ASSUME NEW t \in SUBSET m, t # m
      PROVE  SumOver(f, t) = IF t = {} THEN 0 ELSE f[One(t)] + SumOver(f, t \ {One(t)})
  <2>1. PICK y \in m : t \in SUBSET (m \ {y})
    BY <1>3
  <2>2. PICK g : Summation(f, m \ {y}, g)
    BY <1>2
  <2>3. Summation(f, t, [s \in SUBSET t |-> g[s]])
    BY <2>1, <2>2, SummationOfSubset
  <2>4. IsFiniteSet(t)
    BY FS_Subset
  <2>5. \E h : Summation(f, t, h)
    BY <2>3
  <2>6. QED
    BY <2>4, <2>5, SumOverUnfolds
<1>4. ASSUME NEW t \in SUBSET m
      PROVE  G[t] = IF t = {} THEN 0 ELSE f[One(t)] + G[t \ {One(t)}]
  <2>1. CASE t = {}
    BY <1>3, <2>1
  <2>2. CASE t # {}
    <3>1. One(t) \in t
      BY <2>2, OneIsMember
    <3>2. t \ {One(t)} \in SUBSET m /\ t \ {One(t)} # m
      BY <3>1
    <3>3. G[t \ {One(t)}] = SumOver(f, t \ {One(t)})
      BY <3>2
    <3>4. G[t] = f[One(t)] + SumOver(f, t \ {One(t)})
      BY <1>3, <2>2
    <3>5. QED
      BY <2>2, <3>3, <3>4
  <2>3. QED
    BY <2>1, <2>2
<1>5. G = [t \in SUBSET m |-> G[t]]
  OBVIOUS
<1> HIDE DEF G
<1>6. G = [t \in SUBSET m |-> IF t = {} THEN 0 ELSE f[One(t)] + G[t \ {One(t)}]]
  BY <1>4, <1>5
<1>7. Summation(f, m, G)
  BY <1>6 DEF Summation
<1>8. QED
  BY <1>2, <1>7

LEMMA SumOverStep ==
    ASSUME NEW f, NEW S, IsFiniteSet(S)
    PROVE  SumOver(f, S) = IF S = {} THEN 0 ELSE f[One(S)] + SumOver(f, S \ {One(S)})
BY SummationExists, SumOverUnfolds

\* Sums of whole numbers are whole numbers.
LEMMA SumOverInt ==
    ASSUME NEW S, IsFiniteSet(S), NEW f, \A x \in S : f[x] \in Int
    PROVE  SumOver(f, S) \in Int
<1> DEFINE B == {s \in SUBSET S : SumOver(f, s) \notin Int}
<1>1. SUFFICES ASSUME B # {} PROVE FALSE
  OBVIOUS
<1>2. PICK m \in B : \A x \in m : m \ {x} \notin B
  BY <1>1, SmallestSet
<1>3. IsFiniteSet(m)
  BY <1>2, FS_Subset
<1>4. SumOver(f, m) = IF m = {} THEN 0 ELSE f[One(m)] + SumOver(f, m \ {One(m)})
  BY <1>3, SumOverStep
<1>5. m # {} /\ One(m) \in m
  BY <1>2, <1>4, OneIsMember
<1>6. SumOver(f, m \ {One(m)}) \in Int /\ f[One(m)] \in Int
  BY <1>2, <1>5
<1>7. QED
  BY <1>2, <1>4, <1>5, <1>6

\* What holds of the summands holds of the sums.
LEMMA SumsCompare ==
    ASSUME NEW S, IsFiniteSet(S), NEW a \in Int, NEW b \in Int, NEW c \in Int, NEW d \in Int,
           NEW f, NEW g, NEW h, NEW e,
           \A x \in S : f[x] \in Int /\ g[x] \in Int /\ h[x] \in Int /\ e[x] \in Int,
           \A x \in S : a * f[x] <= b * g[x] + c * h[x] + d * e[x]
    PROVE  a * SumOver(f, S) <= b * SumOver(g, S) + c * SumOver(h, S) + d * SumOver(e, S)
<1> DEFINE Holds(s) ==
       a * SumOver(f, s) <= b * SumOver(g, s) + c * SumOver(h, s) + d * SumOver(e, s)
           B == {s \in SUBSET S : ~Holds(s)}
<1>1. SUFFICES ASSUME B # {} PROVE FALSE
  OBVIOUS
<1>2. PICK m \in B : \A x \in m : m \ {x} \notin B
  BY <1>1, SmallestSet
<1>3. IsFiniteSet(m)
  BY <1>2, FS_Subset
<1> DEFINE x == One(m)
           n == m \ {x}
<1>4. CASE m = {}
  <2>1. SumOver(f, m) = 0 /\ SumOver(g, m) = 0 /\ SumOver(h, m) = 0 /\ SumOver(e, m) = 0
    BY <1>3, <1>4, SumOverStep
  <2>2. QED
    BY <1>2, <2>1
<1>5. CASE m # {}
  <2>1. x \in m /\ n \in SUBSET S /\ IsFiniteSet(n)
    BY <1>3, <1>5, OneIsMember, FS_Subset
  <2>2. Holds(n)
    BY <1>2, <2>1
  <2>3. /\ SumOver(f, m) = f[x] + SumOver(f, n) /\ SumOver(g, m) = g[x] + SumOver(g, n)
        /\ SumOver(h, m) = h[x] + SumOver(h, n) /\ SumOver(e, m) = e[x] + SumOver(e, n)
    BY <1>3, <1>5, SumOverStep
  <2>4. /\ SumOver(f, n) \in Int /\ SumOver(g, n) \in Int
        /\ SumOver(h, n) \in Int /\ SumOver(e, n) \in Int
    <3>1. \A y \in n : f[y] \in Int /\ g[y] \in Int /\ h[y] \in Int /\ e[y] \in Int
      BY <2>1
    <3>2. QED
      BY <2>1, <3>1, SumOverInt
  <2>5. /\ f[x] \in Int /\ g[x] \in Int /\ h[x] \in Int /\ e[x] \in Int
        /\ a * f[x] <= b * g[x] + c * h[x] + d * e[x]
    BY <1>2, <2>1
  <2>6. ~Holds(m)
    BY <1>2
  <2> HIDE DEF x, n
  <2>7. ASSUME NEW k \in Int, NEW i \in Int, NEW j \in Int PROVE k * (i + j) = k * i + k * j
    OBVIOUS
  <2>8. /\ a * SumOver(f, m) = a * f[x] + a * SumOver(f, n)
        /\ b * SumOver(g, m) = b * g[x] + b * SumOver(g, n)
        /\ c * SumOver(h, m) = c * h[x] + c * SumOver(h, n)
        /\ d * SumOver(e, m) = d * e[x] + d * SumOver(e, n)
    BY <2>3, <2>4, <2>5, <2>7
  <2>9. ASSUME NEW k \in Int, NEW i \in Int PROVE k * i \in Int
    OBVIOUS
  <2>10. /\ a * f[x] \in Int /\ b * g[x] \in Int /\ c * h[x] \in Int /\ d * e[x] \in Int
         /\ a * SumOver(f, n) \in Int /\ b * SumOver(g, n) \in Int
         /\ c * SumOver(h, n) \in Int /\ d * SumOver(e, n) \in Int
    BY <2>4, <2>5, <2>9
  <2>11. QED
    BY <2>2, <2>5, <2>6, <2>8, <2>10
<1>6. QED
  BY <1>4, <1>5

-----------------------------------------------------------------------------
\* A rounded quotient is a whole number and misses by half a unit at most.
LEMMA HalfEvenRounds ==
    ASSUME NEW n \in Nat, NEW d \in Nat, d > 0
    PROVE  /\ HalfEven(n, d) \in Nat
           /\ 2 * (HalfEven(n, d) * d) - 2 * n <= d
           /\ 2 * n - 2 * (HalfEven(n, d) * d) <= d
<1> DEFINE q == n \div d
           r == n % d
<1>1. q \in Nat /\ r \in Nat /\ n = d * q + r /\ r < d
  OBVIOUS
<1> HIDE DEF q, r
<1>2. QED
  BY <1>1 DEF HalfEven, q, r

\* The proposal has been made for the account as it is.
Proposed ==
    proposal.status = "proposed" =>
        /\ cash >= 0
        /\ proposal.target \in Weights /\ proposal.valued \in Prices /\ proposal.price \in Prices
        /\ \A a \in Asset :
              /\ proposal.trade[a] = Trade(proposal.valued, proposal.price, proposal.target, a)
              /\ Delta(proposal.valued, proposal.target, a) # 0 => proposal.trade[a] # 0

PortfolioInv == PortfolioTypeOK /\ Proposed

LEMMA PortfolioNumbers ==
    /\ IsFiniteSet(Asset) /\ W \in Nat /\ W > 0 /\ Grain \in Nat /\ Grain > 0
    /\ MaxUnits \in Nat /\ MaxUnits > 0 /\ MaxCash \in Nat
    /\ \A q \in Quotes : q \in Nat /\ q > 0
BY PortfolioAssumption

USE PortfolioNumbers

\* Values and trades are whole numbers.
LEMMA Values ==
    ASSUME PortfolioTypeOK, NEW v \in Prices
    PROVE  /\ TotalValue(v) \in Int /\ (cash >= 0 => TotalValue(v) >= 0)
           /\ \A a \in Asset : units[a] \in Nat /\ v[a] \in Nat /\ v[a] > 0
           /\ TotalValue(v) = cash + SumOver([a \in Asset |-> units[a] * v[a]], Asset)
           /\ SumOver([a \in Asset |-> units[a] * v[a]], Asset) \in Int
<1> DEFINE f == [a \in Asset |-> units[a] * v[a]]
<1>1. \A a \in Asset : units[a] \in Nat /\ v[a] \in Nat /\ v[a] > 0
  BY DEF PortfolioTypeOK, Prices
<1>2. \A a \in Asset : f[a] \in Nat
  BY <1>1
<1>3. DOMAIN f = Asset
  OBVIOUS
<1>4. TotalValue(v) = cash + SumOver(f, Asset)
  BY <1>3, SumFunctionIsSumOver DEF TotalValue
<1> HIDE DEF f
<1>5. SumOver(f, Asset) \in Int
  BY <1>2, SumOverInt
<1>6. 0 <= SumOver(f, Asset)
  <2>1. \A a \in Asset : 0 * f[a] <= 1 * f[a] + 0 * f[a] + 0 * f[a]
    BY <1>2
  <2>2. 0 * SumOver(f, Asset) <= 1 * SumOver(f, Asset) + 0 * SumOver(f, Asset)
                                   + 0 * SumOver(f, Asset)
    <3>1. \A a \in Asset : f[a] \in Int
      BY <1>2
    <3>2. 0 \in Int /\ 1 \in Int /\ IsFiniteSet(Asset)
      OBVIOUS
    <3>3. QED
      BY <2>1, <3>1, <3>2, SumsCompare
  <2>3. QED
    BY <1>5, <2>2
<1>7. cash \in Int
  BY DEF PortfolioTypeOK
<1>8. QED
  BY <1>1, <1>4, <1>5, <1>6, <1>7 DEF f

LEMMA StepsArePositive ==
    ASSUME NEW p \in Prices, NEW a \in Asset
    PROVE  /\ p[a] \in Nat /\ p[a] > 0 /\ Grain * p[a] \in Nat /\ Grain * p[a] > 0
           /\ StepCost(p, a) = W * (Grain * p[a]) /\ StepCost(p, a) \in Nat /\ StepCost(p, a) > 0
<1>1. p[a] \in Nat /\ p[a] > 0
  BY DEF Prices
<1>2. Grain * p[a] \in Nat /\ Grain * p[a] > 0
  BY <1>1
<1>3. StepCost(p, a) = W * (Grain * p[a])
  BY <1>1 DEF StepCost
<1> DEFINE g == Grain * p[a]
<1> HIDE DEF g
<1>4. W * g \in Nat /\ W * g > 0
  BY <1>2 DEF g
<1>5. QED
  BY <1>1, <1>2, <1>3, <1>4 DEF g

LEMMA Deltas ==
    ASSUME PortfolioTypeOK, NEW v \in Prices, NEW p \in Prices, NEW w \in Weights, NEW a \in Asset
    PROVE  w[a] \in Nat /\ Delta(v, w, a) \in Int /\ Trade(v, p, w, a) \in Int
<1>1. units[a] \in Nat /\ v[a] \in Nat /\ v[a] > 0 /\ TotalValue(v) \in Int
  BY Values
<1>2. w[a] \in Nat
  BY DEF Weights
<1>3. StepCost(p, a) \in Nat /\ StepCost(p, a) > 0
  BY StepsArePositive
<1>4. Delta(v, w, a) \in Int
  <2>1. TotalValue(v) * w[a] \in Int
    BY <1>1, <1>2
  <2>2. W * units[a] * v[a] \in Int
    BY <1>1
  <2>3. QED
    BY <2>1, <2>2 DEF Delta
<1>5. Trade(v, p, w, a) \in Int
  <2>1. CASE Delta(v, w, a) >= 0
    BY <1>3, <1>4, <2>1, HalfEvenRounds DEF Trade
  <2>2. CASE ~(Delta(v, w, a) >= 0)
    <3>1. -Delta(v, w, a) \in Nat
      BY <1>4, <2>2
    <3>2. HalfEven(-Delta(v, w, a), StepCost(p, a)) \in Nat
      BY <1>3, <3>1, HalfEvenRounds
    <3>3. QED
      BY <2>2, <3>2 DEF Trade
  <2>3. QED
    BY <2>1, <2>2
<1>6. QED
  BY <1>2, <1>4, <1>5

\* A trade closes its delta but for half a step, and a sale asks for no more
\* than what is held was worth but for half a step.
LEMMA TradeCloses ==
    ASSUME PortfolioTypeOK, cash >= 0, NEW v \in Prices, NEW p \in Prices, NEW w \in Weights,
           NEW a \in Asset
    PROVE  /\ 2 * (Trade(v, p, w, a) * StepCost(p, a)) - 2 * Delta(v, w, a) <= StepCost(p, a)
           /\ 2 * Delta(v, w, a) - 2 * (Trade(v, p, w, a) * StepCost(p, a)) <= StepCost(p, a)
           /\ -2 * (Trade(v, p, w, a) * StepCost(p, a)) <= 2 * (W * units[a] * v[a]) + StepCost(p, a)
<1> DEFINE d == StepCost(p, a)
           D == Delta(v, w, a)
           T == Trade(v, p, w, a)
           H == W * units[a] * v[a]
<1>1. d \in Nat /\ d > 0 /\ D \in Int /\ T \in Int /\ H \in Int
  <2>1. d \in Nat /\ d > 0 /\ D \in Int /\ T \in Int
    BY Deltas, StepsArePositive
  <2>2. units[a] \in Nat /\ v[a] \in Nat
    BY Values
  <2>3. H \in Int
    BY <2>2
  <2>4. QED
    BY <2>1, <2>3
<1>2. D >= -H
  <2>1. TotalValue(v) * w[a] >= 0 /\ TotalValue(v) * w[a] \in Int
    <3> DEFINE V == TotalValue(v)
               k == w[a]
    <3>1. V \in Int /\ V >= 0 /\ k \in Nat
      BY Deltas, Values
    <3> HIDE DEF V, k
    <3>2. V * k >= 0 /\ V * k \in Int
      BY <3>1
    <3>3. QED
      BY <3>2 DEF V, k
  <2>2. D = TotalValue(v) * w[a] - H
    BY DEF Delta
  <2> HIDE DEF D, H
  <2>3. QED
    BY <1>1, <2>1, <2>2
<1>3. 2 * (T * d) - 2 * D <= d /\ 2 * D - 2 * (T * d) <= d /\ T * d \in Int
  <2>1. CASE D >= 0
    <3>1. T = HalfEven(D, d) /\ D \in Nat
      BY <1>1, <2>1 DEF Trade
    <3> HIDE DEF T, D, d
    <3>2. T \in Nat /\ 2 * (T * d) - 2 * D <= d /\ 2 * D - 2 * (T * d) <= d
      BY <1>1, <3>1, HalfEvenRounds
    <3>3. QED
      BY <1>1, <3>2
  <2>2. CASE D < 0
    <3>1. T = -HalfEven(-D, d) /\ -D \in Nat
      BY <1>1, <2>2 DEF Trade
    <3> HIDE DEF T, D, d
    <3> DEFINE h == HalfEven(-D, d)
    <3>2. h \in Nat /\ 2 * (h * d) - 2 * (-D) <= d /\ 2 * (-D) - 2 * (h * d) <= d
      BY <1>1, <3>1, HalfEvenRounds
    <3>3. T = -h
      BY <3>1
    <3> HIDE DEF h
    <3>4. T * d = -(h * d) /\ h * d \in Int
      BY <1>1, <3>2, <3>3
    <3>5. QED
      BY <1>1, <3>2, <3>4
  <2>3. QED
    BY <1>1, <2>1, <2>2
<1> HIDE DEF T, D, d, H
<1>4. -2 * (T * d) <= 2 * H + d
  BY <1>1, <1>2, <1>3
<1>5. QED
  BY <1>3, <1>4 DEF T, D, d, H

\* The cash pays for the trades but for half a step of each traded asset.
LEMMA CashPays ==
    ASSUME PortfolioInv, proposal.status = "proposed"
    PROVE  2 * CashAfter >= -SumFunction([a \in Asset |->
              IF proposal.trade[a] = 0 THEN 0 ELSE Grain * proposal.price[a]])
<1> DEFINE v     == proposal.valued
           p     == proposal.price
           w     == proposal.target
           spent == [a \in Asset |-> Grain * proposal.trade[a] * proposal.price[a]]
           held  == [a \in Asset |-> units[a] * v[a]]
           steps == [a \in Asset |-> IF proposal.trade[a] = 0 THEN 0 ELSE Grain * proposal.price[a]]
           V     == TotalValue(v)
<1>1. /\ PortfolioTypeOK /\ cash \in Int /\ cash >= 0
      /\ w \in Weights /\ v \in Prices /\ p \in Prices
      /\ \A a \in Asset : /\ proposal.trade[a] = Trade(v, p, w, a)
                          /\ Delta(v, w, a) # 0 => proposal.trade[a] # 0
  BY DEF PortfolioInv, Proposed, PortfolioTypeOK
<1>2. /\ \A a \in Asset : units[a] \in Nat /\ v[a] \in Nat /\ v[a] > 0
      /\ V \in Int /\ V >= 0
      /\ V = cash + SumOver(held, Asset)
  BY <1>1, Values
<1>3. ASSUME NEW a \in Asset
      PROVE  /\ spent[a] \in Int /\ held[a] \in Int /\ steps[a] \in Int /\ w[a] \in Int
             /\ (2 * W) * spent[a] <=
                    (2 * V) * w[a] + (-(2 * W)) * held[a] + W * steps[a]
  <2> DEFINE T == proposal.trade[a]
             q == Grain * proposal.price[a]
             b == v[a]
             u == units[a]
             D == Delta(v, w, a)
  <2>1. T = Trade(v, p, w, a) /\ (D # 0 => T # 0)
    BY <1>1
  <2>2. T \in Int /\ D \in Int /\ q \in Nat /\ b \in Nat /\ u \in Nat /\ w[a] \in Nat
    BY <1>1, <1>2, <2>1, Deltas, StepsArePositive
  <2>3. D = V * w[a] - W * (u * b)
    BY <1>2, <2>2 DEF Delta
  <2>4. 2 * (T * (W * q)) - 2 * D <= W * q
    <3>1. StepCost(p, a) = W * q
      BY <1>1, StepsArePositive
    <3>2. QED
      BY <1>1, <2>1, <3>1, TradeCloses
  <2>5. T * (W * q) = W * (T * q)
    BY <2>2
  <2>6. spent[a] = T * q /\ held[a] = u * b /\ steps[a] = IF T = 0 THEN 0 ELSE q
    <3>1. T \in Int /\ proposal.price[a] \in Nat
      BY <1>1, <2>2, StepsArePositive
    <3>2. Grain * T * proposal.price[a] = T * q
      BY <3>1
    <3>3. QED
      BY <3>2
  <2> HIDE DEF T, q, b, u, D, V, spent, held, steps, w
  <2>7. T * q \in Int /\ u * b \in Int /\ W * (T * q) \in Int /\ W * (u * b) \in Int
        /\ V * w[a] \in Int /\ W * q \in Int
    BY <1>2, <2>2
  <2>8. 2 * (W * (T * q)) <= 2 * (V * w[a]) - 2 * (W * (u * b)) + W * steps[a]
    <3>1. CASE T = 0
      <4>1. D = 0 /\ T * q = 0 /\ W * steps[a] = 0 /\ W * (T * q) = 0
        BY <2>1, <2>2, <2>6, <3>1
      <4>2. 2 * (V * w[a]) - 2 * (W * (u * b)) = 2 * D
        BY <2>2, <2>3, <2>7
      <4>3. QED
        BY <4>1, <4>2
    <3>2. CASE T # 0
      <4>1. W * steps[a] = W * q
        BY <2>6, <3>2
      <4>2. QED
        BY <2>2, <2>3, <2>4, <2>5, <2>7, <4>1
    <3>3. QED
      BY <3>1, <3>2
  <2>9. /\ (2 * W) * spent[a] = 2 * (W * (T * q))
        /\ (2 * V) * w[a] = 2 * (V * w[a])
        /\ (-(2 * W)) * held[a] = -(2 * (W * (u * b)))
    BY <1>2, <2>2, <2>6, <2>7
  <2>10. spent[a] \in Int /\ held[a] \in Int /\ steps[a] \in Int
    BY <2>2, <2>6, <2>7
  <2>11. (2 * W) * spent[a] <= (2 * V) * w[a] + (-(2 * W)) * held[a] + W * steps[a]
    <3>1. W * steps[a] \in Int
      BY <2>10
    <3>2. QED
      BY <2>7, <2>8, <2>9, <3>1
  <2>12. QED
    BY <2>2, <2>10, <2>11
<1>4. /\ CashAfter = cash - SumOver(spent, Asset)
      /\ SumFunction(steps) = SumOver(steps, Asset)
      /\ SumFunction(w) = SumOver(w, Asset) /\ SumFunction(w) <= W
  <2>1. DOMAIN spent = Asset /\ DOMAIN steps = Asset /\ DOMAIN w = Asset
    BY <1>1 DEF Weights
  <2>2. SumFunction(w) <= W
    BY <1>1 DEF Weights
  <2>3. SumFunction(spent) = SumOver(spent, Asset)
    BY <2>1, SumFunctionIsSumOver
  <2>4. QED
    BY <2>1, <2>2, <2>3, SumFunctionIsSumOver DEF CashAfter
<1> DEFINE X == SumOver(spent, Asset)
           H == SumOver(held, Asset)
           C == SumOver(steps, Asset)
           Z == SumOver(w, Asset)
<1> HIDE DEF spent, held, steps, V, w
<1>5. X \in Int /\ H \in Int /\ C \in Int /\ Z \in Int
  BY <1>3, SumOverInt
<1>6. (2 * W) * X <= (2 * V) * Z + (-(2 * W)) * H + W * C
  <2>1. 2 * W \in Int /\ 2 * V \in Int /\ -(2 * W) \in Int /\ W \in Int /\ IsFiniteSet(Asset)
    BY <1>2
  <2>2. QED
    BY <1>3, <2>1, SumsCompare
<1> HIDE DEF X, H, C, Z
<1>7. V * Z <= V * W
  BY <1>2, <1>4, <1>5 DEF Z
<1>8. V * W = W * cash + W * H
  BY <1>1, <1>2, <1>5 DEF H
<1>9. W * (2 * X) <= W * (2 * cash + C)
  <2>1. V * Z \in Int /\ W * H \in Int /\ W * cash \in Int /\ V * W \in Int /\ W * C \in Int
        /\ W * X \in Int
    BY <1>1, <1>2, <1>5
  <2>2. (2 * V) * Z = 2 * (V * Z) /\ (-(2 * W)) * H = -(2 * (W * H))
        /\ (2 * W) * X = 2 * (W * X)
    BY <1>2, <1>5, <2>1
  <2>3. 2 * (W * X) <= 2 * (W * cash) + W * C
    BY <1>6, <1>7, <1>8, <2>1, <2>2
  <2>4. W * (2 * X) = 2 * (W * X) /\ W * (2 * cash + C) = 2 * (W * cash) + W * C
    BY <1>1, <1>5
  <2>5. QED
    BY <2>3, <2>4
<1>10. 2 * X <= 2 * cash + C
  <2>1. 2 * X \in Int /\ 2 * cash + C \in Int
    BY <1>1, <1>5
  <2>2. ASSUME NEW i \in Int, NEW j \in Int, W * i <= W * j PROVE i <= j
    BY <2>2
  <2>3. QED
    BY <1>9, <2>1, <2>2
<1>11. QED
  BY <1>1, <1>4, <1>5, <1>10 DEF X, C, steps

\* Each gap is closed but for half a step, and none is oversold by more in value.
LEMMA TargetsMet ==
    ASSUME PortfolioInv, proposal.status = "proposed", NEW a \in Asset
    PROVE  LET gap   == Delta(proposal.valued, proposal.target, a)
               step  == StepCost(proposal.price, a)
               moved == proposal.trade[a] * step
           IN /\ 2 * (gap - moved) <= step /\ 2 * (moved - gap) <= step
              /\ -2 * moved <= 2 * (W * units[a] * proposal.valued[a]) + step
<1> DEFINE gap   == Delta(proposal.valued, proposal.target, a)
           step  == StepCost(proposal.price, a)
           moved == proposal.trade[a] * step
           worth == W * units[a] * proposal.valued[a]
<1>1. /\ PortfolioTypeOK /\ cash >= 0 /\ proposal.target \in Weights
      /\ proposal.valued \in Prices /\ proposal.price \in Prices
      /\ proposal.trade[a] = Trade(proposal.valued, proposal.price, proposal.target, a)
  BY DEF PortfolioInv, Proposed
<1>2. gap \in Int /\ step \in Nat /\ proposal.trade[a] \in Int
  BY <1>1, Deltas, StepsArePositive
<1>3. 2 * moved - 2 * gap <= step /\ 2 * gap - 2 * moved <= step /\ -2 * moved <= 2 * worth + step
  BY <1>1, TradeCloses
<1> HIDE DEF gap, step, worth
<1>4. moved \in Int
  BY <1>2
<1> HIDE DEF moved
<1>5. 2 * (gap - moved) <= step /\ 2 * (moved - gap) <= step
  BY <1>2, <1>3, <1>4
<1>6. QED
  BY <1>3, <1>5 DEF gap, step, moved, worth

-----------------------------------------------------------------------------
LEMMA NoProposalType ==
    /\ NoProposal.status = "none"
    /\ \A s \in {"none", "failed"} : [NoProposal EXCEPT !.status = s] \in
          [status : {"none", "proposed", "failed"}, target : [Asset -> 0 .. W],
           valued : [Asset -> Quotes \cup {0}], price : [Asset -> Quotes \cup {0}],
           trade : [Asset -> Int]]
    /\ NoProposal \in
          [status : {"none", "proposed", "failed"}, target : [Asset -> 0 .. W],
           valued : [Asset -> Quotes \cup {0}], price : [Asset -> Quotes \cup {0}],
           trade : [Asset -> Int]]
<1>1. /\ NoTrades \in [Asset -> 0 .. W] /\ NoTrades \in [Asset -> Int]
      /\ NoTrades \in [Asset -> Quotes \cup {0}]
  BY DEF NoTrades
<1> HIDE DEF NoTrades
<1>2. QED
  BY <1>1 DEF NoProposal

LEMMA PortfolioInitInv == PortfolioInit => PortfolioInv
<1> SUFFICES ASSUME PortfolioInit PROVE PortfolioInv
  OBVIOUS
<1>1. cash \in Int
  BY DEF PortfolioInit
<1>2. QED
  BY <1>1, NoProposalType DEF PortfolioInit, PortfolioInv, PortfolioTypeOK, Proposed

LEMMA ProposeInv ==
    ASSUME PortfolioInv, NEW w \in Weights, NEW v \in Prices, NEW p \in Prices, Propose(w, v, p)
    PROVE  PortfolioInv'
<1>1. PortfolioTypeOK /\ w \in [Asset -> 0 .. W] /\ cash >= 0 /\ UNCHANGED <<units, cash>>
  BY DEF Propose, PortfolioInv, Weights
<1>2. CASE \E a \in Asset : Delta(v, w, a) # 0 /\ Trade(v, p, w, a) = 0
  <2>1. proposal' = [NoProposal EXCEPT !.status = "failed"]
    BY <1>2 DEF Propose
  <2>2. proposal'.status = "failed"
    BY <2>1 DEF NoProposal
  <2>3. QED
    BY <1>1, <2>1, <2>2, NoProposalType DEF PortfolioInv, PortfolioTypeOK, Proposed
<1>3. CASE ~ \E a \in Asset : Delta(v, w, a) # 0 /\ Trade(v, p, w, a) = 0
  <2>1. proposal' = [status |-> "proposed", target |-> w, valued |-> v, price |-> p,
                     trade |-> [a \in Asset |-> Trade(v, p, w, a)]]
    BY <1>3 DEF Propose
  <2>2. \A a \in Asset : Trade(v, p, w, a) \in Int
    BY <1>1, Deltas
  <2>3. v \in [Asset -> Quotes \cup {0}] /\ p \in [Asset -> Quotes \cup {0}]
    BY DEF Prices
  <2>4. PortfolioTypeOK'
    BY <1>1, <2>1, <2>2, <2>3 DEF PortfolioTypeOK
  <2>5. /\ proposal'.target = w /\ proposal'.valued = v /\ proposal'.price = p
        /\ \A a \in Asset : proposal'.trade[a] = Trade(v, p, w, a)
    BY <2>1
  <2>6. TotalValue(v)' = TotalValue(v)
    BY <1>1 DEF TotalValue
  <2>7. \A a \in Asset : Delta(v, w, a)' = Delta(v, w, a)
    BY <1>1, <2>6 DEF Delta
  <2>8. \A a \in Asset : Trade(v, p, w, a)' = Trade(v, p, w, a)
    BY <1>1, <2>7 DEF Trade, StepCost
  <2>9. Proposed'
    <3>1. \A a \in Asset :
            /\ proposal'.trade[a] = Trade(v, p, w, a)'
            /\ Delta(v, w, a)' # 0 => proposal'.trade[a] # 0
      BY <1>3, <2>5, <2>7, <2>8
    <3>2. /\ Proposed' = (proposal'.status = "proposed" =>
                /\ cash' >= 0
                /\ proposal'.target \in Weights /\ proposal'.valued \in Prices
                /\ proposal'.price \in Prices
                /\ \A a \in Asset :
                      /\ proposal'.trade[a] = Trade(v, p, w, a)'
                      /\ Delta(v, w, a)' # 0 => proposal'.trade[a] # 0)
      BY <2>5 DEF Proposed, Trade, Delta, TotalValue, StepCost
    <3>3. QED
      BY <1>1, <2>5, <3>1, <3>2
  <2>10. QED
    BY <2>4, <2>9 DEF PortfolioInv
<1>4. QED
  BY <1>2, <1>3

LEMMA PortfolioStepInv == PortfolioInv /\ [PortfolioNext]_portfolioVars => PortfolioInv'
<1> SUFFICES ASSUME PortfolioInv, [PortfolioNext]_portfolioVars PROVE PortfolioInv'
  OBVIOUS
<1>1. CASE CarryOut
  <2>1. /\ units' \in [Asset -> 0 .. MaxUnits] /\ proposal' = NoProposal
        /\ PortfolioTypeOK /\ Proposed /\ cash' = CashAfter /\ proposal.status = "proposed"
    BY <1>1 DEF CarryOut, PortfolioInv
  <2> DEFINE spent == [a \in Asset |-> Grain * proposal.trade[a] * proposal.price[a]]
  <2>2. \A a \in Asset : spent[a] \in Int
    <3>1. \A a \in Asset : proposal.trade[a] \in Int /\ proposal.price[a] \in Nat
      BY <2>1, StepsArePositive DEF PortfolioTypeOK, Proposed
    <3>2. QED
      BY <3>1
  <2>3. CashAfter = cash - SumOver(spent, Asset)
    <3>1. DOMAIN spent = Asset
      OBVIOUS
    <3>2. QED
      BY <3>1, SumFunctionIsSumOver DEF CashAfter
  <2> HIDE DEF spent
  <2>4. SumOver(spent, Asset) \in Int /\ cash \in Int
    BY <2>1, <2>2, SumOverInt DEF PortfolioTypeOK
  <2>5. cash' \in Int
    BY <2>1, <2>3, <2>4
  <2>6. QED
    BY <2>1, <2>5, NoProposalType DEF PortfolioInv, PortfolioTypeOK, Proposed
<1>2. CASE ChangeAccount
  <2>1. units' \in [Asset -> 0 .. MaxUnits] /\ cash' \in Int /\ proposal' = NoProposal
    BY <1>2 DEF ChangeAccount, PortfolioInv, PortfolioTypeOK
  <2>2. QED
    BY <2>1, NoProposalType DEF PortfolioInv, PortfolioTypeOK, Proposed
<1>3. CASE UNCHANGED portfolioVars
  BY <1>3 DEF portfolioVars, PortfolioInv, PortfolioTypeOK, Proposed, Delta, Trade, StepCost,
              TotalValue
<1>4. QED
  BY <1>1, <1>2, <1>3, ProposeInv DEF PortfolioNext

\* The account and the proposal keep their types: the cash is a whole number,
\* which a purchase may take below zero.
THEOREM PortfolioTypeCorrect == PortfolioSpec => []PortfolioTypeOK
<1>1. PortfolioInv => PortfolioTypeOK
  BY DEF PortfolioInv
<1>2. QED
  BY PortfolioInitInv, PortfolioStepInv, <1>1, PTL DEF PortfolioSpec

\* For any symbols, any holdings however fine, any prices at the valuation and
\* any others at the trades, and any weights of at most one, the trades of a
\* proposal close the gaps of the account but for half a step each, sell no more
\* in value than is held but for half a step, and are paid for but for half a
\* step of each traded symbol.
THEOREM ProposalReachesTargets == PortfolioSpec => []ProposalMeetsTargets
<1>1. PortfolioInv => ProposalMeetsTargets
  BY CashPays, TargetsMet DEF ProposalMeetsTargets
<1>2. QED
  BY PortfolioInitInv, PortfolioStepInv, <1>1, PTL DEF PortfolioSpec
=============================================================================
