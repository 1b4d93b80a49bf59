----------------------------- MODULE Sync_proofs -----------------------------
(***************************************************************************)
(* Proofs about Sync for every library, catalog, page size and timing: the *)
(* type invariant, and that nothing is written before the collected        *)
(* snapshot is exact.                                                      *)
(***************************************************************************)
EXTENDS Sync, FiniteSetTheorems, TLAPS

InPass == pc \in {"books", "series", "headCheck", "patch", "settle", "confirm", "done"}

\* A pass has a published revision to compare with.
Pinned == InPass => rev \in Revisions

\* No two rows share an id, an artifact or a series.
RowsDistinct ==
  \A b, c \in rows : b.id = c.id \/ b.name = c.name \/ b.series = c.series => b = c

RowsPublished == InPass => \A b \in rows : b.valid /\ b.name \in Published[rev]

SeriesReferenced ==
  /\ seriesRows \subseteq {b.series : b \in rows}
  /\ seriesRows \cap BadSeries = {}

\* The counters in memory agree with the tables.
Counters ==
  /\ bookCount = Cardinality(rows)
  /\ seriesCount = Cardinality(seriesRows)

CountsChecked ==
  /\ BooksCounted => bookCount = ArtifactCount(rev)
  /\ AllCounted => seriesCount = ArtifactCount(rev)

\* The inductive invariant: TypeOK alone is not inductive, since the metadata
\* a page asks for has a type only when its artifacts are published by rev.
Collected == RowsDistinct /\ RowsPublished /\ SeriesReferenced /\ Counters /\ CountsChecked
IInv == TypeOK /\ Pinned /\ Collected

-----------------------------------------------------------------------------
(* Operators of the library.                                               *)

\* A PATCH leaves metadata of the same fields and values.
LEMMA PatchedType ==
  ASSUME NEW want \in Wants, NEW current \in [Fields -> Values]
  PROVE  Patched(want, current) \in [Fields -> Values]
<1>1. PICK S \in SUBSET Fields : want \in [S -> Values]
  BY DEF Wants
<1>2. QED BY <1>1 DEF Patched

\* Applying any set of requests leaves the metadata of every book well typed.
LEMMA AfterPatchesType ==
  ASSUME meta \in [BookIds -> [Fields -> Values]], NEW reqs \in SUBSET Requests
  PROVE  AfterPatches(reqs) \in [BookIds -> [Fields -> Values]]
<1>1. ASSUME NEW i \in BookIds, \E q \in reqs : q.id = i
      PROVE  Patched((CHOOSE q \in reqs : q.id = i).want, meta[i]) \in [Fields -> Values]
  <2>1. (CHOOSE q \in reqs : q.id = i).want \in Wants
    BY <1>1 DEF Requests
  <2>2. QED BY <2>1, PatchedType
<1>2. QED BY <1>1 DEF AfterPatches

\* Every page, every set of rows and every set of series is finite.
LEMMA Finite ==
  /\ \A S \in SUBSET BookRecords : IsFiniteSet(S) /\ Cardinality(S) \in Nat
  /\ \A S \in SUBSET SeriesIds : IsFiniteSet(S) /\ Cardinality(S) \in Nat
  /\ \A S \in SUBSET Artifacts : IsFiniteSet(S) /\ Cardinality(S) \in Nat
BY LibraryConstants, FS_Subset, FS_CardinalityType

\* The updates of an accepted page are well-typed rows of pending_update, and
\* there are finitely many of them.
LEMMA OutdatedType ==
  ASSUME rev \in Revisions, NEW got \in SUBSET BookRecords, AllPublished(got)
  PROVE  /\ Outdated(got) \subseteq Requests
         /\ Cardinality(Outdated(got)) \in Nat
<1> DEFINE old == {c \in got : ~UpToDate(Wanted[rev][c.name], meta[c.id])}
           f == [b \in old |-> [id |-> b.id, want |-> Wanted[rev][b.name]]]
<1>1. \A b \in got : b.id \in BookIds /\ Wanted[rev][b.name] \in Wants
  BY LibraryConstants DEF BookIds, AllPublished
<1>2. Outdated(got) \subseteq Requests
  BY <1>1 DEF Outdated, Requests
<1>3. f \in Surjection(old, Outdated(got))
  BY DEF Outdated, Surjection
<1>4. IsFiniteSet(old)
  BY Finite
<1>5. QED BY <1>2, <1>3, <1>4, FS_Surjection, FS_CardinalityType

\* Adding rows that were not there adds their number.
LEMMA CountUnion ==
  ASSUME NEW S, NEW T, IsFiniteSet(S), IsFiniteSet(T), S \cap T = {}
  PROVE  Cardinality(S \union T) = Cardinality(S) + Cardinality(T)
<1>1. Cardinality(S \union T) = Cardinality(S) + Cardinality(T) - Cardinality(S \cap T)
  BY FS_Union
<1>2. Cardinality(S \cap T) = 0
  BY FS_EmptySet
<1>3. Cardinality(S) \in Nat /\ Cardinality(T) \in Nat
  BY FS_CardinalityType
<1>4. QED BY <1>1, <1>2, <1>3

-----------------------------------------------------------------------------
(* The invariant holds initially.                                          *)

LEMMA InitInv == Init => IInv
<1> SUFFICES ASSUME Init PROVE IInv
  OBVIOUS
<1>1. LibraryTypeOK
  <2>1. PICK l \in InitLibraries :
          books = l.books /\ series = l.series /\ meta = l.meta /\ late = l.late
    BY DEF Init, LibraryInit
  <2>2. QED
    BY <2>1, InitialLibraries, LibraryConstants DEF Init, LibraryInit, LibraryTypeOK
<1>2. TypeOK
  BY <1>1, LibraryConstants, SnapshotConstants
     DEF Init, StoreInit, TypeOK, StoreTypeOK, Locations
<1>3. Pinned
  BY DEF Init, Pinned, InPass
<1>4. Collected
  BY FS_EmptySet
     DEF Init, StoreInit, Collected, RowsDistinct, RowsPublished, SeriesReferenced,
         Counters, CountsChecked, InPass, BooksCounted, AllCounted
<1>5. QED BY <1>2, <1>3, <1>4 DEF IInv

-----------------------------------------------------------------------------
(* Every step preserves it.  First the steps that leave the store alone.   *)

\* What Collected speaks of.
collectedVars == <<rev, rows, seriesRows, bookCount, seriesCount>>

\* If a step keeps the tables and the revision and enters no later stage of a
\* pass than it was in, what was collected stays exact.
LEMMA KeepsCollected ==
  ASSUME Pinned, Collected, UNCHANGED collectedVars,
         InPass' => InPass, BooksCounted' => BooksCounted, AllCounted' => AllCounted
  PROVE  Pinned' /\ Collected'
BY DEF Pinned, Collected, collectedVars, RowsDistinct, RowsPublished,
       SeriesReferenced, Counters, CountsChecked, ArtifactCount, InPass, BooksCounted, AllCounted

\* The outside changes the library, never what was collected.
LEMMA EnvironmentInv == IInv /\ Environment => IInv'
<1> SUFFICES ASSUME IInv, Environment PROVE IInv'
  OBVIOUS
<1> USE DEF IInv, TypeOK, LibraryTypeOK, Environment, passVars, storeVars, loopVars
<1>1. StoreTypeOK' /\ (pc \in Locations)' /\ prevPrint' \in Fingerprints \union {None}
      /\ prevRev' \in Nat \union {None} /\ stableSince' \in Nat \union {None} /\ wakeAt' \in Nat
  BY DEF StoreTypeOK
<1>2. Pinned' /\ Collected'
  BY KeepsCollected DEF collectedVars, InPass, BooksCounted, AllCounted
<1>3. disturbances' \in 0..MaxDisturbances
  <2>1. disturbances' = disturbances + 1 /\ disturbances < MaxDisturbances
    BY DEF Interfere, AddBook, RemoveBook, AddSeries, RemoveSeries, RewriteMetadata,
           LandLate, AdvanceHead, Disturb
  <2>2. QED BY <2>1, LibraryConstants
<1>4. /\ books' \subseteq BookRecords /\ series' \subseteq SeriesIds /\ head' \in 0..MaxRevision
      /\ late' \subseteq Requests /\ meta' \in [BookIds -> [Fields -> Values]]
  <2>1. CASE \E b \in BookRecords \ books : AddBook(b)
    BY <2>1 DEF AddBook
  <2>2. CASE \E b \in books : RemoveBook(b)
    BY <2>2 DEF RemoveBook
  <2>3. CASE \E s \in SeriesIds \ series : AddSeries(s)
    BY <2>3 DEF AddSeries
  <2>4. CASE \E s \in series : RemoveSeries(s)
    BY <2>4 DEF RemoveSeries
  <2>5. CASE \E b \in books, f \in Fields, v \in Values : RewriteMetadata(b, f, v)
    BY <2>5 DEF RewriteMetadata, BookIds
  <2>6. CASE \E q \in late : LandLate(q)
    <3>1. PICK q \in late : LandLate(q)
      BY <2>6
    <3>2. {q} \in SUBSET Requests
      OBVIOUS
    <3>3. AfterPatches({q}) \in [BookIds -> [Fields -> Values]]
      BY <3>2, AfterPatchesType
    <3>4. QED BY <3>1, <3>3 DEF LandLate
  <2>7. CASE AdvanceHead
    BY <2>7, LibraryConstants DEF AdvanceHead
  <2>8. QED BY <2>1, <2>2, <2>3, <2>4, <2>5, <2>6, <2>7 DEF Interfere
<1>5. QED BY <1>1, <1>2, <1>3, <1>4

\* Time passes without touching anything else.
LEMMA TickInv == IInv /\ Tick => IInv'
<1> SUFFICES ASSUME IInv, Tick PROVE IInv'
  OBVIOUS
<1>1. UNCHANGED <<pc, passVars, loopVars, externalVars>> /\ now' \in 0..Timeout
  BY SnapshotConstants DEF Tick, IInv, TypeOK, StoreTypeOK
<1>2. TypeOK'
  BY <1>1 DEF IInv, TypeOK, StoreTypeOK, LibraryTypeOK, passVars, storeVars, loopVars, externalVars
<1>3. Pinned' /\ Collected'
  BY <1>1, KeepsCollected
     DEF IInv, collectedVars, passVars, storeVars, InPass, BooksCounted, AllCounted
<1>4. QED BY <1>2, <1>3 DEF IInv

\* The settling loop reads the store and never writes it.
LEMMA LoopInv == IInv /\ LoopStep => IInv'
<1> SUFFICES ASSUME IInv, LoopStep PROVE IInv'
  OBVIOUS
<1> USE DEF IInv, TypeOK
<1>1. UNCHANGED <<now, passVars, books, series, meta, late, head>>
      /\ disturbances' \in 0..MaxDisturbances
  <2>1. CASE ScanFails
    BY <2>1, LibraryConstants DEF ScanFails, Trouble, Disturb, LibraryTypeOK
  <2>2. CASE LoopStep /\ ~ScanFails
    BY <2>2 DEF LoopStep, Scan, Analyze, Settle, Confirm, Forget, Delay, Wake,
                DeadlineExpired, externalVars, LibraryTypeOK
  <2>3. QED BY <2>1, <2>2
<1>2. StoreTypeOK' /\ LibraryTypeOK'
  BY <1>1 DEF StoreTypeOK, LibraryTypeOK, passVars, storeVars
<1>3. pc' \in Locations /\ (InPass' => InPass) /\ (BooksCounted' => BooksCounted)
      /\ (AllCounted' => AllCounted)
  BY DEF LoopStep, Scan, Analyze, ScanFails, Settle, Confirm, Forget, Delay, Wake,
         DeadlineExpired, Locations, InPass, BooksCounted, AllCounted
<1>4. /\ prevPrint' \in Fingerprints \union {None} /\ prevRev' \in Nat \union {None}
      /\ stableSince' \in Nat \union {None} /\ wakeAt' \in Nat
  <2>1. Fingerprint \in Fingerprints /\ rev \in Nat /\ now \in Nat
    BY LibraryConstants, SnapshotConstants DEF Fingerprint, Fingerprints, StoreTypeOK
  <2>2. NewStableSince \in Nat \union {None}
    BY <2>1 DEF NewStableSince
  <2>3. CASE Settle
    BY <2>1, <2>2, <2>3 DEF Settle, Remember
  <2>4. CASE Confirm
    BY <2>1, <2>4 DEF Confirm, Remember
  <2>5. CASE Delay
    BY <2>1, <2>5, SettlingTiming, SnapshotConstants DEF Delay
  <2>6. CASE Scan \/ Analyze \/ ScanFails \/ Forget \/ Wake \/ DeadlineExpired
    BY <2>6 DEF Scan, Analyze, ScanFails, Forget, Wake, DeadlineExpired, loopVars
  <2>7. QED BY <2>3, <2>4, <2>5, <2>6 DEF LoopStep
<1>5. Pinned' /\ Collected'
  BY <1>1, <1>3, KeepsCollected DEF collectedVars, passVars, storeVars
<1>6. QED BY <1>2, <1>3, <1>4, <1>5

-----------------------------------------------------------------------------
(* The steps of a pass.                                                    *)

\* What a pass step leaves to the loop and to the library's own changes.
PassFrame ==
  /\ UNCHANGED loopVars
  /\ LibraryTypeOK'
  /\ pc' \in Locations
  /\ now' \in 0..Timeout

\* The steps that only move pc, or PATCH books, keep the store.
QuietPassStep ==
  \/ NoCatalog \/ RejectBookPage \/ RevisionNotFound \/ EndBooks
  \/ RejectSeriesPage \/ EndSeries \/ RequestFails \/ CatalogFails \/ CheckHead
  \/ PatchDone \/ PatchBatch \/ PatchBatchLeavesLate \/ PatchBatchFails

\* No pass step breaks the types of the library, the catalog or the clock.
LEMMA PassFrameHolds == IInv /\ PassStep /\ UNCHANGED loopVars => PassFrame
<1> SUFFICES ASSUME IInv, PassStep, UNCHANGED loopVars PROVE PassFrame
  OBVIOUS
<1> USE DEF IInv, TypeOK, PassFrame, LibraryTypeOK
<1>1. pc' \in Locations /\ now' \in 0..Timeout
  BY DEF PassStep, StartPass, NoCatalog, CollectBookPage, RejectBookPage, RevisionNotFound,
         EndBooks, CollectSeriesPage, RejectSeriesPage, EndSeries, RequestFails, CatalogFails, CheckHead,
         PatchDone, PatchBatch, PatchBatchLeavesLate, PatchBatchFails, Locations, StoreTypeOK
<1>2. NextBatch \in SUBSET Requests
  BY DEF NextBatch, Unsent, StoreTypeOK
<1>3. \A reqs \in SUBSET NextBatch : AfterPatches(reqs) \in [BookIds -> [Fields -> Values]]
  BY <1>2, AfterPatchesType
<1>4. CASE PatchBatch
  BY <1>1, <1>3, <1>4 DEF PatchBatch
<1>5. CASE PatchBatchLeavesLate
  BY <1>1, <1>2, <1>3, <1>5, LibraryConstants DEF PatchBatchLeavesLate, Trouble, Disturb
<1>6. CASE PatchBatchFails
  BY <1>1, <1>3, <1>6, LibraryConstants DEF PatchBatchFails, Trouble, Disturb
<1>7. CASE RequestFails \/ CatalogFails
  <2>1. Disturb /\ UNCHANGED <<books, series, meta, late, head>>
    BY <1>7 DEF RequestFails, CatalogFails, Trouble
  <2>2. QED BY <1>1, <2>1, LibraryConstants DEF Disturb
<1>8. CASE \/ StartPass \/ NoCatalog \/ CollectBookPage \/ RejectBookPage \/ RevisionNotFound
           \/ EndBooks \/ CollectSeriesPage \/ RejectSeriesPage \/ EndSeries \/ CheckHead
           \/ PatchDone
  <2>1. UNCHANGED externalVars
    BY <1>8 DEF StartPass, NoCatalog, CollectBookPage, RejectBookPage, RevisionNotFound,
                EndBooks, CollectSeriesPage, RejectSeriesPage, EndSeries, CheckHead, PatchDone
  <2>2. QED BY <1>1, <2>1 DEF externalVars
<1>9. QED BY <1>1, <1>4, <1>5, <1>6, <1>7, <1>8 DEF PassStep

\* A quiet step of a pass preserves the invariant; the two that open a later
\* stage have just compared the counter with the catalog's count.
LEMMA QuietStepInv == IInv /\ QuietPassStep /\ UNCHANGED loopVars => IInv'
<1> SUFFICES ASSUME IInv, QuietPassStep, UNCHANGED loopVars PROVE IInv'
  OBVIOUS
<1> USE DEF IInv, TypeOK, StoreTypeOK
<1>1. PassFrame
  BY PassFrameHolds DEF PassStep, QuietPassStep
<1>2. UNCHANGED <<rev, storeVars>> /\ page' \in Nat /\ cursor' \in Nat
  <2>1. CASE PatchBatch \/ PatchBatchLeavesLate
    <3>1. PICK q \in NextBatch : cursor' = q.id
      BY <2>1 DEF PatchBatch, PatchBatchLeavesLate
    <3>2. q.id \in Nat
      BY <3>1, LibraryConstants DEF NextBatch, Unsent, Requests, BookIds
    <3>3. QED BY <2>1, <3>1, <3>2 DEF PatchBatch, PatchBatchLeavesLate
  <2>2. CASE QuietPassStep /\ ~PatchBatch /\ ~PatchBatchLeavesLate
    BY <2>2 DEF QuietPassStep, NoCatalog, RejectBookPage, RevisionNotFound, EndBooks,
         RejectSeriesPage, EndSeries, RequestFails, CatalogFails, CheckHead, PatchDone, PatchBatchFails,
         passVars
  <2>3. QED BY <2>1, <2>2
<1>3. TypeOK'
  BY <1>1, <1>2 DEF PassFrame, loopVars, storeVars
<1>4. CASE EndBooks
  BY <1>2, <1>3, <1>4
     DEF EndBooks, Pinned, Collected, RowsDistinct, RowsPublished, SeriesReferenced, Counters,
         CountsChecked, ArtifactCount, storeVars, InPass, BooksCounted, AllCounted
<1>5. CASE EndSeries
  BY <1>2, <1>3, <1>5
     DEF EndSeries, Pinned, Collected, RowsDistinct, RowsPublished, SeriesReferenced, Counters,
         CountsChecked, ArtifactCount, storeVars, InPass, BooksCounted, AllCounted
<1>6. CASE QuietPassStep /\ ~EndBooks /\ ~EndSeries
  <2>1. (InPass' => InPass) /\ (BooksCounted' => BooksCounted) /\ (AllCounted' => AllCounted)
    BY <1>6 DEF QuietPassStep, NoCatalog, RejectBookPage, RevisionNotFound, RejectSeriesPage,
         RequestFails, CatalogFails, CheckHead, PatchDone, PatchBatch, PatchBatchLeavesLate, PatchBatchFails,
         InPass, BooksCounted, AllCounted
  <2>2. Pinned' /\ Collected'
    BY <1>2, <2>1, KeepsCollected DEF collectedVars, storeVars
  <2>3. QED BY <1>3, <2>2
<1>7. QED BY <1>3, <1>4, <1>5, <1>6

\* A new pass starts from empty tables.
LEMMA StartPassInv == IInv /\ StartPass /\ UNCHANGED loopVars => IInv'
<1> SUFFICES ASSUME IInv, StartPass, UNCHANGED loopVars PROVE IInv'
  OBVIOUS
<1>1. PassFrame
  BY PassFrameHolds DEF PassStep
<1>2. TypeOK'
  BY <1>1, LibraryConstants
     DEF StartPass, PassFrame, TypeOK, StoreTypeOK, loopVars, IInv, LibraryTypeOK
<1>3. Pinned'
  BY LibraryConstants DEF StartPass, Pinned, IInv, TypeOK, LibraryTypeOK, Revisions
<1>4. Collected'
  BY FS_EmptySet
     DEF StartPass, Collected, RowsDistinct, RowsPublished, SeriesReferenced, Counters,
         CountsChecked, BooksCounted, AllCounted
<1>5. QED BY <1>2, <1>3, <1>4 DEF IInv

\* An accepted page of books adds new, published, well-formed rows.
LEMMA CollectBookPageInv == IInv /\ CollectBookPage /\ UNCHANGED loopVars => IInv'
<1> SUFFICES ASSUME IInv, CollectBookPage, UNCHANGED loopVars PROVE IInv'
  OBVIOUS
<1> DEFINE got == BookPage(page)
<1>1. PassFrame
  BY PassFrameHolds DEF PassStep
<1>2. got \in SUBSET BookRecords /\ BookPageAccepted(got) /\ rev \in Revisions
  BY DEF CollectBookPage, BookPage, IInv, TypeOK, LibraryTypeOK, Pinned, InPass
<1>3. Outdated(got) \subseteq Requests /\ Cardinality(Outdated(got)) \in Nat
  BY <1>2, OutdatedType DEF BookPageAccepted
<1>4. Cardinality(got) \in Nat
  BY <1>2, Finite
<1>5. TypeOK'
  BY <1>1, <1>2, <1>3, <1>4
     DEF CollectBookPage, PassFrame, TypeOK, StoreTypeOK, loopVars, IInv
<1>6. Pinned'
  BY <1>2 DEF CollectBookPage, Pinned
<1>7. RowsDistinct'
  BY <1>2 DEF CollectBookPage, RowsDistinct, BookPageAccepted, Insertable, NamesDistinct,
              IInv, Collected
<1>8. RowsPublished'
  BY <1>2 DEF CollectBookPage, RowsPublished, BookPageAccepted, ItemsValid, AllPublished,
              InPass, IInv, Collected
<1>9. SeriesReferenced'
  BY DEF CollectBookPage, SeriesReferenced, IInv, Collected
<1>10. Counters'
  <2>1. rows \in SUBSET BookRecords
    BY DEF IInv, TypeOK, StoreTypeOK
  <2>2. rows \intersect got = {}
    BY <1>2 DEF BookPageAccepted, Insertable
  <2>3. Cardinality(rows \union got) = Cardinality(rows) + Cardinality(got)
    BY <1>2, <2>1, <2>2, Finite, CountUnion
  <2>4. QED BY <2>3 DEF CollectBookPage, Counters, IInv, Collected
<1>11. CountsChecked'
  BY DEF CollectBookPage, CountsChecked, BooksCounted, AllCounted
<1>12. QED BY <1>5, <1>6, <1>7, <1>8, <1>9, <1>10, <1>11 DEF IInv, Collected

\* An accepted page of series adds new One-Shot series of collected books.
LEMMA CollectSeriesPageInv == IInv /\ CollectSeriesPage /\ UNCHANGED loopVars => IInv'
<1> SUFFICES ASSUME IInv, CollectSeriesPage, UNCHANGED loopVars PROVE IInv'
  OBVIOUS
<1> DEFINE got == SeriesPage(page)
<1>1. PassFrame
  BY PassFrameHolds DEF PassStep
<1>2. got \in SUBSET SeriesIds /\ SeriesPageAccepted(got)
  BY DEF CollectSeriesPage, SeriesPage, PageOf, IInv, TypeOK, LibraryTypeOK
<1>3. Cardinality(got) \in Nat
  BY <1>2, Finite
<1>4. TypeOK'
  BY <1>1, <1>2, <1>3
     DEF CollectSeriesPage, PassFrame, TypeOK, StoreTypeOK, loopVars, IInv
<1>5. Pinned' /\ RowsDistinct' /\ RowsPublished' /\ CountsChecked'
  BY DEF CollectSeriesPage, Pinned, RowsDistinct, RowsPublished, CountsChecked, ArtifactCount,
         InPass, BooksCounted, AllCounted, IInv, Collected
<1>6. SeriesReferenced'
  BY <1>2 DEF CollectSeriesPage, SeriesReferenced, SeriesPageAccepted, IInv, Collected
<1>7. Counters'
  <2>1. seriesRows \in SUBSET SeriesIds
    BY DEF IInv, TypeOK, StoreTypeOK
  <2>2. seriesRows \intersect got = {}
    BY <1>2 DEF SeriesPageAccepted
  <2>3. Cardinality(seriesRows \union got) = Cardinality(seriesRows) + Cardinality(got)
    BY <1>2, <2>1, <2>2, Finite, CountUnion
  <2>4. QED BY <2>3 DEF CollectSeriesPage, Counters, IInv, Collected
<1>8. QED BY <1>4, <1>5, <1>6, <1>7 DEF IInv, Collected

LEMMA NextInv == IInv /\ [Next]_vars => IInv'
<1> SUFFICES ASSUME IInv, [Next]_vars PROVE IInv'
  OBVIOUS
<1>1. CASE LoopStep
  BY <1>1, LoopInv
<1>2. CASE PassStep /\ UNCHANGED loopVars
  BY <1>2, StartPassInv, CollectBookPageInv, CollectSeriesPageInv, QuietStepInv
     DEF PassStep, QuietPassStep
<1>3. CASE Environment
  BY <1>3, EnvironmentInv
<1>4. CASE Tick
  BY <1>4, TickInv
<1>5. CASE UNCHANGED vars
  <2>1. TypeOK'
    BY <1>5 DEF IInv, TypeOK, StoreTypeOK, LibraryTypeOK, vars, passVars, storeVars,
                loopVars, externalVars
  <2>2. Pinned' /\ Collected'
    BY <1>5, KeepsCollected DEF IInv, collectedVars, vars, passVars, storeVars,
                                InPass, BooksCounted, AllCounted
  <2>3. QED BY <2>1, <2>2 DEF IInv
<1>6. QED BY <1>1, <1>2, <1>3, <1>4, <1>5 DEF Next, SyncStep, Ended

LEMMA Invariance == Spec => []IInv
BY InitInv, NextInv, PTL DEF Spec

-----------------------------------------------------------------------------
(* What follows from it.                                                   *)

\* Every variable keeps its type, for every library and every timing.
THEOREM TypeCorrect == Spec => []TypeOK
<1>1. IInv => TypeOK
  BY DEF IInv
<1>2. QED BY <1>1, Invariance, PTL

\* The counting argument of _reconcile_exact_snapshot: rows that are pairwise
\* distinct and all published, as many as the revision has artifacts, are one
\* for each artifact; their series, as many again, are all the series seen.
LEMMA CountsMakeExact == IInv => ExactBeforePatch
<1> SUFFICES ASSUME IInv, AllCounted
             PROVE  /\ {b.name : b \in rows} = Published[rev]
                    /\ seriesRows = {b.series : b \in rows}
  BY DEF IInv, Collected, RowsDistinct, RowsPublished, SeriesReferenced,
         ExactBeforePatch, AllCounted, InPass
<1> DEFINE N == [b \in rows |-> b.name]
           S == {b.series : b \in rows}
           B == [b \in rows |-> b.series]
<1>1. rows \in SUBSET BookRecords /\ Published[rev] \in SUBSET Artifacts
  BY LibraryConstants DEF IInv, TypeOK, StoreTypeOK, Pinned, AllCounted, InPass
<1>2. IsFiniteSet(rows) /\ IsFiniteSet(Published[rev])
  BY <1>1, Finite
<1>3. Cardinality(rows) = Cardinality(Published[rev])
      /\ Cardinality(seriesRows) = Cardinality(Published[rev])
  BY DEF IInv, Collected, Counters, CountsChecked, ArtifactCount, BooksCounted, AllCounted
<1>4. {b.name : b \in rows} = Published[rev]
  <2>1. N \in Injection(rows, Published[rev])
    BY DEF Injection, IsInjective, IInv, Collected, RowsDistinct, RowsPublished, AllCounted, InPass
  <2>2. N \in Surjection(rows, Published[rev])
    BY <2>1, <1>2, <1>3, FS_Injection
  <2>3. QED BY <2>1, <2>2 DEF Injection, Surjection
<1>5. seriesRows = S
  <2>1. B \in Surjection(rows, S) /\ B \in Injection(rows, S)
    BY DEF Injection, Surjection, IsInjective, IInv, Collected, RowsDistinct
  <2>2. IsFiniteSet(S) /\ Cardinality(S) = Cardinality(rows)
    BY <2>1, <1>2, FS_Surjection
  <2>3. seriesRows \in SUBSET S
    BY DEF IInv, Collected, SeriesReferenced
  <2>4. QED BY <2>2, <2>3, <1>3, FS_Subset
<1>6. QED BY <1>4, <1>5

\* Whenever metadata is written, and whenever a pass is taken as an
\* observation, the collected snapshot is exactly what the revision publishes.
THEOREM NothingWrittenBeforeExact == Spec => []ExactBeforePatch
BY Invariance, CountsMakeExact, PTL

-----------------------------------------------------------------------------
(* The paginations end.                                                    *)

\* Every page that was accepted counted at least one row, and a pagination
\* that goes on has not counted more rows than there are artifacts; series
\* are counted only when the pages of books are over.
PagesCounted ==
  /\ pc = "books" =>
       page <= bookCount /\ bookCount <= ArtifactCount(rev) /\ seriesCount = 0
  /\ pc = "series" => page <= seriesCount /\ seriesCount <= ArtifactCount(rev)

LEMMA ArtifactCountType == \A r \in Revisions : ArtifactCount(r) \in Nat
BY LibraryConstants, Finite DEF ArtifactCount

\* A page that is accepted and not empty counts at least one row.
LEMMA PageCounts ==
  /\ \A got \in SUBSET BookRecords : got # {} => Cardinality(got) \in Nat \ {0}
  /\ \A got \in SUBSET SeriesIds : got # {} => Cardinality(got) \in Nat \ {0}
BY Finite, FS_EmptySet

LEMMA PagesCountedStep ==
  ASSUME IInv, PagesCounted, [Next]_vars
  PROVE  PagesCounted'
<1> USE DEF PagesCounted
<1>1. CASE pc' \notin {"books", "series"}
  BY <1>1
<1>2. CASE UNCHANGED <<pc, passVars>>
  BY <1>2 DEF ArtifactCount, passVars, storeVars
<1>3. CASE StartPass
  <2>1. head \in Revisions
    BY <1>3, LibraryConstants DEF StartPass, IInv, TypeOK, LibraryTypeOK, Revisions
  <2>2. ArtifactCount(rev') \in Nat
    BY <1>3, <2>1, ArtifactCountType DEF StartPass
  <2>3. QED BY <1>3, <2>2 DEF StartPass, ArtifactCount
<1>4. CASE CollectBookPage
  <2>1. BookPage(page) \in SUBSET BookRecords
    BY DEF BookPage, IInv, TypeOK, LibraryTypeOK
  <2>2. rev \in Revisions /\ page \in Nat /\ bookCount \in Nat
    BY <1>4 DEF CollectBookPage, IInv, TypeOK, StoreTypeOK, Pinned, InPass
  <2>3. Cardinality(BookPage(page)) \in Nat \ {0}
    BY <1>4, <2>1, PageCounts DEF CollectBookPage
  <2>4. page + 1 <= bookCount + Cardinality(BookPage(page))
    BY <1>4, <2>2, <2>3 DEF CollectBookPage
  <2>5. ArtifactCount(rev) \in Nat /\ ArtifactCount(rev)' = ArtifactCount(rev)
    BY <1>4, <2>2, ArtifactCountType DEF CollectBookPage, ArtifactCount
  <2>6. QED BY <1>4, <2>2, <2>3, <2>4, <2>5 DEF CollectBookPage, ExtraBooks
<1>5. CASE CollectSeriesPage
  <2>1. SeriesPage(page) \in SUBSET SeriesIds
    BY DEF SeriesPage, PageOf, IInv, TypeOK, LibraryTypeOK
  <2>2. rev \in Revisions /\ page \in Nat /\ seriesCount \in Nat
    BY <1>5 DEF CollectSeriesPage, IInv, TypeOK, StoreTypeOK, Pinned, InPass
  <2>3. Cardinality(SeriesPage(page)) \in Nat \ {0}
    BY <1>5, <2>1, PageCounts DEF CollectSeriesPage
  <2>4. page + 1 <= seriesCount + Cardinality(SeriesPage(page))
    BY <1>5, <2>2, <2>3 DEF CollectSeriesPage
  <2>5. ArtifactCount(rev) \in Nat /\ ArtifactCount(rev)' = ArtifactCount(rev)
    BY <1>5, <2>2, ArtifactCountType DEF CollectSeriesPage, ArtifactCount
  <2>6. QED BY <1>5, <2>2, <2>3, <2>4, <2>5 DEF CollectSeriesPage
<1>6. CASE EndBooks
  <2>1. rev \in Revisions
    BY <1>6 DEF EndBooks, IInv, Pinned, InPass
  <2>2. ArtifactCount(rev) \in Nat /\ ArtifactCount(rev)' = ArtifactCount(rev)
    BY <1>6, <2>1, ArtifactCountType DEF EndBooks, ArtifactCount
  <2>3. QED BY <1>6, <2>2 DEF EndBooks, storeVars
<1>7. QED
  BY <1>1, <1>2, <1>3, <1>4, <1>5, <1>6
     DEF Next, SyncStep, LoopStep, PassStep, Environment, Tick, Ended, vars, Scan, Analyze,
         ScanFails, Settle, Confirm, Forget, Delay, Wake, DeadlineExpired, NoCatalog,
         RejectBookPage, RevisionNotFound, RejectSeriesPage, EndSeries, RequestFails,
         CatalogFails, CheckHead, PatchDone, PatchBatch, PatchBatchLeavesLate, PatchBatchFails

\* However the library moves, a pagination asks for one page more than there
\* are artifacts at most.
THEOREM PaginationsEnd == Spec => []PagesBounded
<1>1. Init => PagesCounted
  BY DEF Init, PagesCounted
<1>2. IInv /\ PagesCounted => PagesBounded
  <2>1. SUFFICES ASSUME IInv, PagesCounted, pc \in {"books", "series"}
                 PROVE  page <= ArtifactCount(rev)
    BY DEF PagesBounded
  <2>2. page \in Nat /\ bookCount \in Nat /\ seriesCount \in Nat /\ ArtifactCount(rev) \in Nat
    BY <2>1, ArtifactCountType DEF IInv, TypeOK, StoreTypeOK, Pinned, InPass
  <2>3. QED BY <2>1, <2>2 DEF PagesCounted
<1>3. QED BY <1>1, <1>2, Invariance, PagesCountedStep, PTL DEF Spec

-----------------------------------------------------------------------------
(* The loop never spins.                                                   *)

\* A batch that is sent is not empty, and none of it remains to be sent.
LEMMA BatchesShrink ==
  ASSUME IInv, PatchBatch \/ PatchBatchLeavesLate
  PROVE  Unsent' \subseteq Unsent /\ Unsent' # Unsent
<1>1. PICK q \in NextBatch : cursor' = q.id
  BY DEF PatchBatch, PatchBatchLeavesLate
<1>2. q \in Unsent /\ q.id > cursor
  BY <1>1 DEF NextBatch, Unsent
<1>3. \A r \in pending : r.id \in Nat
  BY LibraryConstants DEF IInv, TypeOK, StoreTypeOK, Requests, BookIds
<1>4. cursor \in Nat /\ q.id \in Nat
  BY <1>2, <1>3 DEF IInv, TypeOK, StoreTypeOK, Unsent
<1>5. Unsent' = {r \in pending : r.id > q.id}
  BY <1>1 DEF Unsent, PatchBatch, PatchBatchLeavesLate, storeVars
<1>6. \A r \in pending : r.id > q.id => r.id > cursor
  BY <1>2, <1>3, <1>4
<1>7. q \notin Unsent'
  BY <1>4, <1>5
<1>8. QED BY <1>2, <1>5, <1>6, <1>7 DEF Unsent

\* A sleep ends after it begins: the pause is positive, and so is what is left
\* of the time.
LEMMA SleepTakesTime ==
  ASSUME IInv, Delay
  PROVE  wakeAt' > now'
BY SettlingTiming, SnapshotConstants DEF Delay, InTime, IInv, TypeOK, StoreTypeOK

\* Every round of the loop passes through a sleep, and there are finitely many
\* steps in a round: with the deadline, this is why a run ends.
THEOREM NeverSpins == Spec => LoopAdvances
<1> DEFINE Advance ==
      \/ UNCHANGED <<pc, passVars, loopVars>>
      \/ StagesLeft' < StagesLeft
      \/ pc \in {"books", "series"} /\ pc' = pc /\ page' = page + 1
      \/ pc = "patch" /\ pc' = pc /\ Unsent' \subseteq Unsent /\ Unsent' # Unsent
      \/ pc = "sleeping" /\ pc' = "poll" /\ now >= wakeAt
           Sleep == pc' = "sleeping" /\ pc # "sleeping" => wakeAt' > now'
<1>1. IInv /\ LoopStep => Advance /\ Sleep
  <2> SUFFICES ASSUME IInv, LoopStep PROVE Advance /\ Sleep
    OBVIOUS
  <2>1. CASE Delay
    BY <2>1, SleepTakesTime DEF Delay, StagesLeft
  <2>2. CASE Wake
    BY <2>2 DEF Wake
  <2>3. CASE Scan \/ Analyze \/ ScanFails \/ Settle \/ Confirm \/ Forget
    BY <2>3 DEF Scan, Analyze, ScanFails, Settle, Confirm, Forget, StagesLeft
  <2>4. CASE DeadlineExpired
    BY <2>4 DEF DeadlineExpired, ChecksDeadline, StagesLeft
  <2>5. QED BY <2>1, <2>2, <2>3, <2>4 DEF LoopStep
<1>2. IInv /\ PassStep => Advance /\ Sleep
  <2> SUFFICES ASSUME IInv, PassStep PROVE Advance /\ Sleep
    OBVIOUS
  <2>1. CASE PatchBatch \/ PatchBatchLeavesLate
    BY <2>1, BatchesShrink DEF PatchBatch, PatchBatchLeavesLate
  <2>2. CASE CollectBookPage \/ CollectSeriesPage
    BY <2>2 DEF CollectBookPage, CollectSeriesPage, StagesLeft
  <2>3. CASE \/ StartPass \/ NoCatalog \/ RejectBookPage \/ RevisionNotFound \/ EndBooks
             \/ RejectSeriesPage \/ EndSeries \/ RequestFails \/ CatalogFails \/ CheckHead
             \/ PatchDone \/ PatchBatchFails
    BY <2>3 DEF StartPass, NoCatalog, RejectBookPage, RevisionNotFound, EndBooks,
                RejectSeriesPage, EndSeries, RequestFails, CatalogFails, CheckHead,
                PatchDone, PatchBatchFails, StagesLeft
  <2>4. QED BY <2>1, <2>2, <2>3 DEF PassStep
<1>3. Environment \/ Tick \/ Ended \/ UNCHANGED vars => Advance /\ Sleep
  BY DEF Environment, Tick, Ended, vars
<1>4. IInv /\ [Next]_vars => [Advance /\ Sleep]_vars
  <2> HIDE DEF Advance, Sleep
  <2>1. QED BY <1>1, <1>2, <1>3 DEF Next, SyncStep
<1>5. QED BY <1>4, Invariance, PTL DEF Spec, LoopAdvances
=============================================================================
