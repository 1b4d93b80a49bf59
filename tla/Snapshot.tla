------------------------------ MODULE Snapshot ------------------------------
(***************************************************************************)
(* One pass of the synchronizer: _reconcile_exact_snapshot of sync.py and  *)
(* the sqlite _SnapshotStore it fills.  A pass pins a catalog revision,    *)
(* reads every page of books and of series, gives up as soon as the        *)
(* observation is not exactly what the revision publishes, checks that the *)
(* catalog head is still the pinned revision and then PATCHes the books    *)
(* whose metadata is out of date.  Between any two of these requests the   *)
(* library, the catalog and the clock may move.                            *)
(*                                                                         *)
(* An _IncompleteSnapshot, _CatalogHeadAdvanced or                         *)
(* CatalogRevisionNotFoundError takes pc to "incomplete"; any other        *)
(* exception ends the run: pc becomes "failed".                            *)
(***************************************************************************)
EXTENDS KomgaLibrary

CONSTANTS
  BatchSize,  \* rows of one update batch (BOOK_METADATA_PATCH_CHUNK_SIZE)
  Timeout,    \* the deadline, in clock ticks after the start
  QuietBy     \* bound: nothing outside interferes after this tick

ASSUME SnapshotConstants ==
  /\ BatchSize \in Nat \ {0}
  /\ Timeout \in Nat \ {0}
  /\ QuietBy \in Nat

VARIABLES
  now,          \* ticks since started_at; stops at the deadline
  pc,           \* where the synchronizer is
  rev,          \* the revision this pass is pinned to
  page,         \* book_page_number, then series_page_number
  rows,         \* table observed_book
  seriesRows,   \* table observed_series
  pending,      \* table pending_update
  bookCount,    \* _book_count
  seriesCount,  \* _series_count
  updateCount,  \* _update_count
  cursor        \* after_book_id of update_batches

storeVars == <<rows, seriesRows, pending, bookCount, seriesCount, updateCount>>
passVars == <<rev, page, cursor, storeVars>>

StoreTypeOK ==
  /\ now \in 0..Timeout
  /\ rev \in 0..MaxRevision
  /\ page \in Nat
  /\ rows \subseteq BookRecords
  /\ seriesRows \subseteq SeriesIds
  /\ pending \subseteq Requests
  /\ bookCount \in Nat /\ seriesCount \in Nat /\ updateCount \in Nat
  /\ cursor \in Nat

StoreInit ==
  /\ now = 0 /\ rev = 0 /\ page = 0 /\ cursor = 0
  /\ rows = {} /\ seriesRows = {} /\ pending = {}
  /\ bookCount = 0 /\ seriesCount = 0 /\ updateCount = 0

\* Mutation of InTime: the deadline is never looked at.
AlwaysInTime == TRUE

\* A request is sent only while _remaining_seconds is positive.
InTime == now < Timeout

\* A request goes wrong: bounded like every other interference.
Trouble == Disturb /\ now <= QuietBy

Fingerprint == [books |-> rows, series |-> seriesRows]

-----------------------------------------------------------------------------
(* The checks a page of books passes before its rows are inserted.         *)

ItemsValid(got) == \A b \in got : b.valid

NamesDistinct(got) == \A b, c \in got : b.name = c.name => b = c

AllPublished(got) == \A b \in got : b.name \in Published[rev]

GidsMatch(got) == \A b \in got : <<rev, b.name>> \notin Mislabelled

\* Mutation of Insertable: rows of earlier pages raise no IntegrityError.
InsertableInPage(got) ==
  \A b, c \in got : b.id = c.id \/ b.series = c.series => b = c

\* The PRIMARY KEY and the UNIQUE constraints of observed_book.
Insertable(got) ==
  /\ \A b, c \in got : b.id = c.id \/ b.series = c.series => b = c
  /\ \A b \in got, c \in rows :
       b.id # c.id /\ b.name # c.name /\ b.series # c.series

BookPageAccepted(got) ==
  /\ ItemsValid(got)
  /\ NamesDistinct(got)
  /\ AllPublished(got)
  /\ GidsMatch(got)
  /\ Insertable(got)

\* Mutation of Outdated: the updates are keyed by artifact name.
OutdatedByName(got) ==
  {[id |-> b.name, want |-> Wanted[rev][b.name]] :
     b \in {c \in got : ~UpToDate(Wanted[rev][c.name], meta[c.id])}}

\* The pending updates a page of books gives rise to.
Outdated(got) ==
  {[id |-> b.id, want |-> Wanted[rev][b.name]] :
     b \in {c \in got : ~UpToDate(Wanted[rev][c.name], meta[c.id])}}

\* A series page passes when its items are One-Shot series of the library
\* that observed_book references (FOREIGN KEY) and that are new (PRIMARY KEY).
SeriesPageAccepted(got) ==
  /\ got \cap BadSeries = {}
  /\ got \subseteq {b.series : b \in rows}
  /\ got \cap seriesRows = {}

-----------------------------------------------------------------------------
(* The pass, one action per request.                                       *)

\* The head is read and the store reset; a catalog without a head raises.
StartPass ==
  /\ pc = "poll" /\ InTime /\ head # 0
  /\ pc' = "books"
  /\ rev' = head /\ page' = 0 /\ cursor' = 0
  /\ rows' = {} /\ seriesRows' = {} /\ pending' = {}
  /\ bookCount' = 0 /\ seriesCount' = 0 /\ updateCount' = 0
  /\ UNCHANGED <<now, externalVars>>

NoCatalog ==
  /\ pc = "poll" /\ InTime /\ head = 0
  /\ pc' = "failed"
  /\ UNCHANGED <<now, passVars, externalVars>>

ExtraBooks(count) == count > ArtifactCount(rev)

CollectBookPage ==
  LET got == BookPage(page) updates == Outdated(got) IN
  /\ pc = "books" /\ InTime
  /\ got # {} /\ BookPageAccepted(got)
  /\ rows' = rows \union got
  /\ pending' = pending \union updates
  /\ bookCount' = bookCount + Cardinality(got)
  /\ updateCount' = updateCount + Cardinality(updates)
  /\ IF ExtraBooks(bookCount')
       THEN pc' = "incomplete" /\ UNCHANGED page
       ELSE pc' = pc /\ page' = page + 1
  /\ UNCHANGED <<now, rev, cursor, seriesRows, seriesCount, externalVars>>

RejectBookPage ==
  /\ pc = "books" /\ InTime
  /\ ~BookPageAccepted(BookPage(page))
  /\ pc' = "incomplete"
  /\ UNCHANGED <<now, passVars, externalVars>>

\* The catalog no longer answers for a revision that is not its head.
RevisionNotFound ==
  /\ pc = "books" /\ InTime
  /\ BookPage(page) # {} /\ head # rev
  /\ pc' = "incomplete"
  /\ UNCHANGED <<now, passVars, externalVars>>

\* Mutation of EndBooks: pages are asked for until the books are all there.
PageUntilComplete ==
  /\ pc = "books" /\ InTime
  /\ BookPage(page) = {}
  /\ IF bookCount = ArtifactCount(rev)
       THEN pc' = "series" /\ page' = 0
       ELSE page' = page + 1 /\ UNCHANGED pc
  /\ UNCHANGED <<now, rev, cursor, storeVars, externalVars>>

\* The empty page ends the pagination; the books must be all there.
EndBooks ==
  /\ pc = "books" /\ InTime
  /\ BookPage(page) = {}
  /\ IF bookCount = ArtifactCount(rev)
       THEN pc' = "series" /\ page' = 0
       ELSE pc' = "incomplete" /\ UNCHANGED page
  /\ UNCHANGED <<now, rev, cursor, storeVars, externalVars>>

CollectSeriesPage ==
  LET got == SeriesPage(page) IN
  /\ pc = "series" /\ InTime
  /\ got # {} /\ SeriesPageAccepted(got)
  /\ seriesRows' = seriesRows \union got
  /\ seriesCount' = seriesCount + Cardinality(got)
  /\ IF seriesCount' > ArtifactCount(rev)
       THEN pc' = "incomplete" /\ UNCHANGED page
       ELSE pc' = pc /\ page' = page + 1
  /\ UNCHANGED <<now, rev, cursor, rows, pending, bookCount, updateCount, externalVars>>

RejectSeriesPage ==
  /\ pc = "series" /\ InTime
  /\ ~SeriesPageAccepted(SeriesPage(page))
  /\ pc' = "incomplete"
  /\ UNCHANGED <<now, passVars, externalVars>>

EndSeries ==
  /\ pc = "series" /\ InTime
  /\ SeriesPage(page) = {}
  /\ pc' = IF seriesCount = ArtifactCount(rev) THEN "headCheck" ELSE "incomplete"
  /\ UNCHANGED <<now, passVars, externalVars>>

\* A page request fails for good: a RequestException makes the observation
\* incomplete, an answer that is not a page (KeyError, RuntimeError) or a
\* failing catalog ends the run.
RequestFails ==
  /\ pc \in {"books", "series"} /\ InTime
  /\ Trouble
  /\ pc' \in {"incomplete", "failed"}
  /\ UNCHANGED <<now, passVars, books, series, meta, late, head>>

\* A look at the catalog head fails; nothing catches that.
CatalogFails ==
  /\ pc \in {"headCheck", "confirm"} \/ (pc = "poll" /\ InTime)
  /\ Trouble
  /\ pc' = "failed"
  /\ UNCHANGED <<now, passVars, books, series, meta, late, head>>

\* The last look at the catalog head before anything is written.
CheckHead ==
  /\ pc = "headCheck"
  /\ pc' = IF head = rev THEN "patch" ELSE "incomplete"
  /\ UNCHANGED <<now, passVars, externalVars>>

-----------------------------------------------------------------------------
(* The PATCH phase.  What _patch_with_retries does with one batch (chunks, *)
(* attempts, verification) is folded into its outcome: every book of the   *)
(* batch verified, or the run fails with some of them written.             *)

\* Mutation of Unsent: the next batch starts one id too late.
UnsentPastNext == {q \in pending : q.id > cursor + 1}

\* The rows of pending_update no batch has covered yet.
Unsent == {q \in pending : q.id > cursor}

\* The keyset page of pending_update: the BatchSize first rows after cursor.
NextBatch == {q \in Unsent : Cardinality({o \in Unsent : o.id < q.id}) < BatchSize}

IsLastId(i, batch) == \A q \in batch : q.id <= i

PatchDone ==
  /\ pc = "patch" /\ NextBatch = {}
  /\ pc' = "settle"
  /\ UNCHANGED <<now, passVars, externalVars>>

\* Every book of the batch was re-read with the metadata wanted.
PatchBatch ==
  /\ pc = "patch" /\ InTime /\ NextBatch # {}
  /\ {q.id : q \in NextBatch} \subseteq PresentIds
  /\ meta' = AfterPatches(NextBatch)
  /\ \E q \in NextBatch : IsLastId(q.id, NextBatch) /\ cursor' = q.id
  /\ UNCHANGED <<now, pc, rev, page, storeVars, books, series, late, head, disturbances>>

\* As before, but an attempt for one of the books had timed out at the client
\* and its PATCH is still on its way to Komga.
PatchBatchLeavesLate ==
  /\ pc = "patch" /\ InTime /\ NextBatch # {}
  /\ {q.id : q \in NextBatch} \subseteq PresentIds
  /\ Trouble
  /\ meta' = AfterPatches(NextBatch)
  /\ \E q \in NextBatch : late' = late \union {q}
  /\ \E q \in NextBatch : IsLastId(q.id, NextBatch) /\ cursor' = q.id
  /\ UNCHANGED <<now, pc, rev, page, storeVars, books, series, head>>

\* A book stays unverified after the last attempt, or the deadline passes
\* between two requests: RuntimeError or TimeoutError, part of the batch written.
PatchBatchFails ==
  /\ pc = "patch" /\ InTime /\ NextBatch # {}
  /\ \/ Trouble
     \/ ~({q.id : q \in NextBatch} \subseteq PresentIds) /\ UNCHANGED disturbances
  /\ \E written \in SUBSET NextBatch : meta' = AfterPatches(written)
  /\ pc' = "failed"
  /\ UNCHANGED <<now, passVars, books, series, late, head>>

PassStep ==
  \/ StartPass \/ NoCatalog
  \/ CollectBookPage \/ RejectBookPage \/ RevisionNotFound \/ EndBooks
  \/ CollectSeriesPage \/ RejectSeriesPage \/ EndSeries
  \/ RequestFails \/ CatalogFails \/ CheckHead
  \/ PatchDone \/ PatchBatch \/ PatchBatchLeavesLate \/ PatchBatchFails
=============================================================================
