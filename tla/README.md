# Verification of h2hdb-komga

`h2hdb-komga` brings a Komga library in line with the catalog of published
galleries that H2HDB keeps: it asks Komga to scan, waits until Komga lists
exactly the published artifacts, one One-Shot series each, writes the metadata
of the books that differ, and exits 0 after all of this has been seen unchanged
for a while. This directory holds TLA+ models of that program, TLC
configurations that check them on small instances, and proofs, checked by
TLAPS, of what holds for all instances. Source lines refer to
`src/h2hdb_komga/`; line-by-line correspondence is in `PROJECT.json`.

## Inventory

| Component | State | Operations | Talks to |
| --- | --- | --- | --- |
| **Settling loop**, `_sync_komga_library` (sync.py:776-924) | `previous_fingerprint`, `previous_catalog_revision`, `stable_since`, the deadline | scan, analyze, poll, compare with the previous pass, confirm the head, sleep | a pass per poll; the catalog head; the clock |
| **Pass and snapshot store**, `_reconcile_exact_snapshot`, `_collect_*_page`, `_SnapshotStore` (sync.py:202-355, 528-733) | pinned revision, page number, three sqlite tables and three counters, key of the last update batch | reset, collect a page of books or series, end a pagination, check the head, write a batch, fingerprint | Komga page by page; the catalog at the pinned revision; the batch update |
| **Batch update**, `_patch_with_retries` and helpers (sync.py:367-513) | attempt, remaining books, chunks queued and in flight, books unverified | cut into chunks, PATCH from a thread pool, read back from a second pool, pause, retry | Komga; the deadline |
| **HTTP client** (komga.py) | attempt, pause and deadline of a page request | page with up to 3 tries, book, PATCH, scan, analyze | Komga |
| **Metadata translation** (metadata.py) | none | publication to payload | pass |
| **Names and catalog lookup** (sync.py:119-146) | none | canonical artifact name, lookup in groups of 128 | catalog |
| **Read coordination** (coordination.py) | two descriptors, shared `flock`, marker file | open, take the lock, look for `ACTIVATING`, unlock, close | ingest, another process |
| **Supervisor and worker** (\_\_main\_\_.py:69-173) | where supervisor and worker are, exit code, signals sent | spawn, join with timeout, kill, join again, interpret the exit code; in the worker load, check readiness, open the catalog, synchronize, close | each other; the lock |
| **Komga and catalog** | books, series, metadata, PATCHes in flight; head revision | scan, analysis, edits; publication of a revision | external |
| Configuration, logging, repository scripts | none of interest | straight-line | - |

What is hard here, and what makes each part correct:

* *Loop.* Success is a statement about a stretch of time, kept in three
  variables that are reset in five places. Correct when success implies an
  unbroken window (`ImplementsSettledWindow`), when it implies that the library
  matches the *current* head (`SuccessIsExact`), when every run ends
  (`Termination`) without ever spinning (`LoopAdvances`) and when a quiet library lets it succeed (`SettlesWhenQuiet`).
* *Pass.* Pagination is not atomic, the library moves under it, and no set is
  ever compared with another: uniqueness constraints and counts have to add up
  to exactness (`ExactBeforePatch`), and the whole of the library has to have
  been covered (`QuietPassIsExact`). There is no page total either: the
  paginations have to end all the same (`PagesBounded`).
* *Batch update.* A 204 proves nothing, a time-out proves nothing, one bad book
  fails its neighbours, retries may overwrite. Correct when "verified" means
  written (`VerifiedMeansWritten`), retries leave verified books alone
  (`ConfirmedIsNotResent`), only bad books stay behind (`OnlyBadAreLeft`), and
  the call ends (`CallEnds`, `CallAdvances`).
* *HTTP client.* Its own retries race the caller's deadline, and the caller goes
  by the kind of exception: correct when a `RequestException`, upon which it
  polls again, means that Komga refused the request or that every attempt failed,
  a `TimeoutError` that the deadline is over (`OutcomeIsEarned`), and when only a trickling answer outlasts the deadline
  (`OverByDeadline`).
* *Names and metadata.* One artifact has two names, a page may need several
  lookups. Correct when a page is accepted exactly if its items stand for
  different published galleries (`AcceptsExactPages`), and when payloads are
  complete (`WritesAllTags`).
* *Coordination.* Lock and marker are looked at in two steps while ingest may
  run or crash. Correct when no sync runs during an activation
  (`ReadsWholeLibrary`, `ImplementsAccess`), and no way out of `read()` leaves a
  lock behind (`LockIsReturned`).
* *Supervisor.* The worker may end between the expired join and the kill, or
  not end at all. Correct when success implies a completed synchronization
  (`SuccessIsSynced`), when nothing goes on after the report
  (`QuietAfterReport`), when the command ends although the worker never would
  (`CommandEnds`), which takes a kill before every join without a limit
  (`OverdueIsKilled`), and the lock comes back (`LockComesBack`).

`PROJECT.json` lists these hazards one by one, each at its line.

## Modules

| Module | What it models |
| --- | --- |
| `KomgaLibrary` | The outside: what Komga lists (`books`, `series`), its metadata, PATCHes in flight (`late`), the catalog `head`; the answers to requests (`BookPage`, `SeriesPage`, `AfterPatches`) and the events that change them without the program. `SameSet` and `SameMetadata` say when the library is what a revision publishes |
| `Snapshot` | One pass, one action per request, over the sqlite tables `rows`, `seriesRows`, `pending` and their counters |
| `Sync` | The settling loop around it, the clock, deadline and sleeps; `TypeOK`, `ExactBeforePatch`, `PagesBounded`, `LoopAdvances` |
| `SettledWindow` | Abstract specification: observations, the window of equal clean ones, success only over a long enough window |
| `SyncHistory` | `Sync` with history variables `window` and `touched`; the refinement mapping to `SettledWindow` and the other properties |
| `SyncEvidence` | A second window, dated by when the pages were read |
| `BatchUpdate` | Abstract specification of a batch: through only when every book has been seen with its metadata, given up only when one has not |
| `Patch` | One batch: attempts, chunks, sending pool, verification pool, deadline, and Komga's side of it |
| `PatchHistory` | `Patch` with history variables `confirmed`, `undone`, `troubled`; the refinement mapping to `BatchUpdate` and the other properties |
| `PageFetch` | One `get_book_page` or `get_series_page`: attempts, pauses, time-outs, the caller's deadline |
| `BookPage` | `_collect_book_page` item by item and lookup by lookup, with `_canonical_artifact_name` and `publication_to_komga_metadata` as operators |
| `LibraryAccess` | Abstract specification of the read coordination |
| `Coordination` | `read()` for any number of syncs, descriptor by descriptor, beside ingest |
| `Supervisor` | The command: supervisor and worker, which reads the library through `Coordination` |
| `MCSync`, `MCSyncEvidence`, `MCBookPage` | Small libraries, catalogs and pages for TLC |
| `Sync_proofs`, `SyncHistory_proofs`, `SyncQuiet_proofs`, `PatchHistory_proofs`, `PageFetch_proofs`, `BookPage_proofs`, `Coordination_proofs`, `Supervisor_proofs` | Theorems and proofs |

`Sync` extends `Snapshot`, which extends `KomgaLibrary`: `PassStep` is a
disjunct of the loop's step, and environment and clock interleave with both.
`Snapshot!PatchBatch`, `PatchBatchLeavesLate` and `PatchBatchFails` are the
outcomes of a batch; `Patch` is how `_patch_with_retries` gets there. In the same
way `Snapshot!RequestFails` is an outcome of `PageFetch`, and the one step in
which `Snapshot` accepts or refuses a page of books is `BookPage`.
`Supervisor` extends `Coordination`: the stage `sync` of a worker consists of
the steps of `read()`, and ingest interleaves with all commands. What happens
inside the body of `read()` is `Sync`; to `Supervisor` it returns, raises, or hangs.

### Correspondence worth knowing

* `pc` names the place in the code. Exceptions that the loop catches
  (`_IncompleteSnapshot`, `_CatalogHeadAdvanced`, `CatalogRevisionNotFoundError`)
  take it to `"incomplete"`, where `Forget` is their handler; every other
  exception, a failing catalog for instance (`CatalogFails`), ends the run in
  `"failed"`.
* A pass is cut into actions where something else can happen in between: at its
  requests and its reads of the clock. A page of books is validated, looked up
  in the catalog and inserted in one action because it is a copy by then; that
  the catalog may have moved between page and lookup is `RevisionNotFound`,
  which is allowed, not forced, as soon as the head has moved (whether an old
  revision can still be read depends on the catalog).
* A book is a record `[id, name, series, valid]`. `valid` stands for the field
  checks of `_collect_book_page` (string fields, library, One-Shot, canonical
  name). The catalog's answer for an artifact whose publication carries another
  gid is `Mislabelled`. The constraints PRIMARY KEY, UNIQUE and FOREIGN KEY of
  the tables are `Insertable` and `SeriesPageAccepted`; an `IntegrityError` is an
  incomplete observation (sync.py:269-281, 283-294).
* Metadata is a function of fields to values, a payload a function of *some*
  fields: `expected.items() <= current.items()` is `UpToDate`.
* Fingerprints are the sets they are hashes of: collisions of SHA-256 are left out.
* Time is in ticks since the start and stops at the deadline: nothing in the
  code tells one moment after the deadline from another. Without `SlowCalls` it
  moves in sleeps only, with it during any step.
* `Patch` orders the pool's queue as `ThreadPoolExecutor` does, first in, first
  out. The verification pool checks one book per action in any order; each check is
  one request, so its size makes no difference. `good` are the books that carry
  the wanted metadata in Komga; `bad`, some of the `Suspects`, are fixed at the start:
  whether Komga accepts an update does not depend on when it is sent. The phase
  `"unverified"` is the return of the leftovers, upon which the caller raises.
* `PageFetch` keeps the reads of the clock that matter: before a request, and
  before a pause. `requests` bounds the time between two bytes, so an answer that
  trickles in outlasts any time-out and every deadline; that is `"trickling"`.
  A status below 500 is a `RequestException` like the others to the caller, but
  is raised as it comes (`ClientError`); `refused` remembers it for the property.
* In `BookPage` a name is cut where the code looks at it: whether it begins with
  `h2h-`, the digits after that, the number of `.cbz` suffixes. `valid` is what is
  left of the field checks. A catalog that moves between two lookups of a page
  ends it as `"revision not found"`, so the answers of one page belong to one
  revision. Summary and date are copied and are left out.
* `Coordination`: the lock belongs to an open file description; closing it, or
  the death of the process, releases it. `publication.lock` is never replaced
  (README.md:206), so all processes lock the same file. Ingest is external: it
  takes the lock exclusively, marks, switches, unmarks and lets go, and may crash
  between any two of these steps (`LetGo`), leaving marker and half-switched
  library for its next run. `Unlock` and `CloseAll` may fail with an `OSError`.
* `Supervisor` has no clock. A deadline may pass at any time, and fairness makes it
  pass; this includes every order of the worker's own deadline, which starts
  after its imports and the readiness check but has the same length, and of the
  supervisor's, so that in practice the kill comes first and the clean-up of
  the worker's temporary directory is lost with it. The exit code of the
  command is 1 for all reports but `"ok"`, time-outs included. `Exit` is the exit handler of
  `multiprocessing`, which joins a daemon that survived the grace period.
  A killed supervisor leaves an orphan that keeps the shared lock until its
  own deadline.

## Runs

| Run | Asks | Instance |
| --- | --- | --- |
| `sync_churn` | `TypeOK`, `ExactBeforePatch`, `PagesBounded`, `QuietPassIsExact`, `ImplementsSettledWindow` under a moving library | 8 book records (duplicates by name, by series, an unpublished, an invalid and a re-imported one), 4 series, pages and batches of one, 3 disturbances |
| `sync_revision` | `SuccessIsExact`, `ImplementsSettledWindow` while revisions are published | 3 revisions with a growing set, other metadata, a mislabelled publication, PATCHes that land late, 4 disturbances |
| `sync_slow` | `Termination`, `LoopAdvances`, `ImplementsSettledWindow` when any request may take time | 2 books, `SlowCalls` |
| `sync_settles` | `SettlesWhenQuiet` | interference up to tick 1, stable period 2, poll 1, deadline 6 |
| `sync_evidence` | the README's "observed unchanged for 30 seconds" | 1 book, `SlowCalls`; violated |
| `patch_retries` | `TypeOK`, `VerifiedMeansWritten`, `OnlyBadAreLeft`, `ConfirmedIsNotResent`, `CallAdvances`, `CallEnds`, `ImplementsBatchUpdate` | 5 books, one or none bad, 3 attempts with chunk limits 8, 4 and 1, 2 threads, 2 troubles |
| `patch_leftovers` | the comment on isolating "only genuinely-bad books" | 2 good books, 3 troubles; violated |
| `page_fetch` | `TypeOK`, `OutcomeIsEarned`, `OverByDeadline` | 3 attempts of up to 4 ticks, pauses of 3, deadline 12 |
| `book_page` | `AcceptsExactPages`, `WritesAllTags` | all pages of up to 3 items with 15 names, lookups of 2 |
| `coordination` | `TypeOK`, `ReadsWholeLibrary`, `LockIsReturned`, `NobodyWaits`, `ImplementsAccess` | 2 syncs, ingest |
| `supervisor` | `CommandTypeOK`, `SuccessIsSynced`, `QuietAfterReport`, `OverdueIsKilled`, `CommandEnds`, `LockComesBack` | 1 command, ingest |
| `supervisor_late` | the message "exceeded the ... hard timeout" and the README on exit codes | 1 command; violated |

### Bounds, and why they are enough

* `MaxDisturbances` bounds everything from outside, lost and failing requests
  included; three or four of them allow the shortest interesting stories
  (remove behind the page, add ahead of it, restore; publish during the pass, land
  a late PATCH, publish again).
* `PageSize = 1` puts a boundary between any two books, so every shift of a
  listing can be seen; `PageSize = 2` covers pages with company. `BatchSize = 1`
  does the same for update batches.
* `Stable = 2`, `Poll = 1` is the smallest window with an observation in its
  middle. The deadlines leave room for one broken window and a full one.
* `sync_settles` is tight: with a deadline of 5 the property fails, because a
  last disturbance at tick 1 is repaired by an updating pass at 2, the
  window opens at 3 and has to span 2 ticks before the deadline check.
* `patch_retries`: 5 books in chunks of 8, 4 and 1 make every attempt cut
  differently; a divisor of 2 stands for the code's 10 and a limit of 8 for 200.
  Two threads are the smallest pool in which chunks overlap. That no book need
  be bad matters: with a bad book in every batch no call would report success.
* `page_fetch`: three attempts of 4 and two pauses of 3 would take 18 ticks, so
  a deadline of 12 falls into the second pause or the third request, and, behind
  an answer that trickled in, into any earlier one; the clock stops at 14, late
  enough to see an answer outlast the deadline.
* `book_page`: two items meet in one lookup, the third is in a short one. The
  names cover both spellings, a double suffix, no digits, a leading zero, more
  than one digit, a gid that is not published, one that is too large and one
  whose publication carries another gid.
* `coordination`: two syncs, so that one holds the lock while the other comes,
  leaves or dies. `supervisor`: commands meet only at the lock, so one is enough
  beside ingest; the proofs are for any number.

### Fairness

`SyncStep` and `Tick` are weakly fair: the program is sequential and takes its
next step as long as its requests return (each carries a time-out), and the
clock is `time.monotonic`. `CallStep` likewise: threads of a pool run. Nothing
is assumed about the environment. A response that trickles in forever satisfies
no such assumption; that case is what the supervisor process is for.
In `Coordination`, `Admit` and `Leave` are weakly fair, the body of `read()`
and ingest are not: a sync does not wait for either. In `Supervisor` a worker that does
not hang takes its steps, because the loop's own deadline ends its body; `Hang`
disables them for good. The steps of the supervisor are fair because joins
carry a time-out, and the death of a worker is fair once it has been sent SIGKILL.
`SettlesWhenQuiet` assumes what it names: the interference has stopped while
the library holds the published set, and no exception ended the run early.

### The three violated statements

* `ObservedUnchangedForStable`: README.md:185 says that content and metadata are
  observed unchanged for 30 seconds before success. The code takes the time of an
  observation when its pass is *over* (sync.py:859) and compares two such times
  (sync.py:877). A last pass of which the first page was read soon after the
  previous pass and whose remaining requests are slow counts as observation time.
* `OnlyGenuinelyBadAreLeft`: the comment at sync.py:433-436 says that sending
  single books last guarantees that only bad ones are left. A book Komga would
  accept is left over as well when in each attempt one request for it goes
  wrong: its PATCH is lost or applied in part, which is logged and left to the
  verification (sync.py:382-391), or its verification GET fails (sync.py:410-411),
  which counts as not written even if it was.
  `OnlyBadAreLeft` is the same statement for an undisturbed last attempt, and holds.
* `TimeoutIsNotSynced`: a report of `"timeout"` says that this synchronization
  was not completed (\_\_main\_\_.py:141, README.md:196). A worker that is alive when the
  join expires may complete its synchronization and end with exit code 0 before
  the kill arrives; its exit code is not asked for (\_\_main\_\_.py:132-142). (One
  killed between its last line and its end is no different to Komga, but nobody
  could know of it; the property leaves it aside.) `SuccessIsSynced`, the converse, holds.

## Proofs

For all values of the constants that satisfy the ASSUMEs:

| Theorem | Says |
| --- | --- |
| `Sync_proofs!TypeCorrect` | `Spec => []TypeOK` |
| `Sync_proofs!NothingWrittenBeforeExact` | `Spec => []ExactBeforePatch` |
| `Sync_proofs!PaginationsEnd` | `Spec => []PagesBounded` |
| `Sync_proofs!NeverSpins` | `Spec => LoopAdvances` |
| `SyncHistory_proofs!SettlingIsSound` | `HistorySpec => ImplementsSettledWindow` |
| `SyncQuiet_proofs!QuietPassRepairs` | `HistorySpec => []QuietPassIsExact` |
| `SyncQuiet_proofs!SuccessMatchesHead` | `HistorySpec => []SuccessIsExact` |
| `PatchHistory_proofs!PatchTypeCorrect` | `HistorySpec => []TypeOK` |
| `PatchHistory_proofs!SuccessIsWritten` | `HistorySpec => []VerifiedMeansWritten` |
| `PatchHistory_proofs!NoResend` | `HistorySpec => ConfirmedIsNotResent` |
| `PatchHistory_proofs!CallProgresses` | `HistorySpec => CallAdvances` |
| `PatchHistory_proofs!LeftoversAreBad` | `HistorySpec => []OnlyBadAreLeft` |
| `PatchHistory_proofs!CallIsBatchUpdate` | `HistorySpec => ImplementsBatchUpdate` |
| `PageFetch_proofs!PageFetchTypeCorrect` | `Spec => []TypeOK` |
| `PageFetch_proofs!OutcomesAreEarned` | `Spec => []OutcomeIsEarned` |
| `PageFetch_proofs!FetchEndsByDeadline` | `Spec => []OverByDeadline` |
| `BookPage_proofs!CanonicalNames` | which names `_canonical_artifact_name` accepts, and what it answers |
| `BookPage_proofs!Invariant` | `Spec => []IInv` |
| `BookPage_proofs!PagesExact` | `Spec => []AcceptsExactPages` |
| `BookPage_proofs!TagsWritten` | `Spec => []WritesAllTags` |
| `Coordination_proofs!CoordinationTypeCorrect` | `Spec => []TypeOK` |
| `Coordination_proofs!NoReadOfHalfLibrary` | `Spec => []ReadsWholeLibrary` |
| `Coordination_proofs!NoLockLeft` | `Spec => []LockIsReturned` |
| `Coordination_proofs!CoordinationIsSound` | `Spec => ImplementsAccess` |
| `Supervisor_proofs!CommandsReadWholeLibrary` | `CommandSpec => []ReadsWholeLibrary` |
| `Supervisor_proofs!CommandTypeCorrect` | `CommandSpec => []CommandTypeOK` |
| `Supervisor_proofs!SuccessMeansSynced` | `CommandSpec => []SuccessIsSynced` |
| `Supervisor_proofs!QuietOnceReported` | `CommandSpec => []QuietAfterReport` |
| `Supervisor_proofs!OverdueKilled` | `CommandSpec => []OverdueIsKilled` |
| `Supervisor_proofs!CommandsAreSound` | `CommandSpec => ImplementsAccess` |

* *ExactBeforePatch* is not inductive. `IInv` adds `Pinned` (while a pass runs,
  its revision is a published one) and `Collected`: during a pass the counters
  equal the cardinalities of the tables, the collected rows have pairwise
  different ids, names and series, are valid and published, and the series rows are
  series of collected books. When the count of books
  reaches `artifact_count`, the names form a subset of the published set of the
  same cardinality, hence that set; likewise for series. Nothing is assumed of
  the pages Komga returns, which is why the theorem survives any interference.
* *SettlingIsSound* uses `HInv`: `IInv` and `WindowInv`, which ties the loop's
  three variables to the window. The mapping is
  `window <- window`, `outcome <- Outcome`, `Unclear <- None`; a step that ends
  a pass maps to `ObserveClean` or `ObserveUnclear`, `Confirm` to `Succeed`,
  everything else to a stutter. The delicate case is a failed confirmation, which
  resets `stable_since` although the window itself goes on.
* *The batch update* rests on `CInv`: books outside `remaining` are confirmed,
  chunks under way lie inside it, during verification every book that is still
  to be decided is unchecked or known to be unverified, and what was confirmed is
  written or was undone. `Isolating` adds, for the last attempt, that the chunks
  are singletons that cover the remaining books; lemma `Singletons` derives that
  from the way the sorted ids are cut.
* *CallIsBatchUpdate* maps `confirmed` to `seen` and the phase to the outcome.
  Beside `CInv` it needs `Unfinished`: until the call ends some book remains, and
  a verification that met the deadline has left out a book that nothing can
  confirm any more. This is why giving up is never unfounded, although it is
  decided on `raised`, `expired` or `unverified`, none of which is about
  what has been confirmed.
* *QuietPassRepairs* needs no induction over the pages of a listing: an id's rank
  is the number of smaller ids listed, ranks are a bijection from the ids to
  0, 1, ... (`EveryRank`), and page *p* holds the ranks whose quotient by the page
  size is *p*. So if page *p* is empty, everything is on the pages before it
  (`PagesOfListing`). `QInv` adds to `IInv`, for a pass nobody touched: the rows
  hold every book on the pages read so far, and likewise the series rows;
  each row without a pending update is about a book that has its metadata; what has
  been sent is a prefix of the pending updates by key (`BatchIsPrefix`), and
  those books have what they were sent. When the next batch is empty nothing is unsent
  (`EmptyBatch`). `SuccessMatchesHead` follows because `Confirm` declares success
  only if the head is the pinned revision then.
* *Coordination* rests on `LockDiscipline`: whoever reads holds the shared lock
  and has seen no marker since; ingest, which alone creates the marker, holds the
  exclusive lock then; a half-switched library has its marker. No step of `read()`
  needs to know where ingest is.
* *Supervisor*: every step of the composition is a step of `Coordination` or
  leaves its variables alone (`NextCoordinates`), so its theorems carry over.
  `WorkerOrder` and `ReportOrder` say that the exit code 0 is the last of a chain
  that begins with a completed body, and that nothing is reported of a worker
  that is not over.
* *PageFetch*: every attempt but the current one has failed, none was refused
  while the call goes on, and what is under way ends by `limit`, which `Bounded`
  keeps within the deadline.

* *PaginationsEnd* and *NeverSpins*: `PagesCounted` adds to `IInv` that every page
  so far has counted at least one row, and that a pagination which goes on has
  counted no more rows than there are artifacts; series are counted from zero.
  `LoopAdvances` and `CallAdvances` are the safety half of termination: an order
  in which every step of the program goes down (stages, then pages or unsent
  updates, until the sleep, which takes time; attempts, then phases, then chunks
  queued or active and books unchecked). What is left to liveness is that the
  step comes, which is what fairness says.
* *BookPage*. `Digits`, `Value` and `TagAuthors` are recursive functions over
  numbers or prefixes, not RECURSIVE operators. That such a function exists,
  and so satisfies its own equation, is lemma `Recursion`. It rests on
  `StrongInduction`, stated for sets of numbers instead of predicates and proved
  from least elements (`Least`, by `WFMin`). So `ValueOfDigits` and `DigitsOfValue`, that decimal digits
  without a leading zero and numbers correspond one to one, hold for numbers of
  any length, and `CanonicalNames` follows: a name is accepted exactly when it is
  one of the two spellings of a gid up to `MAX_GID`. `IInv` says what a page has
  come to: the names are the canonical ones of the items parsed so far, the
  dictionary holds what is published under the names before the offset and
  nothing else (`BatchNames`: batches meet at their boundaries), an observation
  given up was not acceptable. It assumes of the constants that pages are
  finite sequences of items with a name, that gids are numbers and subjects
  sequences, and that `None` is no name.

Only model-checked: the liveness properties `Termination`, `SettlesWhenQuiet`,
`CallEnds`, `NobodyWaits`, `CommandEnds` and `LockComesBack`: the prover treats
neither fairness nor ENABLED. Every invariant, action property and refinement
that a passing run checks is also proved.

## Not modelled

* Configuration loading: parsing and validation of JSON before anything else; all
  the rest sees of it is that the worker may end at once (`LoadConfig`). The
  validation of time-out arguments likewise.
* Logging and progress reports; the repository's scripts and CI.
* `_get_catalog_metadata_by_book_names`, which the program itself does not call.
* Durations in `Supervisor` (see above), and the temporary directory a killed worker
  leaves behind: it is private to the run, and nothing reads it later.
* The inside of Komga, of ingest and of the `h2hdb` package, other than as what
  the code asks of them.
* A batch that overlaps with outside edits is in `Patch`, not in `Snapshot`,
  where a batch is one step; `BatchUpdate` states what that step takes for granted
  of a call, and Komga may change the books at any time before and after.

## What is left

Every part with state of its own is modelled. Worth adding later: the step from
`BookPage` to `Snapshot!BookPageAccepted`, and from `BatchUpdate` to
`Snapshot!PatchBatch`, which rest on reading the two modules side by side, as
refinements of their own; and `Supervisor` with a clock, if the command's two
deadlines are ever told apart.
