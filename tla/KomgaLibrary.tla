---------------------------- MODULE KomgaLibrary ----------------------------
(***************************************************************************)
(* What the synchronizer talks to: the target library of the Komga server  *)
(* and the catalog of published galleries.  Neither is code of this        *)
(* repository; both are modelled from what sync.py and komga.py ask of     *)
(* them.  Komga changes on its own (scans, analysis, an operator, a PATCH  *)
(* that lands after its client gave up) and the catalog head moves when    *)
(* another revision is published.                                          *)
(***************************************************************************)
EXTENDS Integers, FiniteSets

CONSTANTS
  BookRecords,     \* records [id, name, series, valid] Komga may hold
  SeriesIds,       \* ids of the series Komga may hold
  BadSeries,       \* those that are not One-Shot series of the library
  Artifacts,       \* canonical artifact names, "h2h-<gid>.cbz"
  Fields,          \* metadata fields of a book
  Values,          \* their values
  MaxRevision,     \* bound: last revision the catalog can publish
  Published,       \* artifacts of each revision
  Wanted,          \* for each revision and artifact the metadata to write
  Mislabelled,     \* <<revision, artifact>> whose publication has another gid
  PageSize,        \* books or series per page (PAGE_SIZE)
  InitLibraries,   \* the libraries a run may start from
  MaxDisturbances  \* bound: how often something outside interferes

Revisions == 1..MaxRevision
BookIds   == {b.id : b \in BookRecords}

\* A metadata payload names the fields it sets: a subset of Fields.
Wants == UNION {[S -> Values] : S \in SUBSET Fields}

\* One book's entry of a bulk PATCH.
Requests == [id : BookIds, want : Wants]

ASSUME LibraryConstants ==
  /\ IsFiniteSet(BookRecords) /\ IsFiniteSet(SeriesIds) /\ IsFiniteSet(Artifacts)
  /\ SeriesIds \subseteq Nat
  /\ BookRecords \subseteq
       [id : Nat \ {0}, name : Artifacts, series : SeriesIds, valid : BOOLEAN]
  /\ BadSeries \subseteq SeriesIds
  /\ MaxRevision \in Nat
  /\ Published \in [Revisions -> SUBSET Artifacts]
  /\ \A r \in Revisions : \A a \in Published[r] : Wanted[r][a] \in Wants
  /\ Mislabelled \subseteq Revisions \X Artifacts
  /\ PageSize \in Nat \ {0}
  /\ MaxDisturbances \in Nat

ASSUME InitialLibraries ==
  \A l \in InitLibraries :
    /\ l.books \subseteq BookRecords
    /\ l.series \subseteq SeriesIds
    /\ l.meta \in [BookIds -> [Fields -> Values]]
    /\ l.late \subseteq Requests

VARIABLES
  books,         \* the records Komga lists
  series,        \* the series ids Komga lists
  meta,          \* the metadata Komga has for each book id
  late,          \* PATCH entries whose client timed out, still in flight
  head,          \* current catalog revision, 0 when nothing is published
  disturbances   \* how often something outside has interfered

libraryVars == <<books, series, meta>>
externalVars == <<books, series, meta, late, head, disturbances>>

LibraryTypeOK ==
  /\ books \subseteq BookRecords
  /\ series \subseteq SeriesIds
  /\ meta \in [BookIds -> [Fields -> Values]]
  /\ late \subseteq Requests
  /\ head \in 0..MaxRevision
  /\ disturbances \in 0..MaxDisturbances

LibraryInit ==
  /\ \E l \in InitLibraries :
       /\ books = l.books
       /\ series = l.series
       /\ meta = l.meta
       /\ late = l.late
  /\ head \in 0..MaxRevision
  /\ disturbances = 0

-----------------------------------------------------------------------------
(* What the server answers.                                                *)

\* Page p of a listing sorted by id, ascending.
PageOf(keys, p) ==
  {k \in keys : Cardinality({j \in keys : j < k}) \div PageSize = p}

BookPage(p) == {b \in books : b.id \in PageOf({c.id : c \in books}, p)}
SeriesPage(p) == PageOf(series, p)

\* artifact_count of a catalog revision.
ArtifactCount(r) == Cardinality(Published[r])

\* expected.items() <= current.items()
UpToDate(want, current) == \A f \in DOMAIN want : current[f] = want[f]

\* What a PATCH of want leaves of a book's metadata.
Patched(want, current) ==
  [f \in Fields |-> IF f \in DOMAIN want THEN want[f] ELSE current[f]]

\* The metadata of every book after the entries in reqs, at most one for a
\* book, were applied; an entry for a book Komga does not hold does nothing.
PresentIds == {b.id : b \in books}
AfterPatches(reqs) ==
  [i \in BookIds |->
     IF i \in PresentIds /\ \E q \in reqs : q.id = i
       THEN Patched((CHOOSE q \in reqs : q.id = i).want, meta[i])
       ELSE meta[i]]

-----------------------------------------------------------------------------
(* What happens to them from outside.  Every such event counts against     *)
(* MaxDisturbances.                                                        *)

Disturb ==
  /\ disturbances < MaxDisturbances
  /\ disturbances' = disturbances + 1

AddBook(b) ==
  /\ Disturb
  /\ \A c \in books : c.id # b.id
  /\ books' = books \union {b}
  /\ UNCHANGED <<series, meta, late, head>>

RemoveBook(b) ==
  /\ Disturb
  /\ books' = books \ {b}
  /\ UNCHANGED <<series, meta, late, head>>

AddSeries(s) ==
  /\ Disturb
  /\ series' = series \union {s}
  /\ UNCHANGED <<books, meta, late, head>>

RemoveSeries(s) ==
  /\ Disturb
  /\ series' = series \ {s}
  /\ UNCHANGED <<books, meta, late, head>>

\* Komga's analysis or an operator overwrites one field of a book.
RewriteMetadata(b, f, v) ==
  /\ Disturb
  /\ meta' = [meta EXCEPT ![b.id][f] = v]
  /\ UNCHANGED <<books, series, late, head>>

\* A PATCH the synchronizer has given up on is applied after all.
LandLate(q) ==
  /\ Disturb
  /\ late' = late \ {q}
  /\ meta' = AfterPatches({q})
  /\ UNCHANGED <<books, series, head>>

AdvanceHead ==
  /\ Disturb
  /\ head < MaxRevision
  /\ head' = head + 1
  /\ UNCHANGED <<books, series, meta, late>>

Interfere ==
  \/ \E b \in BookRecords \ books : AddBook(b)
  \/ \E b \in books : RemoveBook(b)
  \/ \E s \in SeriesIds \ series : AddSeries(s)
  \/ \E s \in series : RemoveSeries(s)
  \/ \E b \in books, f \in Fields, v \in Values : RewriteMetadata(b, f, v)
  \/ \E q \in late : LandLate(q)
  \/ AdvanceHead

-----------------------------------------------------------------------------
(* When the library is what a revision publishes.                          *)

SameSet(r) ==
  /\ {b.name : b \in books} = Published[r]
  /\ \A b \in books : b.valid /\ <<r, b.name>> \notin Mislabelled
  /\ \A b, c \in books : b.name = c.name \/ b.series = c.series => b = c
  /\ series = {b.series : b \in books}
  /\ series \cap BadSeries = {}

SameMetadata(r) == \A b \in books : UpToDate(Wanted[r][b.name], meta[b.id])
=============================================================================
