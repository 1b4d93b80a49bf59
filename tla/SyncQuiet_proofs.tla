-------------------------- MODULE SyncQuiet_proofs --------------------------
(***************************************************************************)
(* Proof that a pass nobody disturbs leaves the library exactly as the     *)
(* pinned revision wants it, and that success means the head, for every    *)
(* library, catalog, page size, batch size and timing.                     *)
(***************************************************************************)
EXTENDS SyncHistory_proofs

-----------------------------------------------------------------------------
(* Sorted listings.  An id's rank is the number of smaller ones; the ranks *)
(* of a finite set of ids are exactly 0, 1, ..., without a gap, so an empty *)
(* page has nothing behind it.                                             *)

Rank(i, keys) == Cardinality({j \in keys : j < i})

LEMMA RankBound ==
  ASSUME NEW keys \in SUBSET Nat, IsFiniteSet(keys), NEW i \in keys
  PROVE  Rank(i, keys) \in 0..(Cardinality(keys) - 1)
<1> DEFINE Below == {j \in keys : j < i}
<1>1. Below \in SUBSET keys /\ i \notin Below
  OBVIOUS
<1>2. IsFiniteSet(Below) /\ Cardinality(Below) <= Cardinality(keys) /\ Below # keys
  BY <1>1, FS_Subset
<1>3. Cardinality(Below) # Cardinality(keys)
  BY <1>1, <1>2, FS_Subset
<1>4. Cardinality(Below) \in Nat /\ Cardinality(keys) \in Nat
  BY <1>2, FS_CardinalityType
<1>5. QED
  BY <1>2, <1>3, <1>4 DEF Rank

LEMMA RankGrows ==
  ASSUME NEW keys \in SUBSET Nat, IsFiniteSet(keys),
         NEW i \in keys, NEW j \in keys, j < i
  PROVE  Rank(j, keys) # Rank(i, keys)
<1> DEFINE Below(k) == {m \in keys : m < k}
<1>1. Below(i) \in SUBSET keys
  OBVIOUS
<1>2. \A k \in keys : k < j => k < i
  OBVIOUS
<1>3. Below(j) \in SUBSET Below(i) /\ j \in Below(i) /\ j \notin Below(j)
  <2>1. Below(j) \in SUBSET Below(i)
    BY <1>2
  <2>2. j \in Below(i) /\ j \notin Below(j)
    OBVIOUS
  <2> HIDE DEF Below
  <2>3. QED
    BY <2>1, <2>2
<1>4. IsFiniteSet(Below(i))
  BY <1>1, FS_Subset
<1>5. Cardinality(Below(i)) = Cardinality(Below(j)) => Below(i) = Below(j)
  BY <1>3, <1>4, FS_Subset
<1>6. QED
  BY <1>3, <1>5 DEF Rank

LEMMA EveryRank ==
  ASSUME NEW keys \in SUBSET Nat, IsFiniteSet(keys),
         NEW k \in Nat, k < Cardinality(keys)
  PROVE  \E i \in keys : Rank(i, keys) = k
<1> DEFINE n == Cardinality(keys)
           R == [i \in keys |-> Rank(i, keys)]
<1>1. n \in Nat
  BY FS_CardinalityType
<1>2. R \in [keys -> 0..(n - 1)]
  BY RankBound
<1>3. \A i, j \in keys : R[i] = R[j] => i = j
  <2>1. \A i, j \in keys : j < i => Rank(j, keys) # Rank(i, keys)
    BY RankGrows
  <2>2. \A i, j \in Nat : i = j \/ i < j \/ j < i
    OBVIOUS
  <2>3. QED
    BY <2>1, <2>2
<1>4. R \in Injection(keys, 0..(n - 1))
  BY <1>2, <1>3 DEF Injection, IsInjective
<1>5. IsFiniteSet(0..(n - 1)) /\ Cardinality(0..(n - 1)) = n
  <2>1. 0 \in Int /\ n - 1 \in Int
    BY <1>1
  <2>2. /\ IsFiniteSet(0..(n - 1))
        /\ Cardinality(0..(n - 1)) = IF 0 > n - 1 THEN 0 ELSE (n - 1) - 0 + 1
    BY <2>1, FS_Interval
  <2>3. QED
    BY <1>1, <2>2
<1>6. R \in Surjection(keys, 0..(n - 1))
  BY <1>4, <1>5, FS_Injection
<1>7. k \in 0..(n - 1)
  BY <1>1
<1>8. QED
  BY <1>6, <1>7 DEF Surjection

LEMMA Division ==
  \A p, r \in Nat, d \in Nat \ {0} :
    /\ r \div d \in Nat
    /\ p <= r \div d => p * d <= r /\ (p * d) \div d = p
OBVIOUS

\* The ids on the first p pages of a listing.
Listed(keys, p) == {k \in keys : Rank(k, keys) \div PageSize < p}

LEMMA RankType ==
  ASSUME NEW keys \in SUBSET Nat, IsFiniteSet(keys), NEW i \in keys
  PROVE  Rank(i, keys) \in Nat /\ Rank(i, keys) < Cardinality(keys)
<1>1. Cardinality(keys) \in Nat
  BY FS_CardinalityType
<1>2. QED
  BY <1>1, RankBound

LEMMA PagesOfListing ==
  ASSUME NEW keys \in SUBSET Nat, IsFiniteSet(keys), NEW p \in Nat
  PROVE  /\ Listed(keys, 0) = {}
         /\ Listed(keys, p + 1) = Listed(keys, p) \union PageOf(keys, p)
         /\ PageOf(keys, p) = {} => Listed(keys, p) = keys
<1>1. PageSize \in Nat \ {0}
  BY LibraryConstants
<1>2. \A i \in keys : Rank(i, keys) \in Nat /\ Rank(i, keys) \div PageSize \in Nat
  BY <1>1, RankType, Division
<1>3. PageOf(keys, p) = {k \in keys : Rank(k, keys) \div PageSize = p}
  BY DEF PageOf, Rank
<1>4. Listed(keys, 0) = {}
  <2>1. \A n \in Nat : ~(n < 0)
    OBVIOUS
  <2>2. QED
    BY <1>2, <2>1 DEF Listed
<1>5. Listed(keys, p + 1) = Listed(keys, p) \union PageOf(keys, p)
  <2>1. \A n \in Nat : n < p + 1 <=> n < p \/ n = p
    OBVIOUS
  <2>2. QED
    BY <1>2, <1>3, <2>1 DEF Listed
<1>6. ASSUME PageOf(keys, p) = {}, NEW i \in keys
      PROVE  Rank(i, keys) \div PageSize < p
  <2>1. SUFFICES ASSUME p <= Rank(i, keys) \div PageSize PROVE FALSE
    <3>1. \A n \in Nat : n < p \/ p <= n
      OBVIOUS
    <3>2. QED
      BY <1>2, <3>1
  <2>2. p * PageSize <= Rank(i, keys) /\ (p * PageSize) \div PageSize = p
    BY <1>1, <1>2, <2>1, Division
  <2>3. p * PageSize \in Nat /\ p * PageSize < Cardinality(keys)
    <3>1. p * PageSize \in Nat
      BY <1>1
    <3>2. Cardinality(keys) \in Nat
      BY FS_CardinalityType
    <3>3. \A a, b, c \in Nat : a <= b /\ b < c => a < c
      OBVIOUS
    <3>4. QED
      BY <2>2, <3>1, <3>2, <3>3, RankType
  <2>4. PICK j \in keys : Rank(j, keys) = p * PageSize
    BY <2>3, EveryRank
  <2>5. j \in PageOf(keys, p)
    BY <1>3, <2>2, <2>4
  <2>6. QED
    BY <1>6, <2>5
<1>7. QED
  BY <1>4, <1>5, <1>6 DEF Listed

-----------------------------------------------------------------------------
(* The invariant.                                                          *)

\* Where every outdated book has been written.
Repaired == pc \in {"settle", "confirm", "done"}

\* No row was collected under a gid that is not its publication's.
GidsChecked == InPass => \A b \in rows : <<rev, b.name>> \notin Mislabelled

\* What a stage leaves to the later ones.
Ahead ==
  /\ pc = "books" => seriesRows = {}
  /\ pc \in {"books", "series", "headCheck"} => cursor = 0
  /\ Repaired => Unsent = {}
  /\ pc = "done" => head = rev

\* An update is for a collected book and sets what the revision wants of it.
UpdateOf(b) == [id |-> b.id, want |-> Wanted[rev][b.name]]
PendingOfRows == InPass => pending \subseteq {UpdateOf(b) : b \in rows}

\* As long as nobody interferes, the tables hold the pages read so far...
BooksSeen ==
  /\ pc = "books" => rows = {b \in books : b.id \in Listed({c.id : c \in books}, page)}
  /\ BooksCounted => rows = books
SeriesSeen ==
  /\ pc = "series" => seriesRows = Listed(series, page)
  /\ AllCounted => seriesRows = series

\* ... and a book that is not as wanted is still to be written.
Promised ==
  InPass => \A b \in rows :
    UpToDate(Wanted[rev][b.name], meta[b.id]) \/ \E q \in Unsent : q.id = b.id

QuietInv ==
  /\ GidsChecked /\ Ahead /\ PendingOfRows
  /\ ~touched => BooksSeen /\ SeriesSeen /\ Promised
QInv == IInv /\ touched \in BOOLEAN /\ QuietInv

\* In the state after a pass, the library is what the revision wants.
LEMMA QuietMakesExact == QInv => QuietPassIsExact
<1> SUFFICES ASSUME QInv, Repaired, ~touched
             PROVE  SameSet(rev) /\ SameMetadata(rev)
  BY DEF QuietPassIsExact, Repaired
<1>1. rows = books /\ seriesRows = series /\ InPass /\ AllCounted
  BY DEF QInv, QuietInv, BooksSeen, SeriesSeen, Repaired, BooksCounted, AllCounted, InPass
<1>2. SameSet(rev)
  <2>1. ExactBeforePatch
    BY CountsMakeExact DEF QInv
  <2>2. \A b \in books : <<rev, b.name>> \notin Mislabelled
    BY <1>1 DEF QInv, QuietInv, GidsChecked
  <2>3. QED
    BY <1>1, <2>1, <2>2 DEF ExactBeforePatch, SameSet
<1>3. SameMetadata(rev)
  BY <1>1 DEF QInv, QuietInv, Promised, Ahead, SameMetadata
<1>4. QED
  BY <1>2, <1>3

LEMMA QuietInit == HistoryInit => QInv
<1> SUFFICES ASSUME HistoryInit PROVE QInv
  OBVIOUS
<1>1. IInv
  BY InitInv DEF HistoryInit
<1>2. pc \in {"scan", "poll"}
  BY DEF HistoryInit, Init
<1>3. touched \in BOOLEAN
  BY DEF HistoryInit
<1>4. QED
  BY <1>1, <1>2, <1>3 DEF QInv, QuietInv, GidsChecked, Ahead, PendingOfRows, BooksSeen, SeriesSeen,
                    Promised, Repaired, InPass, BooksCounted, AllCounted

-----------------------------------------------------------------------------
(* Steps that leave the tables alone.                                      *)

quietVars == <<rev, page, cursor, rows, seriesRows, pending>>

LEMMA KeepsQuiet ==
  ASSUME QuietInv, UNCHANGED quietVars,
         ~touched' => ~touched /\ UNCHANGED libraryVars,
         InPass' => InPass, BooksCounted' => BooksCounted, AllCounted' => AllCounted,
         Repaired' => Repaired, pc' = "books" => pc = "books",
         pc' = "series" => pc = "series", pc' = "headCheck" => pc = "headCheck",
         pc' = "done" => head' = rev'
  PROVE  QuietInv'
<1>1. GidsChecked' /\ PendingOfRows'
  BY DEF QuietInv, GidsChecked, PendingOfRows, UpdateOf, quietVars
<1>2. Unsent' = Unsent
  BY DEF Unsent, quietVars
<1>3. Ahead'
  BY <1>2 DEF QuietInv, Ahead, quietVars
<1>4. ASSUME ~touched' PROVE BooksSeen' /\ SeriesSeen' /\ Promised'
  <2>1. BooksSeen /\ SeriesSeen /\ Promised /\ UNCHANGED <<books, series, meta>>
    BY <1>4 DEF QuietInv, libraryVars
  <2>2. BooksSeen' /\ SeriesSeen'
    BY <2>1 DEF BooksSeen, SeriesSeen, Listed, Rank, quietVars
  <2>3. Promised'
    BY <1>2, <2>1 DEF Promised, UpToDate, quietVars
  <2>4. QED
    BY <2>2, <2>3
<1>5. QED
  BY <1>1, <1>3, <1>4 DEF QuietInv

LEMMA OutsideQuiet == QInv /\ (HistoryEnvironment \/ HistoryTick \/ HistoryEnded) => QuietInv'
<1> SUFFICES ASSUME QInv, HistoryEnvironment \/ HistoryTick \/ HistoryEnded PROVE QuietInv'
  OBVIOUS
<1>1. UNCHANGED <<pc, passVars>> /\ (pc = "done" => UNCHANGED head)
  BY DEF HistoryEnvironment, Environment, HistoryTick, Tick, HistoryEnded, Ended, Running,
         vars, externalVars
<1>2. ~touched' => ~touched /\ UNCHANGED libraryVars
  <2>1. CASE HistoryEnvironment
    BY <2>1 DEF HistoryEnvironment
  <2>2. CASE HistoryTick \/ HistoryEnded
    BY <2>2 DEF HistoryTick, Tick, HistoryEnded, Ended, vars, externalVars, libraryVars
  <2>3. QED
    BY <2>1, <2>2
<1>3. pc' = "done" => head' = rev'
  BY <1>1 DEF QInv, QuietInv, Ahead, passVars
<1>4. QED
  BY <1>1, <1>2, <1>3, KeepsQuiet
     DEF QInv, quietVars, passVars, storeVars, InPass, BooksCounted, AllCounted, Repaired

\* The steps of the loop, and those of a pass that end it or only look.
LoopOrEnd ==
  \/ LoopStep
  \/ NoCatalog \/ RejectBookPage \/ RevisionNotFound \/ RejectSeriesPage \/ RequestFails
  \/ CatalogFails \/ CheckHead

LEMMA LoopQuiet ==
  QInv /\ LoopOrEnd /\ UNCHANGED touched => QuietInv'
<1> SUFFICES ASSUME QInv, LoopOrEnd, UNCHANGED touched PROVE QuietInv'
  OBVIOUS
<1>1. UNCHANGED passVars /\ UNCHANGED libraryVars /\ UNCHANGED head
  BY DEF LoopOrEnd, LoopStep, Scan, Analyze, ScanFails, Settle, Confirm, Forget, Delay, Wake,
         DeadlineExpired, NoCatalog, RejectBookPage, RevisionNotFound, RejectSeriesPage,
         RequestFails, CatalogFails, CheckHead, externalVars, libraryVars
<1>2. /\ InPass' => InPass
      /\ BooksCounted' => BooksCounted
      /\ AllCounted' => AllCounted
      /\ Repaired' => Repaired
      /\ pc' \notin {"books", "series", "headCheck"}
  BY DEF LoopOrEnd, LoopStep, Scan, Analyze, ScanFails, Settle, Confirm, Forget, Delay, Wake,
         DeadlineExpired, NoCatalog, RejectBookPage, RevisionNotFound, RejectSeriesPage,
         RequestFails, CatalogFails, CheckHead, InPass, BooksCounted, AllCounted, Repaired
<1>3. pc' = "done" => head' = rev'
  BY <1>1 DEF LoopOrEnd, LoopStep, Scan, Analyze, ScanFails, Settle, Confirm, Forget, Delay,
         Wake, DeadlineExpired, NoCatalog, RejectBookPage, RevisionNotFound,
         RejectSeriesPage, RequestFails, CatalogFails, CheckHead, passVars
<1>4. QED
  BY <1>1, <1>2, <1>3, KeepsQuiet DEF QInv, quietVars, passVars, storeVars

-----------------------------------------------------------------------------
(* Pages.                                                                  *)

LEMMA FiniteListings ==
  ASSUME LibraryTypeOK
  PROVE  /\ {c.id : c \in books} \in SUBSET Nat /\ IsFiniteSet({c.id : c \in books})
         /\ series \in SUBSET Nat /\ IsFiniteSet(series)
<1> DEFINE ids == {c.id : c \in books}
           f == [c \in books |-> c.id]
<1>1. books \in SUBSET BookRecords /\ series \in SUBSET SeriesIds
  BY DEF LibraryTypeOK
<1>2. ids \in SUBSET Nat
  BY <1>1, LibraryConstants
<1>3. f \in Surjection(books, ids)
  BY DEF Surjection
<1>4. IsFiniteSet(ids)
  BY <1>1, <1>3, Finite, FS_Surjection
<1>5. QED
  BY <1>1, <1>2, <1>4, Finite, LibraryConstants

LEMMA StartQuiet == QInv /\ StartPass => QuietInv'
<1> SUFFICES ASSUME QInv, StartPass PROVE QuietInv'
  OBVIOUS
<1>1. /\ pc' = "books" /\ page' = 0 /\ cursor' = 0
      /\ rows' = {} /\ seriesRows' = {} /\ pending' = {} /\ UNCHANGED books
  BY DEF StartPass, externalVars
<1>2. Listed({c.id : c \in books}, 0) = {}
  <2>1. LibraryTypeOK /\ 0 \in Nat
    BY DEF QInv, IInv, TypeOK
  <2>2. QED
    BY <2>1, FiniteListings, PagesOfListing
<1>3. BooksSeen'
  <2>1. Listed({c.id : c \in books}, page)' = {}
    BY <1>1, <1>2 DEF Listed, Rank
  <2>2. QED
    BY <1>1, <2>1 DEF BooksSeen, BooksCounted
<1>4. QED
  BY <1>1, <1>3 DEF QuietInv, GidsChecked, Ahead, PendingOfRows, SeriesSeen, Promised, Repaired,
                    AllCounted

LEMMA CollectBooksQuiet ==
  QInv /\ CollectBookPage /\ UNCHANGED touched => QuietInv'
<1> SUFFICES ASSUME QInv, CollectBookPage, UNCHANGED touched PROVE QuietInv'
  OBVIOUS
<1> DEFINE got == BookPage(page)
           keys == {c.id : c \in books}
<1>1. /\ pc = "books" /\ BookPageAccepted(got)
      /\ rows' = rows \union got /\ pending' = pending \union Outdated(got)
      /\ UNCHANGED <<rev, cursor, seriesRows, books, series, meta>>
      /\ pc' \in {"books", "incomplete"} /\ (pc' = "books" => page' = page + 1)
  BY DEF CollectBookPage, externalVars
<1>2. InPass
  BY <1>1 DEF InPass
<1>3. GidsChecked'
  BY <1>1, <1>2 DEF GidsChecked, BookPageAccepted, GidsMatch, QInv, QuietInv
<1>4. Ahead'
  BY <1>1 DEF Ahead, Repaired, QInv, QuietInv
<1>5. PendingOfRows'
  <2>1. Outdated(got) \subseteq {UpdateOf(b) : b \in got}
    BY DEF Outdated, UpdateOf
  <2>2. pending \subseteq {UpdateOf(b) : b \in rows}
    BY <1>2 DEF PendingOfRows, QInv, QuietInv
  <2>3. pending' \subseteq {UpdateOf(b) : b \in rows'}
    BY <1>1, <2>1, <2>2
  <2>4. QED
    BY <1>1, <2>3 DEF PendingOfRows, UpdateOf
<1>6. BooksSeen => BooksSeen'
  <2>1. LibraryTypeOK /\ page \in Nat
    BY DEF QInv, IInv, TypeOK, StoreTypeOK
  <2>2. Listed(keys, page + 1) = Listed(keys, page) \union PageOf(keys, page)
    BY <2>1, FiniteListings, PagesOfListing
  <2>3. SUFFICES ASSUME BooksSeen, pc' = "books"
                 PROVE  rows' = {b \in books : b.id \in Listed(keys, page + 1)}
    BY <1>1 DEF BooksSeen, BooksCounted, Listed, Rank
  <2>4. rows = {b \in books : b.id \in Listed(keys, page)}
    BY <1>1, <2>3 DEF BooksSeen
  <2>5. QED
    BY <1>1, <2>2, <2>4 DEF BookPage
<1>7. SeriesSeen'
  BY <1>1 DEF SeriesSeen, AllCounted
<1>8. Promised => Promised'
  <2>1. cursor = 0
    BY <1>1 DEF Ahead, QInv, QuietInv
  <2>2. SUFFICES ASSUME Promised, NEW b \in rows \union got
                 PROVE  \/ UpToDate(Wanted[rev][b.name], meta[b.id])
                        \/ \E q \in Unsent' : q.id = b.id
    BY <1>1 DEF Promised, UpToDate
  <2>3. Unsent \subseteq Unsent'
    BY <1>1 DEF Unsent
  <2>4. CASE b \in rows
    BY <1>2, <2>2, <2>3, <2>4 DEF Promised
  <2>5. CASE b \in got /\ ~UpToDate(Wanted[rev][b.name], meta[b.id])
    <3>1. UpdateOf(b) \in Outdated(got) /\ UpdateOf(b).id = b.id
      BY <2>5 DEF Outdated, UpdateOf
    <3>2. b.id > 0
      <4>1. b \in BookRecords
        BY <2>5 DEF BookPage, QInv, IInv, TypeOK, LibraryTypeOK
      <4>2. b.id \in Nat \ {0}
        BY <4>1, LibraryConstants
      <4>3. QED
        BY <4>2
    <3>3. UpdateOf(b) \in Unsent'
      BY <1>1, <2>1, <3>1, <3>2 DEF Unsent
    <3>4. QED
      BY <3>1, <3>3
  <2>6. QED
    BY <2>2, <2>4, <2>5
<1>9. QED
  BY <1>3, <1>4, <1>5, <1>6, <1>7, <1>8 DEF QInv, QuietInv

LEMMA EndBooksQuiet == QInv /\ EndBooks /\ UNCHANGED touched => QuietInv'
<1> SUFFICES ASSUME QInv, EndBooks, UNCHANGED touched PROVE QuietInv'
  OBVIOUS
<1> DEFINE keys == {c.id : c \in books}
<1>1. /\ pc = "books" /\ BookPage(page) = {} /\ UNCHANGED <<rev, cursor, storeVars, externalVars>>
      /\ pc' \in {"series", "incomplete"} /\ (pc' = "series" => page' = 0)
  BY DEF EndBooks
<1>2. /\ InPass /\ UNCHANGED <<rows, seriesRows, pending, books, series, meta>>
      /\ Unsent' = Unsent
  BY <1>1 DEF InPass, storeVars, externalVars, Unsent
<1>3. LibraryTypeOK /\ page \in Nat /\ 0 \in Nat
  BY DEF QInv, IInv, TypeOK, StoreTypeOK
<1>4. BooksSeen => BooksSeen'
  <2>1. PageOf(keys, page) = {}
    BY <1>1 DEF BookPage, PageOf
  <2>2. Listed(keys, page) = keys
    BY <1>3, <2>1, FiniteListings, PagesOfListing
  <2>3. BooksSeen => rows = books
    BY <1>1, <2>2 DEF BooksSeen
  <2>4. QED
    BY <1>1, <1>2, <2>3 DEF BooksSeen
<1>5. SeriesSeen'
  <2>1. Listed(series, 0) = {}
    BY <1>3, FiniteListings, PagesOfListing
  <2>2. pc' = "series" => Listed(series', page') = {}
    BY <1>1, <1>2, <2>1
  <2>3. seriesRows = {}
    BY <1>1 DEF QInv, QuietInv, Ahead
  <2>4. QED
    BY <1>1, <1>2, <2>2, <2>3 DEF SeriesSeen, AllCounted
<1>6. GidsChecked' /\ PendingOfRows' /\ Ahead'
  BY <1>1, <1>2 DEF GidsChecked, PendingOfRows, UpdateOf, Ahead, Repaired, QInv, QuietInv
<1>7. Promised => Promised'
  BY <1>1, <1>2 DEF Promised, UpToDate
<1>8. QED
  BY <1>4, <1>5, <1>6, <1>7 DEF QInv, QuietInv

LEMMA CollectSeriesQuiet == QInv /\ CollectSeriesPage /\ UNCHANGED touched => QuietInv'
<1> SUFFICES ASSUME QInv, CollectSeriesPage, UNCHANGED touched PROVE QuietInv'
  OBVIOUS
<1>1. /\ pc = "series" /\ seriesRows' = seriesRows \union SeriesPage(page)
      /\ UNCHANGED <<rev, cursor, rows, pending, externalVars>>
      /\ pc' \in {"series", "incomplete"} /\ (pc' = "series" => page' = page + 1)
  BY DEF CollectSeriesPage
<1>2. /\ InPass /\ BooksCounted /\ UNCHANGED <<books, series, meta>> /\ Unsent' = Unsent
  BY <1>1 DEF InPass, BooksCounted, externalVars, Unsent
<1>3. SeriesSeen => SeriesSeen'
  <2>1. LibraryTypeOK /\ page \in Nat
    BY DEF QInv, IInv, TypeOK, StoreTypeOK
  <2>2. Listed(series, page + 1) = Listed(series, page) \union PageOf(series, page)
    BY <2>1, FiniteListings, PagesOfListing
  <2>3. pc' = "series" => Listed(series', page') = Listed(series, page + 1)
    BY <1>1, <1>2
  <2>4. QED
    BY <1>1, <2>2, <2>3 DEF SeriesSeen, SeriesPage, AllCounted
<1>4. GidsChecked' /\ PendingOfRows' /\ Ahead'
  BY <1>1, <1>2 DEF GidsChecked, PendingOfRows, UpdateOf, Ahead, Repaired, QInv, QuietInv
<1>5. (BooksSeen => BooksSeen') /\ (Promised => Promised')
  BY <1>1, <1>2 DEF BooksSeen, Promised, UpToDate
<1>6. QED
  BY <1>3, <1>4, <1>5 DEF QInv, QuietInv

LEMMA EndSeriesQuiet == QInv /\ EndSeries /\ UNCHANGED touched => QuietInv'
<1> SUFFICES ASSUME QInv, EndSeries, UNCHANGED touched PROVE QuietInv'
  OBVIOUS
<1>1. /\ pc = "series" /\ SeriesPage(page) = {} /\ UNCHANGED <<passVars, externalVars>>
      /\ pc' \in {"headCheck", "incomplete"}
  BY DEF EndSeries
<1>2. /\ InPass /\ BooksCounted /\ Unsent' = Unsent
      /\ UNCHANGED <<rev, cursor, rows, seriesRows, pending, books, series, meta>>
  BY <1>1 DEF InPass, BooksCounted, passVars, storeVars, externalVars, Unsent
<1>3. SeriesSeen => SeriesSeen'
  <2>1. LibraryTypeOK /\ page \in Nat
    BY DEF QInv, IInv, TypeOK, StoreTypeOK
  <2>2. Listed(series, page) = series
    BY <1>1, <2>1, FiniteListings, PagesOfListing DEF SeriesPage
  <2>3. QED
    BY <1>1, <1>2, <2>2 DEF SeriesSeen
<1>4. GidsChecked' /\ PendingOfRows' /\ Ahead'
  BY <1>1, <1>2 DEF GidsChecked, PendingOfRows, UpdateOf, Ahead, Repaired, QInv, QuietInv
<1>5. (BooksSeen => BooksSeen') /\ (Promised => Promised')
  BY <1>1, <1>2 DEF BooksSeen, Promised, UpToDate
<1>6. QED
  BY <1>3, <1>4, <1>5 DEF QInv, QuietInv

-----------------------------------------------------------------------------
(* Batches of updates.                                                     *)

\* The batch runs dry only when nothing is left to send: of a finite set of
\* rows, one with the smallest id is in it.
LEMMA EmptyBatch == QInv /\ NextBatch = {} => Unsent = {}
<1> SUFFICES ASSUME QInv, NextBatch = {}, NEW r \in Unsent PROVE FALSE
  OBVIOUS
<1> DEFINE ids == {q.id : q \in Unsent}
           idOf == [b \in BookRecords |-> b.id]
<1>1. idOf \in Surjection(BookRecords, BookIds)
  BY DEF Surjection, BookIds
<1>2. IsFiniteSet(BookIds) /\ BookIds \subseteq Nat
  <2>1. BookIds \subseteq Nat
    BY LibraryConstants DEF BookIds
  <2>2. QED
    BY <1>1, <2>1, LibraryConstants, FS_Surjection
<1>3. ids \subseteq BookIds
  BY DEF Unsent, QInv, IInv, TypeOK, StoreTypeOK, Requests
<1>4. ids \in SUBSET Nat /\ IsFiniteSet(ids) /\ ids # {}
  <2>1. ids \in SUBSET BookIds /\ r.id \in ids
    BY <1>3
  <2> HIDE DEF ids
  <2>2. QED
    BY <1>2, <2>1, FS_Subset
<1>5. 0 \in Nat /\ 0 < Cardinality(ids)
  <2>1. Cardinality(ids) \in Nat /\ Cardinality(ids) # 0
    BY <1>4, FS_CardinalityType, FS_EmptySet
  <2>2. QED
    BY <2>1
<1>6. PICK i \in ids : Rank(i, ids) = 0
  BY <1>4, <1>5, EveryRank
<1>7. {j \in ids : j < i} = {}
  <2>1. IsFiniteSet({j \in ids : j < i})
    BY <1>4, FS_Subset
  <2>2. QED
    BY <1>6, <2>1, FS_EmptySet DEF Rank
<1>8. PICK q \in Unsent : q.id = i
  OBVIOUS
<1>9. {o \in Unsent : o.id < q.id} = {}
  BY <1>7, <1>8
<1>10. q \in NextBatch
  <2>1. Cardinality({o \in Unsent : o.id < q.id}) = 0
    BY <1>9, FS_EmptySet
  <2>2. 0 < BatchSize
    BY SnapshotConstants
  <2>3. QED
    BY <2>1, <2>2 DEF NextBatch
<1>11. QED
  BY <1>10

\* A row that is not in the batch comes after the whole batch.
LEMMA BatchIsPrefix ==
  ASSUME QInv, InPass, NEW q \in Unsent, q \notin NextBatch, NEW last \in NextBatch
  PROVE  q.id > last.id
<1> DEFINE Before(r) == {o \in Unsent : o.id < r.id}
           f == [b \in rows |-> UpdateOf(b)]
<1>1. \A r \in Unsent : r.id \in Nat
  BY LibraryConstants DEF Unsent, QInv, IInv, TypeOK, StoreTypeOK, Requests, BookIds
<1>2. last \in Unsent
  BY DEF NextBatch
<1>3. IsFiniteSet(Unsent)
  <2>1. f \in Surjection(rows, {UpdateOf(b) : b \in rows})
    BY DEF Surjection
  <2>2. IsFiniteSet({UpdateOf(b) : b \in rows})
    BY <2>1, Finite, FS_Surjection DEF QInv, IInv, TypeOK, StoreTypeOK
  <2>3. Unsent \subseteq {UpdateOf(b) : b \in rows}
    BY DEF Unsent, QInv, QuietInv, PendingOfRows
  <2>4. QED
    BY <2>2, <2>3, FS_Subset
<1>4. \A r \in Unsent : IsFiniteSet(Before(r)) /\ Cardinality(Before(r)) \in Nat
  BY <1>3, FS_Subset, FS_CardinalityType
<1>5. SUFFICES ASSUME q.id <= last.id PROVE FALSE
  BY <1>1, <1>2
<1>6. Before(q) \in SUBSET Before(last)
  BY <1>1, <1>2, <1>5
<1>7. Cardinality(Before(q)) <= Cardinality(Before(last))
  BY <1>2, <1>4, <1>6, FS_Subset
<1>8. Cardinality(Before(last)) < BatchSize /\ ~(Cardinality(Before(q)) < BatchSize)
  BY DEF NextBatch
<1>9. Cardinality(Before(q)) \in Nat /\ Cardinality(Before(last)) \in Nat /\ BatchSize \in Nat
  BY <1>2, <1>4, SnapshotConstants
<1> HIDE DEF Before
<1>10. QED
  BY <1>7, <1>8, <1>9

\* Metadata is as wanted once what is wanted has been patched in.
LEMMA PatchedIsUpToDate ==
  ASSUME NEW want \in Wants, NEW current
  PROVE  UpToDate(want, Patched(want, current))
BY DEF Wants, UpToDate, Patched

\* A verified batch writes what its rows want and passes over no other row.
LEMMA BatchQuiet ==
  QInv /\ (PatchBatch \/ PatchBatchLeavesLate) /\ UNCHANGED touched => QuietInv'
<1> SUFFICES ASSUME QInv, PatchBatch \/ PatchBatchLeavesLate, UNCHANGED touched
             PROVE  QuietInv'
  OBVIOUS
<1>1. /\ pc = "patch" /\ pc' = pc /\ meta' = AfterPatches(NextBatch)
      /\ UNCHANGED <<rev, page, rows, seriesRows, pending, books, series, head>>
  BY DEF PatchBatch, PatchBatchLeavesLate, storeVars
<1>2. PICK last \in NextBatch : cursor' = last.id
  BY DEF PatchBatch, PatchBatchLeavesLate
<1>3. InPass
  BY <1>1 DEF InPass
<1>4. GidsChecked' /\ PendingOfRows' /\ Ahead'
  BY <1>1 DEF GidsChecked, PendingOfRows, UpdateOf, Ahead, Repaired, QInv, QuietInv, InPass
<1>5. (BooksSeen => BooksSeen') /\ (SeriesSeen => SeriesSeen')
  BY <1>1 DEF BooksSeen, BooksCounted, SeriesSeen, AllCounted
<1>6. ASSUME ~touched, NEW b \in rows
      PROVE  \/ UpToDate(Wanted[rev][b.name], meta'[b.id])
             \/ \E q \in Unsent' : q.id = b.id
  <2>1. b \in books /\ b.id \in BookIds /\ b.id \in PresentIds
    <3>1. b \in books
      BY <1>1, <1>6 DEF QInv, QuietInv, BooksSeen, BooksCounted
    <3>2. QED
      BY <3>1 DEF PresentIds, BookIds, QInv, IInv, TypeOK, LibraryTypeOK
  <2>2. \A q \in pending : q.id = b.id => q.want = Wanted[rev][b.name]
    <3>1. pending \subseteq {UpdateOf(c) : c \in rows}
      BY <1>3 DEF QInv, QuietInv, PendingOfRows
    <3>2. \A c \in rows : c.id = b.id => c = b
      BY DEF QInv, IInv, Collected, RowsDistinct
    <3>3. QED
      BY <3>1, <3>2 DEF UpdateOf
  <2>3. CASE \E q \in NextBatch : q.id = b.id
    <3>1. (CHOOSE q \in NextBatch : q.id = b.id).want = Wanted[rev][b.name]
      BY <2>2, <2>3 DEF NextBatch, Unsent
    <3>2. meta'[b.id] = Patched(Wanted[rev][b.name], meta[b.id])
      BY <1>1, <2>1, <2>3, <3>1 DEF AfterPatches
    <3>3. Wanted[rev][b.name] \in Wants
      BY <1>3, LibraryConstants DEF QInv, IInv, Pinned, Collected, RowsPublished
    <3>4. QED
      BY <3>2, <3>3, PatchedIsUpToDate
  <2>4. CASE ~\E q \in NextBatch : q.id = b.id
    <3>1. meta'[b.id] = meta[b.id]
      BY <1>1, <2>1, <2>4 DEF AfterPatches
    <3>2. CASE UpToDate(Wanted[rev][b.name], meta[b.id])
      BY <3>1, <3>2
    <3>3. CASE ~UpToDate(Wanted[rev][b.name], meta[b.id])
      <4>1. PICK q \in Unsent : q.id = b.id
        BY <1>3, <1>6, <3>3 DEF QInv, QuietInv, Promised
      <4>2. q.id > last.id
        BY <1>3, <2>4, <4>1, BatchIsPrefix
      <4>3. q \in Unsent'
        BY <1>1, <1>2, <4>2 DEF Unsent
      <4>4. QED
        BY <4>1, <4>3
    <3>4. QED
      BY <3>2, <3>3
  <2>5. QED
    BY <2>3, <2>4
<1>7. ~touched => Promised'
  BY <1>1, <1>6 DEF Promised, UpToDate
<1>8. QED
  BY <1>4, <1>5, <1>7 DEF QInv, QuietInv

\* The phase ends when there is no batch left, and a failing batch ends the run.
LEMMA PatchEndsQuiet ==
  QInv /\ (PatchDone \/ PatchBatchFails) /\ UNCHANGED touched => QuietInv'
<1> SUFFICES ASSUME QInv, PatchDone \/ PatchBatchFails, UNCHANGED touched PROVE QuietInv'
  OBVIOUS
<1>1. CASE PatchBatchFails
  BY <1>1 DEF PatchBatchFails, QuietInv, GidsChecked, Ahead, PendingOfRows, BooksSeen,
              SeriesSeen, Promised, InPass, BooksCounted, AllCounted, Repaired
<1>2. CASE PatchDone
  <2>1. /\ pc = "patch" /\ pc' = "settle"
        /\ UNCHANGED <<rev, rows, seriesRows, pending, cursor, books, series, meta>>
    BY <1>2 DEF PatchDone, passVars, storeVars, externalVars
  <2>2. Unsent' = Unsent /\ Unsent = {}
    BY <1>2, <2>1, EmptyBatch DEF PatchDone, Unsent
  <2>3. GidsChecked' /\ PendingOfRows' /\ Ahead'
    BY <2>1, <2>2 DEF GidsChecked, PendingOfRows, UpdateOf, Ahead, QInv, QuietInv, InPass
  <2>4. ~touched => BooksSeen' /\ SeriesSeen' /\ Promised'
    BY <2>1, <2>2 DEF QInv, QuietInv, BooksSeen, SeriesSeen, Promised, UpToDate, InPass,
                      BooksCounted, AllCounted
  <2>5. QED
    BY <2>3, <2>4 DEF QuietInv
<1>3. QED
  BY <1>1, <1>2

-----------------------------------------------------------------------------
LEMMA QuietNext == QInv /\ [HistoryNext]_historyVars => QInv'
<1> SUFFICES ASSUME QInv, [HistoryNext]_historyVars PROVE QInv'
  OBVIOUS
<1>1. IInv' /\ touched' \in BOOLEAN
  <2>1. IInv'
    BY HistoryStepIsStep, NextInv DEF QInv
  <2>2. touched' \in BOOLEAN
    BY DEF HistoryNext, HistorySyncStep, HistoryEnvironment, HistoryTick, HistoryEnded,
           historyVars, QInv
  <2>3. QED
    BY <2>1, <2>2
<1>2. CASE HistorySyncStep
  <2>1. SyncStep /\ touched' = (touched /\ ~(pc = "poll" /\ pc' = "books"))
    BY <1>2 DEF HistorySyncStep
  <2>2. CASE StartPass
    BY <1>1, <2>2, StartQuiet DEF QInv
  <2>3. CASE ~StartPass
    <3>1. ~(pc = "poll" /\ pc' = "books")
      BY <2>1, <2>3 DEF SyncStep, LoopStep, PassStep, Scan, Analyze, ScanFails, Settle, Confirm,
           Forget, Delay, Wake, DeadlineExpired, NoCatalog, CollectBookPage, RejectBookPage,
           RevisionNotFound, EndBooks, CollectSeriesPage, RejectSeriesPage, EndSeries,
           RequestFails, CatalogFails, CheckHead, PatchDone, PatchBatch, PatchBatchLeavesLate,
           PatchBatchFails
    <3>2. touched' = touched
      <4>1. touched \in BOOLEAN
        BY DEF QInv
      <4>2. QED
        BY <2>1, <3>1, <4>1
    <3>3. QED
      BY <1>1, <2>1, <2>3, <3>2, LoopQuiet, CollectBooksQuiet, EndBooksQuiet,
         CollectSeriesQuiet, EndSeriesQuiet, BatchQuiet, PatchEndsQuiet
         DEF SyncStep, PassStep, LoopOrEnd, QInv
  <2>4. QED
    BY <2>2, <2>3
<1>3. CASE HistoryEnvironment \/ HistoryTick \/ HistoryEnded
  BY <1>1, <1>3, OutsideQuiet DEF QInv
<1>4. CASE UNCHANGED historyVars
  <2>1. UNCHANGED <<pc, passVars, externalVars, touched>>
    BY <1>4 DEF historyVars, vars
  <2>2. QuietInv'
    BY <2>1, KeepsQuiet DEF QInv, QuietInv, Ahead, quietVars, passVars, storeVars, externalVars,
       libraryVars, InPass, BooksCounted, AllCounted, Repaired
  <2>3. QED
    BY <1>1, <2>2 DEF QInv
<1>5. QED
  BY <1>2, <1>3, <1>4 DEF HistoryNext

LEMMA QuietInvariance == HistorySpec => []QInv
BY QuietInit, QuietNext, PTL DEF HistorySpec

\* A pass that reaches its settle step and that nobody disturbed leaves the real
\* library, not only the store, with exactly the published artifacts and with
\* the metadata wanted: no page boundary hides a book or a series, and no batch
\* of updates skips one.
THEOREM QuietPassRepairs == HistorySpec => []QuietPassIsExact
BY QuietInvariance, QuietMakesExact, PTL

\* Exit status 0 after such a pass speaks of the catalog's head.
THEOREM SuccessMatchesHead == HistorySpec => []SuccessIsExact
<1>1. QInv => SuccessIsExact
  <2> SUFFICES ASSUME QInv PROVE SuccessIsExact
    OBVIOUS
  <2>1. QuietPassIsExact
    BY QuietMakesExact
  <2>2. pc = "done" => head = rev
    BY DEF QInv, QuietInv, Ahead
  <2>3. QED
    BY <2>1, <2>2 DEF QuietPassIsExact, SuccessIsExact
<1>2. QED
  BY <1>1, QuietInvariance, PTL
=============================================================================
