\* Books and series come and go under a fixed revision, pages of one book.
SPECIFICATION HistorySpec
CONSTANTS
  None = None
  a1 = a1 a2 = a2 a3 = a3
  title = title tags = tags
  blank = blank old = old new = new
  BookRecords <- ChurnBooks
  SeriesIds = {1, 2, 3, 4}
  BadSeries = {4}
  Artifacts = {a1, a2, a3}
  Fields <- OneField
  Values = {blank, old}
  MaxRevision = 1
  Published <- OneRevision
  Wanted <- OldTags
  Mislabelled = {}
  PageSize = 1
  InitLibraries <- ChurnLibraries
  MaxDisturbances = 3
  BatchSize = 1
  Timeout = 5
  Poll = 1
  Stable = 2
  QuietBy = 5
  SlowCalls = FALSE
INVARIANTS TypeOK ExactBeforePatch PagesBounded QuietPassIsExact
PROPERTY ImplementsSettledWindow
