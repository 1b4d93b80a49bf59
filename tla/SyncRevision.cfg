\* The catalog head advances, galleries and metadata change with it, PATCHes land late.
SPECIFICATION HistorySpec
CONSTANTS
  None = None
  a1 = a1 a2 = a2 a3 = a3
  title = title tags = tags
  blank = blank old = old new = new
  BookRecords <- GrowingBooks
  SeriesIds = {1, 3}
  BadSeries = {}
  Artifacts = {a1, a2, a3}
  Fields <- BothFields
  Values = {blank, old, new}
  MaxRevision = 3
  Published <- GrowingArtifacts
  Wanted <- TitleFrom2
  Mislabelled <- WrongGidIn2
  PageSize = 1
  InitLibraries <- GrowingLibraries
  MaxDisturbances = 4
  BatchSize = 1
  Timeout = 6
  Poll = 1
  Stable = 2
  QuietBy = 6
  SlowCalls = FALSE
INVARIANT SuccessIsExact
PROPERTY ImplementsSettledWindow
