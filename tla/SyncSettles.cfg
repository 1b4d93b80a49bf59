\* Interference stops at tick 1; the deadline leaves just room to settle.
SPECIFICATION HistorySpec
CONSTANTS
  None = None
  a1 = a1 a2 = a2 a3 = a3
  title = title tags = tags
  blank = blank old = old new = new
  BookRecords <- ReimportedBooks
  SeriesIds = {1, 2}
  BadSeries = {}
  Artifacts = {a1, a2}
  Fields <- OneField
  Values = {blank, old, new}
  MaxRevision = 2
  Published <- SameArtifacts
  Wanted <- NewTagsOfA2
  Mislabelled = {}
  PageSize = 2
  InitLibraries <- RerunLibraries
  MaxDisturbances = 3
  BatchSize = 1
  Timeout = 6
  Poll = 1
  Stable = 2
  QuietBy = 1
  SlowCalls = FALSE
PROPERTY SettlesWhenQuiet
