\* Any request may take time, up to the deadline.
SPECIFICATION HistorySpec
CONSTANTS
  None = None
  a1 = a1 a2 = a2 a3 = a3
  title = title tags = tags
  blank = blank old = old new = new
  BookRecords <- TwoBooks
  SeriesIds = {1, 2}
  BadSeries = {}
  Artifacts = {a1, a2}
  Fields <- OneField
  Values = {blank, old, new}
  MaxRevision = 2
  Published <- SameArtifacts
  Wanted <- NewTagsOfA2
  Mislabelled = {}
  PageSize = 2
  InitLibraries <- RerunLibraries
  MaxDisturbances = 2
  BatchSize = 1
  Timeout = 5
  Poll = 1
  Stable = 2
  QuietBy = 5
  SlowCalls = TRUE
PROPERTIES ImplementsSettledWindow LoopAdvances Termination
