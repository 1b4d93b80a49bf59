\* A quiet library, requests that may be slow.
SPECIFICATION EvidenceSpec
CONSTANTS
  None = None
  a1 = a1 tags = tags blank = blank old = old
  BookRecords <- OneBook
  SeriesIds = {1}
  BadSeries = {}
  Artifacts = {a1}
  Fields = {tags}
  Values = {blank, old}
  MaxRevision = 1
  Published <- OneArtifact
  Wanted <- OldTags
  Mislabelled = {}
  PageSize = 2
  InitLibraries <- OneLibrary
  MaxDisturbances = 1
  BatchSize = 1
  Timeout = 4
  Poll = 1
  Stable = 2
  QuietBy = 4
  SlowCalls = TRUE
INVARIANT ObservedUnchangedForStable
