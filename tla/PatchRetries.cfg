\* Five books, one of them bad or none: sent at once, in a four and a one, then singly.
SPECIFICATION HistorySpec
CONSTANTS
  Batch = {1, 2, 3, 4, 5}
  Suspects = {3}
  Attempts = 3
  ChunkLimit = 8
  Shrink = 2
  Workers = 2
  MaxTroubles = 2
INVARIANTS TypeOK VerifiedMeansWritten OnlyBadAreLeft
PROPERTIES ConfirmedIsNotResent CallAdvances CallEnds ImplementsBatchUpdate
