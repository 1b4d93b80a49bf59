\* Two good books; one request, a PATCH or a GET, goes wrong in each attempt.
SPECIFICATION HistorySpec
CONSTANTS
  Batch = {1, 2}
  Suspects = {}
  Attempts = 3
  ChunkLimit = 8
  Shrink = 2
  Workers = 2
  MaxTroubles = 3
INVARIANT OnlyGenuinelyBadAreLeft
