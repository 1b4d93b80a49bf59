\* All pages of up to three items, looked up two at a time.
SPECIFICATION Spec
CONSTANTS
  None = None
  Pages <- SmallPages
  Published <- SmallCatalog
  MaxGid = 12
  LookupBatchSize = 2
INVARIANTS AcceptsExactPages WritesAllTags
