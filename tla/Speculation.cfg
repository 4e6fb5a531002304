\* Shadow and verified cycles; one step of any kind fails.
SPECIFICATION SpeculationSpec
CONSTANTS
  NumBlocks = 6
  BlockSize = 2
  Seqs = {1, 2}
  Token = {1, 2}
  EOS = 2
  Requests <- MCRequests
  MaxNumSeqs = 2
  MaxNumBatchedTokens = 16
  MaxModelLen = 7
  MaxFailures = 1
  RetryAfterFailure = "any"
  ConfiguredK = 2
  Modes = {"shadow", "verified"}
INVARIANTS
  PoolIsWhole
  PrefixCacheIsSound
  CachedIsComputed
  DraftCachedIsComputed
  CycleFitsBudget
  CompletionsStopInTime
  DecodeRowsAreAligned
PROPERTY FailedStepsDeliverNothing
