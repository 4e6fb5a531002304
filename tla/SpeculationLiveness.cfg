\* Engines without a draft model, with shadow cycles and with verified cycles, on a
\* pool that cannot hold both requests to their ends; one step of any kind fails.
SPECIFICATION FairSpeculation
CONSTANTS
  NumBlocks = 6
  BlockSize = 2
  Seqs = {1, 2}
  Token = {1, 2}
  EOS = 2
  Requests <- MCMixedRequests
  MaxNumSeqs = 2
  MaxNumBatchedTokens = 10
  MaxModelLen = 8
  MaxFailures = 1
  RetryAfterFailure = "any"
  ConfiguredK = 1
  Modes = {"ordinary", "shadow", "verified"}
INVARIANTS
  AllBlocksReturn
PROPERTY EveryRequestEnds
