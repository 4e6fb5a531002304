\* A manual caller steps again after a forward pass raised.
SPECIFICATION Spec
CONSTANTS
  NumBlocks = 3
  BlockSize = 2
  Seqs = {1, 2}
  Token = {1, 2}
  EOS = 2
  Requests <- MCRequests
  MaxNumSeqs = 2
  MaxNumBatchedTokens = 3
  MaxModelLen = 6
  MaxFailures = 1
  RetryAfterFailure = "any"
INVARIANT DecodeRowsAreAligned
