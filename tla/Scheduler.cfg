SPECIFICATION Spec
CONSTANTS
  NumBlocks = 4
  BlockSize = 2
  Seqs = {1, 2, 3}
  Token = {1, 2}
  EOS = 2
  Requests <- MCRequests
  MaxNumSeqs = 3
  MaxNumBatchedTokens = 3
  MaxModelLen = 6
  MaxFailures = 1
  RetryAfterFailure = "chunk"
INVARIANTS
  QueueDiscipline
  AlwaysSchedulesSomething
  DecodeRowsAreAligned
PROPERTIES
  FifoAdmission
  ImplementsService
  UsesBlockManager
