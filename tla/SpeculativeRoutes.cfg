SPECIFICATION Spec
CONSTANTS
  Configs <- MCConfigs
  VocabSize = 5
  KVBlocks = 5
  BlockSize = 2
  Itemsize = 2
  MAX_CUDA_GRAPH_BATCH_SIZE = 4
  MAX_DRAFT_ROUTE_EFFECTIVE_K = 5
  MAX_VERIFY_BATCH = 3
  MAX_VERIFY_K = 4
  TOP_P_CHUNK_SIZE = 4
  RaggedWitness = 5
  MarginMin = 100
  MarginAlignment = 64
  Cells <- MCCells
INVARIANTS
  OwnChecksPass
  LongestProposalThatFits
  CatchupWasWarmed
