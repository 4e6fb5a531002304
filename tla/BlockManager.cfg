SPECIFICATION Spec
CONSTANTS
  NumBlocks = 3
  BlockSize = 2
  Seqs = {s1, s2}
  Token = {1, 2}
  Prompts <- MCPrompts
  MaxLen = 4
INVARIANTS
  TypeOK
  PoolPartition
  RefCountIsOwners
  MetadataIsConsistent
  WritesArePrivate
  CachedIsComputed
  IndexIsSound
SYMMETRY SeqSymmetry
