SPECIFICATION Spec
CONSTANTS
  VocabSize = 3
  Batches <- MCBatches
  Ks = {1, 2}
  Unit = 12
INVARIANTS
  EmitsTheTargetLaw
  FallbackIsUnreachable
