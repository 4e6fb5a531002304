\* Two threads, two sessions and a manual request.
SPECIFICATION FairSpec
CONSTANTS
  t1 = t1
  t2 = t2
  s1 = s1
  s2 = s2
  Threads <- MCThreads
  Sessions <- MCSessions
  MaxPending = 2
  MaxManual = 1
  GcInLocks = FALSE
INVARIANTS
  QueueBelongsToOwner
  StepsBelongToOwner
  CancelOutsideStep
PROPERTY LeaseIsReturned
