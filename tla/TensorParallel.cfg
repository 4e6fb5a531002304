\* Two workers, two failures of any rank.
SPECIFICATION FairSpec
CONSTANTS
  w1 = w1
  w2 = w2
  Workers <- MCWorkers
  MaxCalls = 2
  MaxFailures = 2
INVARIANTS
  CallsArrive
  NobodyWaitsInVain
  AttachFindsShm
PROPERTY ExitEnds
