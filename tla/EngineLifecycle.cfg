\* Three engines, two of which lease the collector, and three threads.
SPECIFICATION FairSpec
CONSTANTS
  t1 = t1
  t2 = t2
  t3 = t3
  e1 = e1
  e2 = e2
  e3 = e3
  Threads <- MCThreads
  Engines <- MCEngines
  OptedIn <- MCOptedIn
  MaxToggles = 1
INVARIANTS
  LeaseCountIsExact
  GcFollowsLease
PROPERTIES
  ExitIsOver
  ExitsReturn
