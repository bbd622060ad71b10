CONSTANTS
  Servers = {s1, s2}
  TableCount = 3
  SeedCount = 2
  MaxAttempts = 2
  MaxFaults = 2
SPECIFICATION FairSpec
CHECK_DEADLOCK FALSE
INVARIANTS
  TypeOK
  ServingSeeded
  SeededWhole
PROPERTIES
  NotResurrected
  StartsUp
