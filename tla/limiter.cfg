CONSTANTS
  Requests = {r1, r2, r3}
  Servers = {s1, s2}
  Keys = {k1, k2}
  Limit = 2
  CleanupAt = 1
  RedisEnabled = TRUE
  MaxRetries = 1
  MaxMinute = 2
  None = None
SPECIFICATION Spec
SYMMETRY Symmetry
CHECK_DEADLOCK FALSE
INVARIANTS
  TypeOK
  OwnNumber
  RejectedOnlyWhenFull
  CurrentCountKept
  MapBounded
