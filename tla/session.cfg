CONSTANTS
  u1 = u1
  t1 = t1
  t2 = t2
  c1 = c1
  None = None
  Users = {u1}
  UserRoles = {"operator", "unknown"}
  Tabs = {t1, t2}
  Calls = {c1}
  TTL = 1
  MaxTime = 2
SPECIFICATION Spec
SYMMETRY Symmetry
CHECK_DEADLOCK FALSE
PROPERTIES
  DiscardedUnused
  RoleRecentlyHeld
