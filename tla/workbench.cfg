CONSTANTS
  df1 = df1
  t1 = t1
  r1 = r1
  r2 = r2
  q1 = q1
  x1 = x1
  c1 = c1
  admin = admin
  None = None
  Records = {df1}
  GraphOf <- MCGraphOf
  InitialStatusOf <- MCInitialStatusOf
  Kind = "defectFinding"
  Users = {admin}
  RoleOf <- MCRoleOf
  Content = {c1}
  SeedStatus <- MCSeed
  Tabs = {t1}
  UserOf <- MCUserOf
  Clicks = {r1, r2}
  Calls = {q1}
  Refreshes = {x1}
SPECIFICATION Spec
SYMMETRY Symmetry
CHECK_DEADLOCK FALSE
INVARIANTS
  OfferedIsAccepted
  BusyHasCause
PROPERTIES
  ImplementsInformed
  ConfirmedRowMoved
