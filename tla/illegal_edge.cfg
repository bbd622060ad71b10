CONSTANTS
  ba1 = ba1
  ir1 = ir1
  df1 = df1
  r1 = r1
  r2 = r2
  r3 = r3
  c1 = c1
  c2 = c2
  viewer = viewer
  operator = operator
  admin = admin
  None = None
  Records = {ba1}
  Requests = {r1, r2}
  Users = {viewer, operator, admin}
  Content = {c1, c2}
  GraphOf <- MCGraphOf
  InitialStatusOf <- MCInitialStatusOf
  RoleOf <- MCRoleOf
  SeedStatus <- MCSeed
  Ahead = 1
SPECIFICATION Spec
SYMMETRY Symmetry
CHECK_DEADLOCK FALSE
PROPERTIES
  StatusFollowsGraph
