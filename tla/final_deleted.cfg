CONSTANTS
  pd1 = pd1
  pd2 = pd2
  pd3 = pd3
  r1 = r1
  r2 = r2
  r3 = r3
  e1 = e1
  e2 = e2
  viewer = viewer
  operator = operator
  reviewer = reviewer
  admin = admin
  None = None
  Decisions = {pd1}
  Requests = {r1, r2}
  Users = {viewer, operator, reviewer, admin}
  Evidence = {e1, e2}
  RoleOf <- MCRoleOf
  SeedStatus <- MCDraftSeed
  Preparer = operator
  Reviewer = reviewer
  Ahead = 0
SPECIFICATION Spec
SYMMETRY Symmetry
CHECK_DEADLOCK FALSE
INVARIANTS
  FinalNeverDeleted
