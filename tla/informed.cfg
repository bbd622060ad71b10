CONSTANTS
  pd1 = pd1
  pd2 = pd2
  pd3 = pd3
  r1 = r1
  r2 = r2
  r3 = r3
  e1 = e1
  e2 = e2
  viewer = viewer
  operator = operator
  reviewer = reviewer
  admin = admin
  None = None
  Decisions = {pd1}
  Requests = {r1, r2, r3}
  Users = {operator, admin}
  Evidence = {e1, e2}
  RoleOf <- MCRoleOf
  SeedStatus <- MCOpenSeed
  Preparer = operator
  Reviewer = admin
  Ahead = 0
SPECIFICATION Spec
SYMMETRY Symmetry
CHECK_DEADLOCK FALSE
INVARIANTS
  WriteBasedOnCurrent
  ConflictHasWinner
  ReviewedEvidence
  AuditBefore
  AnswerTruthful
  AnswerCoversVersion
PROPERTIES
  FinalContentFrozen
  ImplementsLedger
