CONSTANTS
  w1 = w1
  w2 = w2
  u1 = u1
  u2 = u2
  Ids = {1, 2, 3, 4}
  Seeded = {1, 2}
  SeedStatus <- MCSeedStatus
  InitialStatus = "open"
  Statuses = {"open", "closed"}
  Ahead = 1
  Writers = {w1, w2}
  Users = {u1, u2}
  ActorOf <- MCActorOf
  EntityTypes = {"record", "other"}
  RecordType = "record"
  EarlierLogs <- MCEarlierLogs
  AskedSizes = {2, 3}
  DefaultSize = 1
  MaxSize = 2
  Window = 1
  MaxTime = 2
SPECIFICATION Spec
SYMMETRY Symmetry
CHECK_DEADLOCK FALSE
INVARIANTS
  TypeOK
  WalkComplete
  WalkExact
  SummaryConsistent
PROPERTIES
  UpdatedAtRises
