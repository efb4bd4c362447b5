SPECIFICATION CoordinatorSpec
CONSTANTS
  Runs = {r1, r2}
  Keys = {r1, r2}
  TurnIds = {r1, r2}
  Holders = {w1, w2}
  Workers = {w1, w2}
  NoHolder = NoHolder
  NoKey = NoKey
  Payloads = {p1}
  MessageIds = {}
  InitialIds = {}
  Calls = {}
  Mutations = {}
  LeaseSeconds = 2
  MinExtension = 1
  MaxToken = 3
  MaxSeq = 4
  MaxTurn = 2
  MaxMessages = 0
  CanTear = FALSE
  Capacity = 1
  Batch = 1
  RenewAt = 1
  Timely = TRUE
  Faulty = TRUE
SYMMETRY WorkerSymmetry
INVARIANTS
  WorkerTypeOK
  RenewedWorkerIsNotFenced
  TurnsAreNumbered
PROPERTIES
  ImplementsStore
CHECK_DEADLOCK FALSE
