SPECIFICATION CoordinatorSpec
CONSTANTS
  Runs = {r1}
  Keys = {r1}
  TurnIds = {r1}
  Holders = {w1, w2}
  Workers = {w1, w2}
  NoHolder = NoHolder
  NoKey = NoKey
  Payloads = {p1}
  MessageIds = {}
  InitialIds = {}
  Calls = {}
  Mutations = {}
  LeaseSeconds = 2
  MinExtension = 1
  MaxToken = 2
  MaxSeq = 4
  MaxTurn = 2
  MaxMessages = 0
  CanTear = FALSE
  Capacity = 2
  Batch = 2
  RenewAt = 1
  Timely = FALSE
  Faulty = TRUE
SYMMETRY WorkerSymmetry
INVARIANTS
  LocalViewIsSafe
  
  NoHoles
  CommittedEverything
  EndedWorkerEndedRun
CHECK_DEADLOCK FALSE
