SPECIFICATION FairCoordinatorSpec
CONSTANTS
  Runs = {r1}
  Keys = {r1}
  TurnIds = {r1}
  Holders = {w1, w2}
  Workers = {w1, w2}
  NoHolder = NoHolder
  NoKey = NoKey
  Payloads = {p1}
  MessageIds = {}
  InitialIds = {}
  Calls = {}
  Mutations = {}
  LeaseSeconds = 2
  MinExtension = 1
  MaxToken = 2
  MaxSeq = 3
  MaxTurn = 2
  MaxMessages = 0
  CanTear = FALSE
  Capacity = 1
  Batch = 1
  RenewAt = 1
  Timely = FALSE
  Faulty = TRUE
PROPERTIES
  CleanupEnds
  CancelEndsWork
CHECK_DEADLOCK FALSE
