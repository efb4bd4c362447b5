SPECIFICATION CoordinatorSpec
CONSTANTS
  Runs = {r1}
  Keys = {r1}
  TurnIds = {r1}
  Holders = {w1}
  Workers = {w1}
  NoHolder = NoHolder
  NoKey = NoKey
  Payloads = {p1}
  MessageIds = {}
  InitialIds = {}
  Calls = {}
  Mutations = {}
  LeaseSeconds = 2
  MinExtension = 1
  MaxToken = 2
  MaxSeq = 4
  MaxTurn = 2
  MaxMessages = 0
  CanTear = FALSE
  Capacity = 2
  Batch = 2
  RenewAt = 1
  Timely = FALSE
  Faulty = FALSE
INVARIANTS
  NoRunIsAbandoned
CHECK_DEADLOCK FALSE
