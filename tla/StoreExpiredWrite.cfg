SPECIFICATION Spec
CONSTANTS
  Runs = {r1, r2}
  Keys = {k1, k2}
  Holders = {h1, h2}
  NoHolder = NoHolder
  NoKey = NoKey
  Payloads = {p1}
  TurnIds = {u1, u2}
  MessageIds = {}
  InitialIds = {}
  Calls = {}
  Mutations = {}
  LeaseSeconds = 1
  MinExtension = 2
  MaxToken = 1
  MaxSeq = 2
  MaxTurn = 2
  MaxMessages = 0
  CanTear = FALSE
PROPERTIES
  ExpiredWorkerWritesNothing
CHECK_DEADLOCK FALSE
