SPECIFICATION Spec
CONSTANTS
  Runs = {r1, r2}
  Keys = {k1, k2}
  Holders = {h1, h2}
  NoHolder = NoHolder
  NoKey = NoKey
  Payloads = {}
  TurnIds = {u1, u2}
  MessageIds = {m1, m2}
  InitialIds = {}
  Calls = {}
  Mutations = {}
  LeaseSeconds = 1
  MinExtension = 1
  MaxToken = 2
  MaxSeq = 1
  MaxTurn = 2
  MaxMessages = 3
  CanTear = TRUE
SYMMETRY HolderSymmetry
INVARIANTS
  RunningRunIsNotHistory
CHECK_DEADLOCK FALSE
