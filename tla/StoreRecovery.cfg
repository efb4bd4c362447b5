SPECIFICATION Spec
CONSTANTS
  Runs = {r1}
  Keys = {k1}
  Holders = {h1, h2}
  NoHolder = NoHolder
  NoKey = NoKey
  Payloads = {}
  TurnIds = {u1}
  MessageIds = {m1, m2}
  InitialIds = {m1}
  Calls = {c1, c2}
  Mutations = {c1}
  LeaseSeconds = 1
  MinExtension = 1
  MaxToken = 3
  MaxSeq = 1
  MaxTurn = 1
  MaxMessages = 3
  CanTear = TRUE
SYMMETRY HolderSymmetry
INVARIANTS
  NoPendingAfterEnd
  MutationDispatchedOnce
CHECK_DEADLOCK FALSE
