SPECIFICATION ServicesSpec
CONSTANTS
  Objects = {o1, o2}
  Grace = TRUE
  Syncers = {s1, s2, s3}
  Processes = {h1, h2}
  Providers = 2
  MaxTurns = 3
  TurnPage = 2
  LocalRuns = {r1}
  Viewers = {v1}
  MaxEvents = 2
  Patient = FALSE
  Chats = {m1, m2}
  Jobs = {p1, p2}
  NoMessage = NoMessage
  StreamSize = 1
  Root = root
  Children = {c1, c2}
  ToolCalls = {t1, t2}
  MaxChildren = 1
  MaxParallel = 1
  ReceivePage = 1
  MaxSends = 1
  Tickers = {k1}
  Lots = {2}
  Prices = {1}
  Capital = 2
  Today = 2
  Requests = {q1, q2}
  MaxOrders = 2
INVARIANTS
  ServicesTypeOK
  
  
  SettledRunHasEnded
  ShutdownReachesEveryRun
  ReapedMeansAnnounced
  QueuedStartInOrder
  
  DeclaredWaitsAreAcyclic
  SanitizedBookIsReplayed
PROPERTIES
  
  WatermarkGrows
  CancelEndsTheStream
  StrandedOnlyByFailure
  QueuedIsServed
CHECK_DEADLOCK FALSE
