SPECIFICATION RunsSpec
CONSTANTS
  LocalRuns = {r1}
  Viewers = {v1}
  MaxEvents = 1
  Patient = TRUE
INVARIANT StreamEndsWithTerminalEvent
CHECK_DEADLOCK FALSE
