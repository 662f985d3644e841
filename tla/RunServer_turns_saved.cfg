\* One run with one turn.
CONSTANTS
  Runs = {r1}
  Sessions = {s1}
  MaxTurns = 1
  MaxCalls = 1
  KeepRecent = 4
  MaxFaults = 0
  HandlerLimit = 1
  MaxCancels = 0
  NoSession = NoSession
SPECIFICATION ServerSpec
CHECK_DEADLOCK FALSE
INVARIANTS
  TurnsAreSaved
