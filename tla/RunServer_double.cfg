\* Two requests for one session at the same time.
CONSTANTS
  Runs = {r1, r2}
  Sessions = {s1}
  MaxTurns = 1
  MaxCalls = 1
  KeepRecent = 4
  MaxFaults = 0
  HandlerLimit = 2
  MaxCancels = 0
  NoSession = NoSession
SPECIFICATION ServerSpec
CHECK_DEADLOCK FALSE
INVARIANTS
  OneRunPerSession
