\* Two runs that must end, with a storage failure or a restart.
CONSTANTS
  Runs = {r1, r2}
  Sessions = {s1, s2}
  MaxTurns = 1
  MaxCalls = 1
  KeepRecent = 1
  MaxFaults = 1
  HandlerLimit = 1
  MaxCancels = 0
  NoSession = NoSession
SPECIFICATION ServerFairSpec
CHECK_DEADLOCK FALSE
PROPERTIES
  RunsFinish
