\* Two runs of one session after one another, two turns of two calls, a cancel.
CONSTANTS
  Runs = {r1, r2}
  Sessions = {s1}
  MaxTurns = 2
  MaxCalls = 2
  KeepRecent = 2
  MaxFaults = 0
  HandlerLimit = 1
  MaxCancels = 1
  NoSession = NoSession
SPECIFICATION ServerSpec
CHECK_DEADLOCK FALSE
SYMMETRY Symmetry
INVARIANTS
  ServerTypeOK
  OneRunPerSession
  
  
  
  ContextIsDurable
PROPERTIES
  ConflictMeansRunning
