\* Two updates that must both return.
CONSTANTS
  Tasks = {t1, t2}
  Sessions = {s1, s2}
  LockIds = {l1, l2, l3}
  PruneLimit = 1
  States = {"active"}
  Turns = {0}
  Droppable = {t1}
  MaxDrops = 1
  MaxCrashes = 1
  NoTask = NoTask
  NoLock = NoLock
  NoSession = NoSession
  NoRecord = NoRecord
  NoOp = NoOp
  Torn = Torn
SPECIFICATION StoreFairSpec
PROPERTIES
  OperationsReturn
