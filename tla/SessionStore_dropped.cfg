\* One handler whose future may be dropped, two other updates.
CONSTANTS
  Tasks = {t1, t2}
  Sessions = {s1}
  LockIds = {l1, l2}
  PruneLimit = 1
  States = {"active", "cancelled"}
  Turns = {0}
  Droppable = {t1}
  MaxDrops = 1
  MaxCrashes = 0
  NoTask = NoTask
  NoLock = NoLock
  NoSession = NoSession
  NoRecord = NoRecord
  NoOp = NoOp
  Torn = Torn
SPECIFICATION StoreSpec
PROPERTIES
  UpdatesTakeEffect
