\* Two updates at a time over three sessions, pruning above one entry, a crash, no dropped futures.
CONSTANTS
  Tasks = {t1, t2}
  Sessions = {s1, s2, s3}
  LockIds = {l1, l2, l3}
  PruneLimit = 1
  States = {"active", "cancelled"}
  Turns = {0, 1}
  Droppable = {}
  MaxDrops = 0
  MaxCrashes = 1
  NoTask = NoTask
  NoLock = NoLock
  NoSession = NoSession
  NoRecord = NoRecord
  NoOp = NoOp
  Torn = Torn
SPECIFICATION StoreSpec
SYMMETRY Symmetry
INVARIANTS
  StoreTypeOK
  
  MutualExclusion
  TableIsBounded
PROPERTIES
  UpdatesTakeEffect
  ImplementsRecords
