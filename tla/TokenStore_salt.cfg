\* Two processes that open the store for the first time.
CONSTANTS
  Processes = {q1, q2}
  MaxStores = 0
  MaxDeletes = 0
  MaxDiskErrors = 0
  SaltTries = 1
SPECIFICATION TokenSpec
CHECK_DEADLOCK FALSE
INVARIANT OpenStoresShareTheSalt
