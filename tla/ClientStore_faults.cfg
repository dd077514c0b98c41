\* Three records for two places, every fault, one lost fsync.
CONSTANTS
  Ids <- MCIds
  Versions <- MCVersions
  Limits = {2, 5}
  Targets = {0, 2}
  MaxClientStoreRecords = 2
  MaxTime = 1
  MaxFutureSkew = 0
  Absent = Absent
  Faults = {"processCrash", "powerLoss", "syncFails", "writeFails", "removeFails", "cancel"}
  MaxSlips = 1
SPECIFICATION Spec
INVARIANT WithinLimit
INVARIANT ProtectedKept
INVARIANT IndexIsDirectory
INVARIANT Reopenable
PROPERTY PrunesOnlyWhatMust
CHECK_DEADLOCK FALSE
