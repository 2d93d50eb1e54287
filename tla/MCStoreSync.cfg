SPECIFICATION FairSyncSpec
CONSTANTS
  Machines = {m1, m2}
  Files = {toml, bundle}
  Binary = {bundle}
  MayEdit <- MCShared
  MaxEdits = 2
CHECK_DEADLOCK FALSE
INVARIANT SyncSafety
PROPERTY WorkReachesRemote
