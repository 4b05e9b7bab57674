\* One stream, one command that creates the aggregate and two that update it and take
\* snapshots at the same time; on the event loop, those that fail are tried again.
SPECIFICATION FairSpec
CONSTANTS
  c1 = c1
  c2 = c2
  c3 = c3
  Commands = {c1, c2, c3}
  Creators = {c1}
  Stores = {"loop", "postgres", "rows", "threads"}
  MaxBatch = 2
  MaxTries <- ThreeTries
  ClassVersions <- TwoCapture
  Interval = 2
  ScanSorted = TRUE
INVARIANTS
  TypeOK
  NoUpdateLost
  SnapshotsAreHistory
  RehydrateSucceeds
  EffectOnce
PROPERTIES
  LogSpec
  UpdatesSucceed
CHECK_DEADLOCK FALSE
