\* Postgres may scan the events of a stream in another order than their versions.
SPECIFICATION Spec
CONSTANTS
  c1 = c1
  c2 = c2
  c3 = c3
  Commands = {c1, c2}
  Creators = {c1}
  Stores = {"postgres"}
  MaxBatch = 2
  MaxTries <- OneTry
  ClassVersions <- FirstVersions
  Interval = 2
  ScanSorted = FALSE
INVARIANT
  RehydrateSucceeds
CHECK_DEADLOCK FALSE
