\* Two threads append to an in-memory stream: the second overwrites the first.
SPECIFICATION Spec
CONSTANTS
  c1 = c1
  c2 = c2
  c3 = c3
  Commands = {c2, c3}
  Creators = {}
  Stores = {"threads"}
  MaxBatch = 1
  MaxTries <- OneTry
  ClassVersions <- FirstVersions
  Interval = 2
  ScanSorted = TRUE
INVARIANT
  SavedIsStored
CHECK_DEADLOCK FALSE
