SPECIFICATION Spec
CONSTANTS
  Handlers = {h1, h2, h3}
  Modes = {"threads", "loop"}
  PoolSize = 2
  Latest = 3
  Renamed = 2
  MaxRows = 2
  MaxRestarts = 1
INVARIANTS TypeOK NoStall ReadsWhatWasWritten
CHECK_DEADLOCK FALSE
