\* Two consumers of one group, one restart, one fault.
SPECIFICATION FairSpec
CONSTANTS
  k1 = k1
  k2 = k2
  New = New
  Nobody = Nobody
  Consumers = {k1, k2}
  Transports = {"async", "sync"}
  MaxMessages = 2
  BatchSize = 2
  MaxFaults = 1
  MaxRestarts = 1
INVARIANTS
  TypeOK
  NothingForgotten
  NotShared
PROPERTIES
  QueueSpec
  DispatchedOnce
  EveryEntryDelivered
CHECK_DEADLOCK FALSE
