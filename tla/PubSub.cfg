\* Both transports, three messages, two lost connections.
SPECIFICATION FairSpec
CONSTANTS
  Transports = {"async", "sync"}
  MaxMessages = 3
  MaxFaults = 2
  Unsubscribed = Unsubscribed
\* The loop of a stopped application ends, and nothing is left to do.
CHECK_DEADLOCK FALSE
INVARIANTS
  TypeOK
  InOrder
PROPERTIES
  DeliveredWhileUp
  LoopEnds
