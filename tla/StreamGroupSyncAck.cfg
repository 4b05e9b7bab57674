\* The sync consumer, without any fault: a handled message is not acknowledged.
SPECIFICATION Spec
CONSTANTS
  k1 = k1
  New = New
  Nobody = Nobody
  Consumers = {k1}
  Transports = {"sync"}
  MaxMessages = 1
  BatchSize = 1
  MaxFaults = 0
  MaxRestarts = 0
INVARIANT
  SuccessIsAcked
CHECK_DEADLOCK FALSE
