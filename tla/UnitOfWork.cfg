\* Three units that use one or two managers of a lock.
SPECIFICATION FairSpec
CONSTANTS
  u1 = u1
  u2 = u2
  u3 = u3
  m1 = m1
  m2 = m2
  Nobody = Nobody
  Units = {u1, u2, u3}
  Managers = {m1, m2}
  Modes = {"async", "sync"}
  MaxFaults = 2
INVARIANTS
  TypeOK
  ManagerIsMine
  LocksComeBack
PROPERTIES
  SerialSpec
  UnitsEnd
CHECK_DEADLOCK FALSE
