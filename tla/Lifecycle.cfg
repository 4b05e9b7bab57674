\* Two calls of run and two of stop, in any order.
SPECIFICATION FairSpec
CONSTANTS
  r1 = r1
  r2 = r2
  s1 = s1
  s2 = s2
  None = None
  Runs = {r1, r2}
  Stops = {s1, s2}
  Modes = {"async", "sync"}
  MaxFaults = 2
INVARIANTS
  TypeOK
  RunningInLifespan
  StopReleases
  PullsWhileRunning
PROPERTIES
  StoppedOnceForGood
  AcceptedStopStops
CHECK_DEADLOCK FALSE
