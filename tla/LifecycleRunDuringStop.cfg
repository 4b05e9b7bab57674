\* run_async is called while stop_async is in progress.
SPECIFICATION Spec
CONSTANTS
  r1 = r1
  r2 = r2
  s1 = s1
  None = None
  Runs = {r1, r2}
  Stops = {s1}
  Modes = {"async"}
  MaxFaults = 0
PROPERTY
  StoppedForGood
CHECK_DEADLOCK FALSE
