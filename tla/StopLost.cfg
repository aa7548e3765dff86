SPECIFICATION FairSpec
CONSTANTS
  c1 = c1  c2 = c2
  N = 5
  Cmds = {c1, c2}
  OpsOf <- StartStop
  Waits <- StartThen
  MaxFaults = 0
PROPERTIES StopStops
CHECK_DEADLOCK FALSE
