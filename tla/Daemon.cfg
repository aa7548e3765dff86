SPECIFICATION FairSpec
CONSTANTS
  c1 = c1  c2 = c2
  N = 6
  Cmds = {c1, c2}
  OpsOf <- AnyOps
  Waits <- AnyOrder
  MaxFaults = 1
INVARIANTS ServerHasMaster
PROPERTIES ShutdownTakesMaster CrashRestarted OneMasterRemains
CHECK_DEADLOCK FALSE
