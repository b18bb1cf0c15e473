SPECIFICATION FairSpec
CONSTANTS
  c1 = c1
  a1 = a1
  s1 = s1
  nokey = nokey
  Convs = {c1}
  MaxIn = 2
  MaxAll = 2
  Page = 2
  Cap = 1
  MaxFaults = 1
  Machines = {a1}
  Steps = {s1}
  MaxAttempts = 1
  NoKey = nokey
INVARIANTS StopKept CapOvershoot
PROPERTIES ImplementsStopLine EveryStopHonoured
CHECK_DEADLOCK FALSE
