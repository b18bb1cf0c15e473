CONSTANTS
  s1 = s1
  s2 = s2
  u1 = u1
  Free = Free
  Tick = Tick
  NoSlot = NoSlot
  NoTime = NoTime
  Slots = {s2}
  RunNow = {}
  Switched = {s2}
  Start <- MCFirst
  Latest <- MCFirst
  MaxTime = 2
  Grace = 1
  Horizon = 60
  LookBack = 1
  MaxFaults = 2
  MaxSwitches = 1
  Updaters = {u1}
  WaitMax = 1
  UnitLimit <- MCUnitLimit
SPECIFICATION FairSpec
PROPERTIES EverySlotReported
