CONSTANTS
  s1 = s1
  s2 = s2
  u1 = u1
  Free = Free
  Tick = Tick
  NoSlot = NoSlot
  NoTime = NoTime
  Slots = {s1, s2}
  RunNow = {s2}
  Switched = {s1}
  Start <- MCStart
  Latest <- MCLatest
  MaxTime = 5
  Grace = 1
  Horizon = 60
  LookBack = 1
  MaxFaults = 2
  MaxSwitches = 1
  Updaters = {}
  WaitMax = 1
  UnitLimit <- MCUnitLimit
SPECIFICATION Spec
INVARIANTS WorkedAtMostOnce ToldTheEnd NoSilentSlot
PROPERTIES EndIsFinal OnlyWhileScheduled
