CONSTANTS
  s1 = s1
  s2 = s2
  timer = timer
  deploy = deploy
  Free = Free
  Tick = Tick
  Slots = {s1, s2}
  Updaters = {timer, deploy}
  WaitMax = 2
  UnitLimit <- MCUnitLimit
SPECIFICATION FairSpec
INVARIANTS UpdateExcludesShift
PROPERTIES UpdateAfterShifts
