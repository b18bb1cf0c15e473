CONSTANTS
  j1 = j1
  j2 = j2
  Jobs = {j1, j2}
  Deferring = {j1}
  MaxAttempts = 2
  MaxFaults = 1
  NoJob = NoJob
SPECIFICATION FairSpec
INVARIANTS CapHolds NoticeStands InHandUnsettled HeadsUpOnce HaltStops
PROPERTIES VerdictFinal ImplementsContract EveryJobSettles
