CONSTANTS
  j1 = j1
  j2 = j2
  Jobs = {j1}
  Deferring = {}
  MaxAttempts = 1
  MaxFaults = 2
  NoJob = NoJob
SPECIFICATION Spec
INVARIANTS SuccessNotReportedFailed
