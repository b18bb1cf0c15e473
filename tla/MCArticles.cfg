SPECIFICATION Spec
CONSTANTS
  r1 = r1
  r2 = r2
  a1 = a1
  a2 = a2
  a3 = a3
  p1 = p1
  p2 = p2
  nothing = nothing
  Proposals = {a1, a2, a3}
  Fingerprint <- MCChange
  Change <- MCChange
  Orders <- MCOrders
  Deciders = {p1, p2}
  Nothing = nothing
  Rows = {r1, r2}
  Week = 2
  Cap = 1
  MaxTime = 3
  MaxFaults = 1
  MaxEdits = 1
SYMMETRY MCSymmetry
INVARIANTS RunOnce WithinTheWeek
PROPERTIES ImplementsDecideOnce DecisionFinal
CHECK_DEADLOCK FALSE
