SPECIFICATION Spec
CONSTANTS
  a1 = a1
  p1 = p1
  p2 = p2
  noapp = noapp
  noone = noone
  Apps = {a1}
  Requests = {p1, p2}
  NoApp = noapp
  NoOne = noone
  MaxSignIns = 2
  MaxAges = 2
  MaxFaults = 1
  MaxChanges = 2
SYMMETRY MCSymmetry
INVARIANTS TypeOK SpentOnce StoredIsGood CodeOnce
CHECK_DEADLOCK FALSE
