SPECIFICATION FairSpec
CONSTANTS
  a = a
  b = b
  nobody = nobody
  Convs = {a, b}
  Asked = {1, 2}
  ConvOf <- MCConvOf
  Email = {a}
  LeftAlone = {}
  Stubborn = {2}
  FailsToRest = 2
  RestSweeps = 2
  MaxRules = 1
  MaxFaults = 1
  MaxAsks = 1
  NoOne = nobody
INVARIANTS PaidOnce OneCopy
PROPERTIES ImplementsLife NoStaysNo TheirWordsStand EveryMessageJudged
CHECK_DEADLOCK FALSE
