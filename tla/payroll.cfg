CONSTANTS
  p1 = p1
  p2 = p2
  i1 = i1
  i2 = i2
  hrm = hrm
  boss = boss
  Instance = {i1, i2}
  Target = {p1, p2}
  User <- Users
  Overrider = {}
  Requester = hrm
  Resolution <- Resolutions
  NumSteps = 1
  Handler = {h1}
  MaxCalc = 2
  MaxFail = 1
SPECIFICATION Spec
INVARIANTS PaidNeedsChain WaitsForSomeone
PROPERTIES CalculationHappens
CHECK_DEADLOCK FALSE
