CONSTANTS
  d1 = d1
  d2 = d2
  d3 = d3
  hrm = hrm
  boss = boss
  i1 = i1
  Target = {d1, d2, d3}
  Instance = {i1, i2}
  User <- Users
  Overrider = {}
  Requester = hrm
  Resolution <- Resolutions
  NumSteps = 1
  Handler = {h1, h2}
  MaxTerms = 2
  MaxFail = 1
  Capacity = 1
  Mix <- Mixes
SPECIFICATION Spec
SYMMETRY Symmetry
CONSTRAINT ClassBound
INVARIANTS EffectNeedsChain OpenIffWaiting AsSigned HiredOnce SeatsBounded
PROPERTIES FrozenOnceClosed
CHECK_DEADLOCK FALSE
