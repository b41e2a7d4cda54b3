CONSTANTS
  r1 = r1
  r2 = r2
  r3 = r3
  d1 = d1
  d2 = d2
  emp = emp
  mgr = mgr
  hr = hr
  Instance <- Requests3
  Target <- Requests3
  User <- Users
  Overrider = {hr}
  Requester = emp
  Resolution <- Resolutions
  NumSteps = 1
  Handler = {h1}
  Day = {d1, d2}
  DaysOf <- DaysOf3
  Cost <- Cost3
  Paid <- Requests3
  AllowNegative = FALSE
  Grant = 3
  MaxFail = 1
  Lockable = {}
SPECIFICATION Spec
INVARIANTS LedgerMatchesStatus BalanceCovered NoOverlap
PROPERTIES ClosedStaysClosed
CHECK_DEADLOCK FALSE
