CONSTANTS
  r1 = r1
  r2 = r2
  r3 = r3
  d1 = d1
  d2 = d2
  emp = emp
  mgr = mgr
  hr = hr
  Instance <- Requests1
  Target <- Requests1
  User <- Users
  Overrider = {hr}
  Requester = emp
  Resolution <- Resolutions
  NumSteps = 1
  Handler = {h1}
  Day = {d1}
  DaysOf <- DaysOf1
  Cost <- Cost1
  Paid <- Requests1
  AllowNegative = FALSE
  Grant = 2
  MaxFail = 0
  Lockable = {d1}
SPECIFICATION Spec
INVARIANT SheetFollowsLeave
CHECK_DEADLOCK FALSE
