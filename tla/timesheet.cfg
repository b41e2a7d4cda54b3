CONSTANTS
  r1 = r1
  r2 = r2
  d1 = d1
  d2 = d2
  Day = {d1, d2}
  Handler = {h1, h2}
  Request = {r1, r2}
  Mix <- Mixes
  Worker = worker
  Cron = cron
  MaxLogs = 2
  MaxFail = 1
SPECIFICATION Spec
CONSTRAINT Bound
SYMMETRY Symmetry
INVARIANTS SheetAsDecided Alternates LogsShown
CHECK_DEADLOCK FALSE
