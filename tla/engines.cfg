CONSTANTS
  Unit = {a, b, c}
  Root = root
  Editor = {e1, e2}
  MaxEdit = 5
  Staff = {s1, s2}
  Server = {v1, v2}
  Nobody = nobody
  Policies <- MCPolicies
  Joins <- MCJoins
  Stays <- MCStays
  MaxCrash = 1
  Dates = {1, 2, 3}
  NoSalary = NoSalary
  Salaries <- MCSalaries
  Unset = Unset
  Spans <- MCSpans
  Benefit <- MCBenefit
  Overtimes = {0, 600}
  Configs <- MCConfigs
  Minute = {0, 2, 3, 5, 7, 9}
  Shifts <- MCShifts
  None = None
  MaxLog = 3
  Days = {1, 2, 3, 4}
  Limits <- MCLimits
  NoLimit = NoLimit
  Unmarked = Unmarked
  MaxTime = 5
  MaxMiss = 1
  Contract = {k1, k2}
  NoContract = NoContract
  End <- MCEnds
  NoEnd = NoEnd
  Notice = 0
  RemindDays = {0}
  MaxToday = 2
  MaxLost = 1
SYMMETRY SomeOrder
SPECIFICATION Spec
INVARIANTS PathsTellTheTree GrantsMatch PayslipAdds DaysCounted EachStepReminded TermKept
CHECK_DEADLOCK FALSE
