CONSTANTS
  User = {u1, u2}
  SuperAdmin = super
  Role = {super, staff}
  Clerk = {c1, c2}
  NoAccess = NoAccess
  MaxChange = 2
  MaxFault = 1
  Door = {d1, d2}
  Recovery = {r1}
  MaxAttempts = 2
  MaxFailures = 2
  MaxCode = 2
  MaxGuess = 5
  MaxBreak = 1
SPECIFICATION Spec
INVARIANTS CacheFresh AdminRemains OnceUnlessContested LiveCodesBounded GuessesLimited
PROPERTIES RevocationTakesEffect
CHECK_DEADLOCK FALSE
