CONSTANTS
  Session = {s1, s2, s3}
  NoSession = NoSession
  Handler = {h1, h2}
  MaxEvent = 1
SPECIFICATION Spec
INVARIANTS NeverBoth BlockedIsRevoked RevokedIsRefused BannedIsOut OneSuccessor
SYMMETRY Symmetry
CHECK_DEADLOCK FALSE
