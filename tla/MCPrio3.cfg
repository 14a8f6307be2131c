SPECIFICATION Spec
CONSTANTS
  Report = {r1, r2}
  shares = 2
  MaxMixups = 2
  nil = nil
SYMMETRY Perms
INVARIANTS VerifiedTogether RightReportPasses CollectedIsSum
CHECK_DEADLOCK FALSE
