SPECIFICATION RoundsSpec
CONSTANTS
  None = None
  Reviewer = {r1, r2}
  FirstReviewers = {r1, r2}
  MaxRounds = 2
  MaxResetCycles = 3
  MinApprovals = 2
  MaxRequests = 3
  MaxTroubles = 0
INVARIANT
  RoundsAreCapped
