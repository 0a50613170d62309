SPECIFICATION FairSpec
CONSTANTS
  r1 = r1
  r2 = r2
  None = None
  Reviewer <- const_Reviewer
  FirstReviewers <- const_FirstReviewers
  MaxRounds = 1
  MaxResetCycles = 2
  MinApprovals = 1
  MaxRequests = 2
  MaxTroubles = 2
PROPERTIES
  
  ReviewsEnd
  ReadyTasksAreReviewed
  ClosedReviewsAreCleared
