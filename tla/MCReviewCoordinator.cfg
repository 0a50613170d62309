SPECIFICATION ReviewSpec
CONSTANTS
    high = high  low = low  i1 = i1  i2 = i2
    Lane = {high, low}
    LANE_NAMES <- Names
    PriorityOf <- Priorities
    Item = {i1, i2}
    ClaimId = {c1, c2}
    None = None
    Malformed = Malformed
    Reviewers = {r1, r2}
    Opinion <- Opinions
    MinAverage = 7
    MinIndividual = 6
    BlockingScore = 5
    MinApprovals = 2
    MaxRounds = 2
    MaxFailures = 1
    LeaseFor = 1
    MaxRows = 2
    MaxTime = 1
    MaxCrashes = 1
INVARIANTS
    ApprovedOnce
    RequestsStayQueued
    PanelsAreTornDown
PROPERTIES
    ApprovalIsLast
