SPECIFICATION FairSpec
CONSTANTS
    t1 = t1  t2 = t2
    a1 = a1  a2 = a2  b1 = b1
    None = None
    Task = {t1, t2}
    Commit = {a1, a2, b1}
    Versions <- TwoVersions
    Delta <- TaskDelta
    Covers <- SameChange
    Settled = {t2}
    MaxCrashes = 1
    MaxAborts = 2
INVARIANTS
    ClosedIsApplied
    NoCommitTwice
    IntegratedWasApproved
PROPERTIES
    StagedWorkIsKept
    ApprovedIsClosed
CHECK_DEADLOCK FALSE
