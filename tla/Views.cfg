SPECIFICATION Spec
CONSTANTS
    Task = {t1}
    Review = {v1}
    Agent = {a1}
    None = None
    Kind = {"TaskCreated", "TaskAssigned", "TaskCompleted", "MergePrepared", "MergeAborted", "MergeCommitted", "ReviewRequested", "ReviewScoreReceived", "ReviewApproved", "ReviewRejected", "ReviewChangesRequested", "WorkerReassigned"}
    MaxEvents = 3
    MaxStaged = 1
    MaxArchived = 2
    MaxCrashes = 2
CHECK_DEADLOCK FALSE
INVARIANTS
    OpenedViewsFollowLog
    OpenedStoreIsClean
