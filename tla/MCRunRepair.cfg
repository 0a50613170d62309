SPECIFICATION FairRepairSpec
CONSTANTS
    r1 = r1  r2 = r2
    a1 = a1  a2 = a2
    reconciler = reconciler
    task1 = task1
    None = None
    RunId = {r1, r2}
    Lane = {task1}
    Owner = {a1, a2, reconciler}
    Reconciler = reconciler
    RetryRun <- Retries
    MaxAttempts = 2
    MaxTurnsPerRun = 1
    AgentLease = 1
    RepairLease = 1
    RenewalTime = 1
    MaxPrompts = 1
    MaxTime = 1
    MaxGeneration = 9
    MaxAgentClaims = 2
    MaxAttempt = 2
    MaxTurns = 1
PROPERTIES
    OrphansAreRepaired
    MergedTasksHaveNoRuns
    QueuedRetriesEnd
    WorkIsNotTaken
