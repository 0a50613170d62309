SPECIFICATION Spec
CONSTANTS
    t1 = t1
    t2 = t2
    Tasks = {t1, t2}
    MinCount = 2
    DependsOn <- Deps
    None = None
    MaxTasks = 1
    MaxCompleted = 0
    MaxSessions = 3
    MaxEvents = 2
    MaxDeaths = 1
    MaxSendFailures = 0
    MaxNotices = 1
SYMMETRY Symmetry
INVARIANTS
    SessionsAreExclusive
    PrerequisitesFirst
    MergedDepsAreRemembered
