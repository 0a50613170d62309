SPECIFICATION FairSpec
CONSTANTS
    t1 = t1
    t2 = t2
    Tasks = {t1, t2}
    MinCount = 2
    DependsOn <- NoDeps
    None = None
    MaxTasks = 1
    MaxCompleted = 0
    MaxSessions = 2
    MaxEvents = 1
    MaxDeaths = 1
    MaxSendFailures = 1
    MaxNotices = 0
PROPERTIES
    StaleAssignmentsAreCleared
    ReadyTasksAreDispatched
