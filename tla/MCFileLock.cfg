SPECIFICATION FairSpec
CONSTANTS
    p1 = p1  p2 = p2
    t1 = t1  t2 = t2  rev = rev
    None = None
    Proc = {p1, p2}
    Lock = {t1, t2, rev}
    Beating = {t1, t2}
    Nests <- TaskNests
    AcquireTimeout = 2
    StaleAfter = 3
    HeartbeatEvery = 1
    MaxCrashes = 1
INVARIANTS
    HoldersAreExclusive
    LiveLocksStayFresh
PROPERTIES
    AttemptsEnd
    OrphansAreReclaimed
