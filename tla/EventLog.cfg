SPECIFICATION FairSpec
CONSTANTS
    Key = {k1}
    Payload = {p, q}
    Reader = {r1}
    None = None
    MaxSeq = 3
    MaxBatch = 2
    Limit = 2
    MaxCrashes = 1
    MaxExpiries = 1
CHECK_DEADLOCK FALSE
INVARIANTS
    RequestsAreQueued
    KeysAppendOnce
    StreamSkipsNoSingles
PROPERTIES
    RefinesAppendOnlyLog
    EventsReachReaders
