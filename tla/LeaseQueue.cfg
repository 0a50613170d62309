SPECIFICATION Spec
CONSTANTS
    Lane = {q1}
    Item = {i1, i2}
    ClaimId = {c1, c2, c3}
    None = None
    Malformed = Malformed
    LeaseFor = 1
    MaxRows = 3
    MaxTime = 2
    MaxCrashes = 2
CHECK_DEADLOCK FALSE
INVARIANTS
    SingleWinner
PROPERTIES
    RowsLeaveByLiveAck
    LiveClaimsKept
