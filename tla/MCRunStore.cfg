SPECIFICATION Spec
CONSTANTS
    RunId = {r1, r2, r3}
    Lane = {l1, l2}
    Owner = {o1}
    None = None
    MaxTime = 2
    MaxGeneration = 2
    MaxAttempt = 3
    MaxTurns = 1
    RenewalTime = 1
SYMMETRY Symmetry
CHECK_DEADLOCK FALSE
INVARIANTS
    OneActiveRunPerLane
    RetryConsumedOnce
PROPERTIES
    ClaimsNeverOverlap
    TerminalIsFinal
