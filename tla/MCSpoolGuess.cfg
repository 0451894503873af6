SPECIFICATION Spec
CONSTANTS
    k1 = k1
    k2 = k2
    Keys = {k1, k2}
    Files <- MCFiles
    MaxSessions = 2
    MaxAttempts = 2
    MaxTime = 2
    ClockGrace = 0
INVARIANTS
    NeverGuessed
CHECK_DEADLOCK FALSE
