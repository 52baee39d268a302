SPECIFICATION LiveSpec
CONSTANTS
    Conns = {c1, c2, c3}
    MaxRegs = 2
INVARIANTS NotStopedMeansLive
PROPERTY ConnectsAgain
CHECK_DEADLOCK FALSE
