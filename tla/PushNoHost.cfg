SPECIFICATION LiveSpec
CONSTANTS
    Conns = {c1, c2}
    MaxRegs = 1
PROPERTY ReconnectsUntilConnected
CHECK_DEADLOCK FALSE
