SPECIFICATION Spec
CONSTANTS
    Conns = {c1, c2}
    MaxRegs = 1
INVARIANT OneConnection
CHECK_DEADLOCK FALSE
