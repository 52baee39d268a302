SPECIFICATION FairSpec
CONSTANTS
    Threads = {t1, t2, t3, t4}
    MaxSize = 2
    MaxHeld = 2
INVARIANTS NoLostWakeup
PROPERTIES LendingSpec WaiterReturns
CHECK_DEADLOCK FALSE
