\* Two calls whose answers come later than the next call.
SPECIFICATION BridgeSpec
CONSTANTS
    MaxCalls = 2
    MaxLoads = 1
    BatchSize = 1
INVARIANT ResultsGoHome
CHECK_DEADLOCK FALSE
