SPECIFICATION FairCallerSpec
CONSTANTS
    NodeLimit = 2
    MaxPerBlock = 3
    Strategy = "increase"
    MaxCalls = 5
    MaxFaults = 3
    MaxDrops = 1
INVARIANTS
    NoGap
    InOrder
    LimitFloor
PROPERTIES
    CallerReturns
CHECK_DEADLOCK FALSE
