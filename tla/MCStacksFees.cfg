SPECIFICATION Spec
CONSTANTS
    NodeLimit = 2
    MaxPerBlock = 2
    Strategy = "replace"
    MaxCalls = 3
    MaxFaults = 2
    MaxDrops = 1
    Kind <- Kinds
    Modes <- AllModes
    Strategies <- BothStrategies
    FixedFee = 0
    Floors <- TwoFloors
    FloorLimit = 4
    Cap = 3
    Stages <- Levels
    FeeThreshold = 2
    Increment = 1
    MaxPrice = 4
INVARIANTS
    ReplacementPays
PROPERTIES
    CallerReturnsPaid
CHECK_DEADLOCK FALSE
