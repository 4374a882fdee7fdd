SPECIFICATION Spec
CONSTANTS
    Genesis = 1
    Concurrency = 2
    MaxHeight = 4
    MaxDepth = 2
    MaxForks = 2
    MaxFails = 1
INVARIANTS WholeAtRest
PROPERTIES EveryHeightIsStored BestIsStored
