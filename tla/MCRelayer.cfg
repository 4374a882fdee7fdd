SPECIFICATION Spec
CONSTANTS
    o1 = o1  o2 = o2  o3 = o3  o4 = o4  v1 = v1  v2 = v2  p1 = p1  p2 = p2  p3 = p3  None = None
    Orders <- TwoOrders
    PlaceOf <- InPlaces
    HeightOf <- Heights
    Selected <- SelectedOrders
    Listed <- AllOrders
    Young = 0
    Old = 2
    Validators <- TwoValidators
    MinProofs = 1
    MinAgreement = 2
    MaxAgreement = 2
    ChunkSize = 1
    NodeLimit = 1
    MaxPerBlock = 1
    Strategy = "increase"
    MaxCalls = 8
    MaxFaults = 2
    MaxDrops = 1
INVARIANTS
    SettledIsIndexed
    RecordedIsSent
    SubmittedOnce
CHECK_DEADLOCK FALSE
