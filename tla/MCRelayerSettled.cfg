SPECIFICATION FairSpec
CONSTANTS
    o1 = o1  o2 = o2  o3 = o3  o4 = o4  v1 = v1  v2 = v2  p1 = p1  p2 = p2  p3 = p3  None = None
    Orders <- TwoOrders
    PlaceOf <- InPlaces
    HeightOf <- Heights
    Selected <- SelectedOrders
    Listed <- AllOrders
    Young = 0
    Old = 2
    Validators <- TwoValidators
    MinProofs = 1
    MinAgreement = 2
    MaxAgreement = 2
    ChunkSize = 2
    NodeLimit = 1
    MaxPerBlock = 1
    Strategy = "increase"
    MaxCalls = 4
    MaxFaults = 0
    MaxDrops = 0
PROPERTIES
    SubmittedIsSettled
CHECK_DEADLOCK FALSE
