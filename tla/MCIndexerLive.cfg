SPECIFICATION FairSpec
CONSTANTS
    o1 = o1  o2 = o2  v1 = v1  v2 = v2  v3 = v3  v4 = v4  k1 = k1  k2 = k2  k3 = k3
    tx = tx  slot = slot  r1 = r1  r2 = r2  Nothing = Nothing
    PlaceOf <- InOnePlace
    SignerOf <- Keys
    Requests <- TwoRequests
    MinAgreement = 2
    MaxLost = 2
    Orders <- TwoOrders
    Unaddressable <- LastOrder
    Validators <- ThreeValidators
    SyncSize = 1
INVARIANTS
    ProofHasTx
    AckedIsStored
    NeverFails
PROPERTIES
    RequestsEnd
    AgreedIsValidated
