SPECIFICATION Spec
CONSTANTS
    o1 = o1  o2 = o2  v1 = v1  v2 = v2  v3 = v3  v4 = v4  k1 = k1  k2 = k2  k3 = k3
    tx = tx  slot = slot  r1 = r1  r2 = r2  Nothing = Nothing
    PlaceOf <- InOnePlace
    SignerOf <- Keys
    Requests <- OneRequest
    MinAgreement = 2
    MaxLost = 1
    Orders <- TwoOrders
    Unaddressable <- NoOrder
    Validators <- FourValidators
    SyncSize = 2
INVARIANTS
    EnoughSigners
    SameFields
    ValidatedOnce
