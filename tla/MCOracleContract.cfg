SPECIFICATION Spec
CONSTANTS
    dep = dep  v1 = v1  v2 = v2  k1 = k1  k2 = k2
    b1 = b1  b2 = b2  s1 = s1  u1 = u1  u2 = u2  tick = tick
    None = None  Oracle = Oracle  Registry = Registry
    Deployer = dep
    SetUpRelayer = dep
    Accounts <- MCAccounts
    PubKeys <- MCPubKeys
    BitcoinTxs <- MCBitcoinTxs
    LongTxs <- MCLongTxs
    Slots <- MCSlots
    Users <- MCUsers
    Ticks <- MCTicks
    Orders <- MCOrders
    Heights <- MCHeights
    MinedIn <- MCMinedIn
    LegacyMined <- MCLegacyMined
    LegacyIndexed <- MCLegacyIndexed
    SetUpValidators <- MCSetUpValidators
    SetUpRequired = 1
    Mainnet = TRUE
    MaxUint = 99
    MaxRequired = 3
    MaxBatch = 2
    MaxPacks = 2
    MaxGovernance = 1
INVARIANTS
    TypeOK
    CountIsRegistered
    IndexedHasQuorum
    IndexedIsMined
    SignaturesSpentOnce
    BalanceIsLatest
PROPERTIES
    BalancesNeverGoBack ImplementsLedger
    PausedRegistryFreezes
