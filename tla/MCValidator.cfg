SPECIFICATION Spec
CONSTANTS
    t1 = t1  t2 = t2  t3 = t3  t4 = t4  t5 = t5  t6 = t6
    a = a  b = b  c = c  d = d
    Zero = Zero
    Activity <- ThreeBlocks
    From <- Senders
    To <- Receivers
    EntryAt <- Entries
    Units <- Amounts
    Decimals = 2
    NoAddress <- WithoutAddress
    Undecodable <- NotDecodable
    Negative <- Negatives
    Genesis = 1
    SyncBack = 1
    Threshold = 1
    ForceStart = 2
    ForceEnd = 2
    PageSize = 1
    Retries = 1
    BatchSize = 3
    BackEnds = {"bis", "hiro", "unisat"}
    Modes = {"interval", "force", "resync"}
    MaxFaults = 2
INVARIANTS NothingSlipsBy SignsOwnFigures GivenUpForACause
PROPERTIES AllAreSeen
