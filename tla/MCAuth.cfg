SPECIFICATION Spec
CONSTANTS
    c1 = c1  c2 = c2
    Callers = {c1, c2}
    Outdated = {c2}
    Life = 3
    Margin = 2
    Lease = 3
    LeaseMargin = 2
    Refresh = 2
    Retries = 1
    MaxTime = 4
    MaxFaults = 1
INVARIANTS NotExpired LeaseHolds FailsForACause
