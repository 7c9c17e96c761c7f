CONSTANTS
    Jobs = {1, 2}
    Drainers = {d1, d2}
    Hooks = {h1}
    Nobody = nobody
    Lease = 1
    Work = 1
    Wait = 1
    MaxAttempts = 2
SPECIFICATION FairSpec
INVARIANTS AttemptsBounded
PROPERTIES SettledIsFinal LiveLeaseKept RunningEnds JobSettles
