CONSTANTS
    Hooks = {h1}
    Workers = {w1}
    Nobody = nobody
    Budget = 2
    Lease = 3
    MaxDelay = 1
    MaxAttempts = 2
SPECIFICATION RecoverySpec
INVARIANTS InBudgetOwnsRow
PROPERTIES PermissionByOwner LiveLeaseFenced DeliveryAnswered RunningRecovers WaitingResumes
