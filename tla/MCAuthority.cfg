CONSTANTS
    Clients = {c1}
    Admins = {a1, a2}
    Operator = a1
    Nobody = nobody
    MaxGenerations = 4
    MaxOperations = 4
SPECIFICATION FairSpec
INVARIANTS InactiveMeansDrained OneGeneration
PROPERTIES StopsOnlyReviewed AppliedOnce ImplementsLifecycle StopCompletes LegacyRunsOut
