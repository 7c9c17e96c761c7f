CONSTANTS
    own = own
    other = other
    Reviewers = {r1}
    Batches = {1, 2}
    Paths = {own, other}
    OwnReach = {own}
    Reach <- MCReach
    MaxVersion = 1
    MaxRounds = 3
    Nothing = nothing
SPECIFICATION ReviewSpec
CHECK_DEADLOCK FALSE
INVARIANTS CompleteMeansAnswered ResultIsCurrent 
PROPERTIES EveryReviewEnds
