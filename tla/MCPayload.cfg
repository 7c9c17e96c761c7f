CONSTANTS
    f1 = f1
    f2 = f2
    git = git
    c1 = c1
    c2 = c2
    Files = {f1, f2}
    Repositories = {git}
    Targets <- MCTargets
    Objects <- MCObjects
    MaxBytes = 3
    MaxMembers = 3
    MaxDepth = 1
    MaxLength = 2
    MaxEdits = 2
SPECIFICATION Spec
INVARIANTS AllAtOneInstant CompleteIsWhole
