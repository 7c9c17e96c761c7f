CONSTANTS
    i1 = i1
    i2 = i2
    s1 = s1
    s2 = s2
    Inspectors = {i1, i2}
    Sources = {s1, s2}
    MaxContent = 1
    Distinctive <- MCDistinctive
    Holds <- MCHolds
SPECIFICATION FairSpec
INVARIANTS MatchIsExact
PROPERTIES IndexConverges
