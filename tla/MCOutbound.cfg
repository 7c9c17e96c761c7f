CONSTANTS
    s1 = s1
    s2 = s2
    Sources = {s1, s2}
    MaxContent = 1
    MaxPayload = 1
    Derived <- MCDerived
    Copies <- MCCopies
    Distinctive <- MCDistinctive
SPECIFICATION Spec
INVARIANTS AllowIsAtOneInstant 
PROPERTIES BlockIsAboutCurrentPayload
