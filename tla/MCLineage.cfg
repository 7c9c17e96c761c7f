CONSTANTS
    a1 = a1
    b1 = b1
    b2 = b2
    Calls = {a1, b1, b2}
    Session <- MCSession
    Declares <- MCDeclares
    Serial = {"B"}
    Outside = outside
    MaxEvents = 5
    MaxBoundary = 2
    MaxGeneration = 3
SPECIFICATION Spec
CHECK_DEADLOCK FALSE
INVARIANTS ReadWitnessIsExact  
PROPERTIES ProducersSettle
