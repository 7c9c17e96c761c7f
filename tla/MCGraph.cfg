CONSTANTS
    s1 = s1
    Calls = {1, 2, 3, 4}
    Session <- MCSession
    Hooks = {h1}
    Drainers = {d1}
    Sources = {s1}
    Bindable = {s1}
    Produced <- MCProduced
    Verdicts <- MCVerdicts
    None = none
SPECIFICATION Spec
INVARIANTS GraphIsClosed HeadsAreWhole HookDecidesOwn
