CONSTANTS
    outer = outer
    inner = inner
    other = other
    Roots = {outer, inner, other}
    Enclosing <- MCEnclosing
    Setups = {s1, s2}
    MaxEvents = 1
    None = none
SPECIFICATION Spec
SYMMETRY Symmetry
INVARIANTS ReportedIsEnabled
