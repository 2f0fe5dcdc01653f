SPECIFICATION Spec
CONSTANTS
    Rings = {r1}
    MaxDerived = 1
    Calls = {c1}
    MaxCalls = 2
    r1 = r1
    c1 = c1
INVARIANTS
    LockedHoldsNoKeys
