SPECIFICATION Spec
CONSTANTS
    Rings = {r1, r2}
    MaxDerived = 2
    Calls = {c1, c2}
    MaxCalls = 4
    r1 = r1
    r2 = r2
    c1 = c1
    c2 = c2
SYMMETRY Symmetry
INVARIANTS
    TypeOK
    OneSigner
    NoEmptyRing
    NothingLost
    VaultIsCurrent
