SPECIFICATION Spec
CONSTANTS
    r1 = r1
    r2 = r2
    a = a
    b = b
    t = t
    m = m
    Nothing = Nothing
    Requests = {r1, r2}
    Transactions = {a, b}
    SignOnly = {b}
    TypedData = {t}
    Messages = {m}
SYMMETRY Symmetry
INVARIANT CleanSlate
CHECK_DEADLOCK FALSE
