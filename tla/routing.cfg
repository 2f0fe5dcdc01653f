SPECIFICATION Spec
CONSTANTS
    m1 = m1
    m2 = m2
    Messages = {m1, m2}
    LastProvider = 1
    MaxRetries = 1
    Threshold = 2
    HasDirect = TRUE
    Sockets = TRUE
    MaxRejoins = 1
    MaxWaits = 1
SYMMETRY Symmetry
INVARIANT TypeOK
 
CHECK_DEADLOCK FALSE
