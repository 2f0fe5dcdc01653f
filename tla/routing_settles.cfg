SPECIFICATION FairSpec
CONSTANTS
    m1 = m1
    m2 = m2
    Messages = {m1, m2}
    LastProvider = 1
    MaxRetries = 1
    Threshold = 2
    HasDirect = FALSE
    Sockets = FALSE
    MaxRejoins = 1
    MaxWaits = 1
PROPERTIES
    
    ProbesEnd
CHECK_DEADLOCK FALSE
