SPECIFICATION SpecAll
CONSTANTS
    Nothing = Nothing
    r1 = r1
    r2 = r2
    r3 = r3
    Requests = {r1, r2, r3}
    FailureThreshold = 2
    FailureWindow = 2
    InitialCooldown = 3
    MaxCooldown = 5
    Multiplier = 2
    RequestTimeout = 2
    MaxTime = 12
    MaxId = 4
    Sizes = {1, 5}
    MaxBytes = 4
    DefaultLength = 4
    StoreChanges = 4
    WriteFailures = 1
    StoreRestarts = 1
    Pages = {"w"}
    PageChanges = 2
    PageRestarts = 1
    Devices = {"x", "y"}
    NoDevice = "none"
    MaxPlugs = 1
    LedgerRequests = 2
    SiteRequests = 2
    SiteClicks = 1
INVARIANTS
    TypesOK
    
    
    InOrder
    
    RightDevice
    OneRequestPerOrigin
    DisclosedWasAllowed
PROPERTIES
    TripsOnRun
    FollowsCycle
    EveryAnswered
    StorageFollows
    LastStateStored
    EveryCallEnds
    RepliesSeeChanges
    OperationsEnd
    RequestsEnd
    
    ActiveRefreshed
    FoundIsPriced
CHECK_DEADLOCK FALSE
