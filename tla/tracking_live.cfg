SPECIFICATION FairSpec
CONSTANTS
    a = a
    b = b
    s1 = s1
    Sent = {a}
    Seen = {}
    Slots = {s1}
    PendingFeed = TRUE
    MaxFailures = 1
    MaxRestarts = 1
PROPERTIES
    PendingResolved
    SentSettles
CHECK_DEADLOCK FALSE
