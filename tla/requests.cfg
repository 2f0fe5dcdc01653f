SPECIFICATION FairSpec
CONSTANTS
    r1 = r1
    r2 = r2
    a = a
    b = b
    t = t
    m = m
    Nothing = Nothing
    Requests = {r1, r2}
    Transactions = {a, b}
    SignOnly = {b}
    TypedData = {t}
    Messages = {m}
INVARIANTS
    TypeOK
    PendingIsOpen
    AnswerIsKnown
PROPERTIES
    OpenPopupAnswers
CHECK_DEADLOCK FALSE
