SPECIFICATION Spec
CONSTANTS
    OnceListeners = {o}
    LastingListeners = {k}
    o = o
    k = k
    LastProvider = 1
    SocketCreators = {}
    MaxProviders = 3
INVARIANT CalledOnce
CHECK_DEADLOCK FALSE
