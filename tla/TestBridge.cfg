SPECIFICATION Spec
CONSTANTS
    Topics = {t}
    t = t
    None = None
    MaxConns = 2
    MaxRequests = 3
    MaxPosts = 1
INVARIANTS BusKnowsListeners EachAnswered IdleClientsWatched
PROPERTIES ComesBack
CHECK_DEADLOCK FALSE
