SPECIFICATION Spec
CONSTANTS
    k1 = k1
    k2 = k2
    Calls = {k1, k2}
    MaxSockets = 3
INVARIANTS PendingServes ConnectionsFollow
PROPERTIES CallsEnd
CHECK_DEADLOCK FALSE
