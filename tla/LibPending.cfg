\* Two creations by one user at the same time, with room for one order.
SPECIFICATION Spec
CONSTANTS
    NULL = NULL
    Orders = {o1, o2}
    Handlers = {h1, h2}
    MaxPending = 1
    DailyLimit = 0
    MethodLimit = 0
    Due = 3
    PaidAmounts = {3}
    Ttl = 0
    Grace = 0
    MaxNow = 0
    MaxFaults = 0
    MaxOutages = 0
INVARIANT PendingWithinMax
CHECK_DEADLOCK FALSE
