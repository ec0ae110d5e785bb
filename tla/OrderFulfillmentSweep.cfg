\* Two overdue orders and a batch of one: the sweep reaches both.
SPECIFICATION FairSpec
CONSTANTS
    NULL = NULL
    Orders = {o1, o2}
    RefundableOrders = {}
    Handlers = {h1}
    Due = 100
    PaidAmounts = {99}
    Ttl = 0
    Grace = 0
    MaxNow = 1
    BatchSize = 1
    OverlapDeliveries = FALSE
    Interruptions = FALSE
PROPERTIES
    PendingIsResolved
CHECK_DEADLOCK FALSE
