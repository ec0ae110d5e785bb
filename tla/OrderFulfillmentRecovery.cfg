\* One handler that may be cut short while it fulfils an order.
SPECIFICATION Spec
CONSTANTS
    NULL = NULL
    Orders = {o1}
    RefundableOrders = {}
    Handlers = {h1}
    Due = 100
    PaidAmounts = {99}
    Ttl = 0
    Grace = 0
    MaxNow = 1
    BatchSize = 1
    OverlapDeliveries = FALSE
    Interruptions = TRUE
INVARIANT
    PaidIsRecoverable
CHECK_DEADLOCK FALSE
