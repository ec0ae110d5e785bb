\* One order and two handlers, nothing cut short: a payment that became owed is
\* delivered, although payments may also come too late and retries and
\* cancellations intervene.
SPECIFICATION FairSpec
CONSTANTS
    NULL = NULL
    Orders = {o1}
    RefundableOrders = {}
    Handlers = {h1, h2}
    Due = 100
    PaidAmounts = {99}
    Ttl = 0
    Grace = 0
    MaxNow = 2
    BatchSize = 1
    OverlapDeliveries = FALSE
    Interruptions = FALSE
PROPERTIES
    OwedIsDelivered
CHECK_DEADLOCK FALSE
