\* One order through every path, with two concurrent requests, one lost
\* request or failed database call and one failure of an outside service.
SPECIFICATION Spec
CONSTANTS
    NULL = NULL
    Orders = {o1}
    Handlers = {h1, h2}
    MaxPending = 1
    DailyLimit = 3
    MethodLimit = 3
    Due = 3
    PaidAmounts = {1, 3}
    Ttl = 0
    Grace = 0
    MaxNow = 2
    MaxFaults = 1
    MaxOutages = 1
INVARIANTS
    TypeOK
    SingleFulfiller
    CreditIsFunded
    CompletedIsCredited
    PaidIsNotClosed
    AckedIsSettled
PROPERTIES
    PaymentIsAcknowledged
CHECK_DEADLOCK FALSE
