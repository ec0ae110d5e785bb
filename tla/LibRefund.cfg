\* Two administrators refund one order whose notification is redelivered, with
\* one lost request or failed database call and two failures of outside services.
SPECIFICATION RefundSpec
CONSTANTS
    NULL = NULL
    Orders = {o1}
    Handlers = {h1}
    Admins = {a1, a2}
    RefundAmounts = {1, 2}
    MaxPending = 1
    DailyLimit = 0
    MethodLimit = 0
    Due = 2
    PaidAmounts = {2}
    Ttl = 0
    Grace = 0
    MaxNow = 0
    MaxFaults = 1
    MaxOutages = 2
INVARIANTS
    SingleRefund
    PaidBackOnce
    DeductionIsBacked
CHECK_DEADLOCK FALSE
SYMMETRY Symmetry
