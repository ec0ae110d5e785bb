\* Two refunds of one order, one after the other; nothing is cut short.
SPECIFICATION Spec
CONSTANTS
    NULL = NULL
    Orders = {o1}
    Handlers = {h1}
    Amount = 2
    PayAmount = 3
    RefundAmounts = {1}
    MaxTries = 2
    MaxNow = 2
    Interruptions = FALSE
    DbErrors = FALSE
INVARIANT
    ClearedIsWhole
CHECK_DEADLOCK FALSE
