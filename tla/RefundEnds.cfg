\* Two handlers that run to their end.
SPECIFICATION FairSpec
CONSTANTS
    NULL = NULL
    Orders = {o1}
    Handlers = {h1, h2}
    Amount = 2
    PayAmount = 3
    RefundAmounts = {1}
    MaxTries = 2
    MaxNow = 0
    Interruptions = FALSE
    DbErrors = TRUE
PROPERTY
    RefundEnds
CHECK_DEADLOCK FALSE
