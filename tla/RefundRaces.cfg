\* Two handlers race for one order: two administrators, or one and the user.
SPECIFICATION Spec
CONSTANTS
    NULL = NULL
    Orders = {o1}
    Handlers = {h1, h2}
    Amount = 2
    PayAmount = 3
    RefundAmounts = {1}
    MaxTries = 2
    MaxNow = 2
    Interruptions = TRUE
    DbErrors = TRUE
SYMMETRY MCSymmetry
INVARIANTS
    TypeOK
    SingleRefunder
    RefundingHasHolder
    RefundedOnce
    ReversedIsBacked
    NeverMinted
PROPERTIES
    ReversedIsFinal
CHECK_DEADLOCK FALSE
