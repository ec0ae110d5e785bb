\* One order under every race of two handlers, the sweep, the refund writes
\* and the provider.
SPECIFICATION Spec
CONSTANTS
    NULL = NULL
    Orders = {o1}
    RefundableOrders = {o1}
    Handlers = {h1, h2}
    Due = 100
    PaidAmounts = {0, 98, 99}
    Ttl = 0
    Grace = 1
    MaxNow = 3
    BatchSize = 1
    OverlapDeliveries = TRUE
    Interruptions = TRUE
SYMMETRY MCSymmetry
INVARIANTS
    TypeOK
    CreditedAtMostOnce
    CreditsAreFunded
    SingleFulfiller
    LockHasHolder
    DerivedStateTruthful
PROPERTIES
    AckOnlyWhenSettled
    ImplementsLifecycle
CHECK_DEADLOCK FALSE
