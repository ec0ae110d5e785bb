SPECIFICATION FairSpec
INVARIANTS
    CheckoutTypeOK
    OfferIsHonoured
    OrderFollowsMoney
    StalenessIsBounded
    LimitsStayBounded
    PayableIsKnown
PROPERTY
    PaymentIsNoticed
CONSTANTS
    EnvProviders = {"easypay"}
    Catalogues <- MCCatalogues
    Settings <- MCSettings
    ProviderFeeRate <- MCProviderFeeRate
    DefaultDailyMax <- MCDefaultDailyMax
    DefaultSingleMax <- MCDefaultSingleMax
    MaxAmount = 3
    CounterPeriod = 2
    MaxPending = 1
    MaxTaken = 3
    Keys = {a, b}
    Ttl = 2
    MaxLookup = 1
    MaxTime = 4
    MaxWrites = 2
    Unit = 2
    WindowSize = 2
    MaxCount = 2
    MaxOpen = 1
    MaxCreating = 2
    MaxCancelling = 1
    Horizon = 9
    Slots = {s1, s2, s3}
    MaxInFlight = 2
    MaxSetAside = 1
    MaxPendingOrders = 1
    InstanceDailyLimit = 2
CHECK_DEADLOCK FALSE
