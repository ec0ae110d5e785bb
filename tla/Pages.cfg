\* One user, two orders of which one may be pending at a time; up to two
\* requests outstanding when the user or a timer starts another.
SPECIFICATION FairSpec
CONSTANTS
    MaxOrders = 2
    MaxPending = 1
    MaxRequests = 2
    ListPages = 3
    MaxChecks = 3
    MaxOpens = 3
    MaxCalls = 2
    MaxTasks = 2
    MaxLoads = 3
    SmallPages = 2
INVARIANTS
    PagesTypeOK
    OutcomeWasTrue
    OneSubmissionAtATime
    ListsAreTrue
PROPERTIES
    NobodyWaitsInVain
CHECK_DEADLOCK FALSE
