---------------------------- MODULE CancelLimit ----------------------------
(***************************************************************************)
(* createOrder refuses a user who has cancelled too often                  *)
(* (lib/order/service.ts:147-235).  The cancellations are counted before   *)
(* the transaction that inserts the order, and only cancellations by the   *)
(* user count: an order that expires does not.                             *)
(***************************************************************************)
EXTENDS Naturals, FiniteSets

CONSTANTS
    Unit,          \* ticks of a minute, an hour or a day
    WindowSize,    \* CANCEL_RATE_LIMIT_WINDOW, in units
    MaxCount,      \* CANCEL_RATE_LIMIT_MAX
    MaxOpen,       \* MAX_PENDING_ORDERS
    MaxCreating,   \* bound: creations of the user in progress at a time
    MaxCancelling, \* bound: cancellations between their two statements
    Horizon        \* bound on time

ASSUME CancelAssumption ==
    /\ {Unit, WindowSize, MaxCount, MaxOpen, MaxCreating} \subseteq Nat \ {0}
    /\ {MaxCancelling, Horizon} \subseteq Nat

VARIABLES
    now,
    windowMode,    \* CANCEL_RATE_LIMIT_WINDOW_MODE
    open,          \* PENDING orders of the user
    creating,      \* creations that passed the check and have not inserted
    closing,       \* cancellations that closed the order and have no entry yet
    cancelled      \* ORDER_CANCELLED entries of the user: time and number

cancelVars == <<now, windowMode, open, creating, closing, cancelled>>

CancelInit ==
    /\ now = WindowSize * Unit
    /\ windowMode \in {"rolling", "fixed"}
    /\ open = 0 /\ creating = 0 /\ closing = 0
    /\ cancelled = {}

-----------------------------------------------------------------------------

\* A fixed window is this unit and the ones before it, from the start of the
\* first; a rolling one reaches back from now.
windowStart ==
    IF windowMode = "fixed"
    THEN (now \div Unit) * Unit - (WindowSize - 1) * Unit
    ELSE now - WindowSize * Unit

recentCancelCount == Cardinality({e \in cancelled : e.at >= windowStart})

\* Mutant: the limit itself is still allowed.
MutantPassCheck ==
    /\ creating < MaxCreating
    /\ recentCancelCount <= MaxCount
    /\ creating' = creating + 1
    /\ UNCHANGED <<now, windowMode, open, closing, cancelled>>

PassCheck ==
    /\ creating < MaxCreating
    /\ recentCancelCount < MaxCount
    /\ creating' = creating + 1
    /\ UNCHANGED <<now, windowMode, open, closing, cancelled>>

\* The transaction counts the open orders and inserts one more.  It runs at
\* the default isolation, so those that overlap do not see each other's order.
InsertOrder ==
    /\ open < MaxOpen
    /\ \E overlapping \in 1..creating :
          creating' = creating - overlapping /\ open' = open + overlapping
    /\ UNCHANGED <<now, windowMode, closing, cancelled>>

\* Too many orders, a limit, or no payment: nothing is left of the order.
CreationFails ==
    /\ creating > 0
    /\ creating' = creating - 1
    /\ UNCHANGED <<now, windowMode, open, closing, cancelled>>

\* Entries have an identity: two of the same time are two.
NewEntry ==
    LET entry(n) == [at |-> now, nr |-> n]
    IN entry(CHOOSE n \in 1..(Cardinality(cancelled) + 1) : entry(n) \notin cancelled)

\* The order is CANCELLED first; the entry that counts is written after that.
UserCancels ==
    /\ open > 0 /\ closing < MaxCancelling
    /\ open' = open - 1 /\ closing' = closing + 1
    /\ UNCHANGED <<now, windowMode, creating, cancelled>>

CancelIsLogged ==
    /\ closing > 0
    /\ closing' = closing - 1
    /\ cancelled' = cancelled \cup {NewEntry}
    /\ UNCHANGED <<now, windowMode, open, creating>>

\* The entry is not written: the order stays CANCELLED and does not count.
LogFails ==
    /\ closing > 0
    /\ closing' = closing - 1
    /\ UNCHANGED <<now, windowMode, open, creating, cancelled>>

\* Paid, expired, or cancelled by an administrator.
OrderCloses ==
    /\ open > 0
    /\ open' = open - 1
    /\ UNCHANGED <<now, windowMode, creating, closing, cancelled>>

\* Entries that no window reaches any more are forgotten.
TimePasses ==
    /\ now < Horizon
    /\ now' = now + 1
    /\ cancelled' = {e \in cancelled : e.at + WindowSize * Unit >= now'}
    /\ UNCHANGED <<windowMode, open, creating, closing>>

CancelNext ==
    PassCheck \/ InsertOrder \/ CreationFails \/ UserCancels \/ CancelIsLogged
    \/ LogFails \/ OrderCloses \/ TimePasses

-----------------------------------------------------------------------------

\* However creations and cancellations interleave, a window holds no more
\* cancellations than the limit, the orders that were open when it was reached
\* (creations that overlap may exceed their limit as well), the creations that
\* had passed the check by then and the cancellations that had closed their
\* order without being counted yet (service.ts:147-193, 259-275, 585-601).
CancelsStayBounded ==
    recentCancelCount + closing
      <= (MaxCount - 1) + (MaxOpen - 1 + MaxCreating) + MaxCreating + MaxCancelling

=============================================================================
