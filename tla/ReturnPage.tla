----------------------------- MODULE ReturnPage -----------------------------
(***************************************************************************)
(* The page a payment provider sends the customer back to                  *)
(* (app/pay/result/page.tsx).  It asks for the order every three seconds   *)
(* for half a minute, whatever the answers are, and in a popup window it   *)
(* closes itself once it has shown a payment for three seconds.            *)
(*                                                                         *)
(* Unlike the recharge page it applies every answer, so an older answer    *)
(* that arrives late replaces a newer one.                                 *)
(***************************************************************************)
EXTENDS OrderServer

CONSTANT MaxChecks      \* bound: overlapping requests of the page

VARIABLES
    orderState,         \* the snapshot on the screen, or NoSnapshot
    checking,           \* the first answer is still awaited
    polling,            \* the half minute of polling is not over
    isInPopup,          \* the page runs in a window of its own
    accessToken,        \* the URL carries an access token
    windowClosed,
    checks              \* the answers on their way

returnVars ==
    <<orderState, checking, polling, isInPopup, accessToken, windowClosed,
      checks>>

NoSnapshot == Told(0, "none", "none")
Unanswered == Told(0, "waiting", "none")

\* The order the URL names: the one the customer has just been paying.
outTradeNo == 1

ReturnInit ==
    /\ isInPopup \in BOOLEAN /\ accessToken \in BOOLEAN
    /\ orderState = NoSnapshot /\ windowClosed = FALSE
    /\ checking = accessToken /\ polling = accessToken
    /\ checks = IF accessToken THEN {Unanswered} ELSE {}
    /\ order = [o \in Orders |-> IF o = outTradeNo THEN "PENDING" ELSE "absent"]

\* What the page reads out: it has the branches of OrderStatus, and one for an
\* order it has not got, without credentials or without an answer.
display ==
    IF orderState = NoSnapshot THEN "unknown" ELSE getStatusConfig(orderState)

shouldAutoClose ==
    orderState # NoSnapshot /\ Derived(orderState).paymentSuccess

checkOrder ==
    /\ polling /\ ~windowClosed /\ Cardinality(checks) < MaxChecks
    /\ checks' = checks \cup {Unanswered}
    /\ UNCHANGED <<order, orderState, checking, polling, isInPopup,
                   accessToken, windowClosed>>

CheckAnswered ==
    /\ Unanswered \in checks
    /\ checks' = (checks \ {Unanswered})
                   \cup {SnapshotOf(outTradeNo)}
    /\ UNCHANGED <<order, orderState, checking, polling, isInPopup,
                   accessToken, windowClosed>>

CheckReceived(c) ==
    /\ c # Unanswered /\ ~windowClosed
    /\ orderState' = c
    /\ checking' = FALSE
    /\ checks' = checks \ {c}
    /\ UNCHANGED <<order, polling, isInPopup, accessToken, windowClosed>>

CheckFails(c) ==
    /\ checking' = FALSE
    /\ checks' = checks \ {c}
    /\ UNCHANGED <<order, orderState, polling, isInPopup, accessToken,
                   windowClosed>>

PollingEnds ==
    /\ polling
    /\ polling' = FALSE
    /\ UNCHANGED <<order, orderState, checking, isInPopup, accessToken,
                   windowClosed, checks>>

\* Through the bridge of the Alipay app or by window.close: the customer
\* does it, or the timer that runs while the payment is on the screen.
closeCurrentWindow ==
    /\ isInPopup /\ ~windowClosed /\ shouldAutoClose
    /\ windowClosed' = TRUE /\ checks' = {} /\ polling' = FALSE
    /\ UNCHANGED <<order, orderState, checking, isInPopup, accessToken>>

\* The back button of a page that is not a popup.
goBack ==
    /\ ~isInPopup /\ ~windowClosed /\ ~checking
    /\ windowClosed' = TRUE /\ checks' = {} /\ polling' = FALSE
    /\ UNCHANGED <<order, orderState, checking, isInPopup, accessToken>>

ReturnNext ==
    \/ checkOrder \/ CheckAnswered \/ PollingEnds
    \/ closeCurrentWindow \/ goBack
    \/ \E c \in checks : CheckReceived(c) \/ CheckFails(c)
    \/ \E o \in Orders : OrderMoves(o) /\ UNCHANGED returnVars

=============================================================================
