------------------------------- MODULE Pages -------------------------------
(***************************************************************************)
(* The windows together: the customer's recharge page, page of orders,     *)
(* return page and Stripe popup, and the administrator's lists and orders. *)
(* They share nothing in the browser but what is on the server, so a       *)
(* behaviour follows one of them.                                          *)
(***************************************************************************)
EXTENDS PayPage, ReturnPage, StripePopup, AdminLists, AdminOrders, MyOrdersPage

VARIABLE window  \* the one followed

adminVars == <<listVars, ordersVars, myOrdersVars>>
vars == <<window, order, payVars, returnVars, popupVars, adminVars>>

Idle(w) ==
    CASE w = "pay" ->
           /\ step = "none" /\ orderResult = NoOrder
           /\ finalOrderState = NoState /\ userNotFound = FALSE /\ late = {}
           /\ expired = FALSE /\ cancelBlocked = FALSE /\ refreshing = FALSE
           /\ myOrders = <<>> /\ ordersPage = 1 /\ ordersHasMore = FALSE
           /\ ordersLoadingMore = FALSE /\ total_pages = 1
           /\ loading = FALSE /\ userLoaded = FALSE /\ pendingCount = 0
           /\ requests = {}
      [] w = "return" ->
           /\ orderState = NoSnapshot /\ checking = FALSE /\ polling = FALSE
           /\ isInPopup = FALSE /\ accessToken = FALSE
           /\ windowClosed = TRUE /\ checks = {}
      [] w = "popup" ->
           /\ opens = MaxOpens /\ listeners = 0 /\ posted = {}
           /\ popup = "closed" /\ credentials = FALSE /\ isAlipay = FALSE
           /\ paying = "no" /\ disturbed = FALSE
      [] w = "lists" ->
           /\ adminPage = "none" /\ row = "absent" /\ shownRow = "absent"
           /\ modal = "closed" /\ saving = FALSE /\ syncImporting = FALSE
           /\ rcSaving = FALSE /\ rcOverrideEnv = FALSE
           /\ rcOverrideSaved = FALSE /\ calls = {}
      [] w = "orders" ->
           /\ statusFilter = 1 /\ listOf = 0 /\ refundOrder = 0
           /\ refundRequireForce = FALSE /\ balanceOf = 0
           /\ processing = FALSE /\ tasks = {}
      [] w = "table" ->
           /\ stored = 0 /\ page = 1 /\ pageSize = "small" /\ totalPages = 1
           /\ rows = 0 /\ listLoading = FALSE /\ listError = TRUE
           /\ dialogOrder = 0 /\ submittingId = 0 /\ loads = {}

Init ==
    /\ window \in {"pay", "return", "popup", "lists", "orders", "table"}
    /\ IF window = "pay" THEN PayInit ELSE Idle("pay")
    /\ IF window = "return" THEN ReturnInit ELSE Idle("return")
    /\ IF window = "popup" THEN PopupInit ELSE Idle("popup")
    /\ IF window = "lists" THEN ListInit ELSE Idle("lists")
    /\ IF window = "orders" THEN AdminOrdersInit ELSE Idle("orders")
    /\ IF window = "table" THEN MyOrdersInit ELSE Idle("table")
    /\ window \notin {"pay", "return"} => order = [o \in Orders |-> "absent"]

PayPart(A) ==
    window = "pay" /\ A /\ UNCHANGED <<window, returnVars, popupVars, adminVars>>
PopupPart(A) ==
    /\ window = "popup" /\ A
    /\ UNCHANGED <<window, order, payVars, returnVars, adminVars>>
ListPart(A) ==
    /\ window = "lists" /\ A
    /\ UNCHANGED <<window, order, payVars, returnVars, popupVars, ordersVars,
                   myOrdersVars>>
OrdersPart(A) ==
    /\ window = "orders" /\ A
    /\ UNCHANGED <<window, order, payVars, returnVars, popupVars, listVars,
                   myOrdersVars>>
TablePart(A) ==
    /\ window = "table" /\ A
    /\ UNCHANGED <<window, order, payVars, returnVars, popupVars, listVars,
                   ordersVars>>

PayStep == PayPart(PayNext)
ReturnStep == /\ window = "return" /\ ReturnNext
              /\ UNCHANGED <<window, payVars, popupVars, adminVars>>
PopupStep == PopupPart(PopupNext)
ListStep == ListPart(ListNext)
AdminOrdersStep == OrdersPart(AdminOrdersNext)
MyOrdersStep == TablePart(MyOrdersNext)

Next == \/ PayStep \/ ReturnStep \/ PopupStep
        \/ ListStep \/ AdminOrdersStep \/ MyOrdersStep

Spec == Init /\ [][Next]_vars

-----------------------------------------------------------------------------
(* Fairness.  Timers fire, promises settle, messages between windows are   *)
(* delivered, and a poll that is repeated for ever does not fail for ever. *)
(* The polling timer is strongly fair because only the bound on requests   *)
(* can hold it up.  Nothing makes the user click.                          *)

PollReplied == \E r \in requests : r.op = "poll" /\ ServerReplies(r)
Polled == \E r \in requests : r.op = "poll" /\ Receive(r)
Settled == \E r \in requests : ServerReplies(r) \/ Receive(r) \/ RequestFails(r)

\* Of each list one submission is watched.
WatchedOp == [plans |-> "save", channels |-> "import", instances |-> "saveConfig"]

CallSettles ==
    \E c \in Submissions(WatchedOp[adminPage]) :
        AdminReplied(c) \/ AdminReceives(c) \/ AdminCallFails(c)
RefundSettles == \E t \in OwnRefunds : TaskEnds(t)
RequestSettles == \E l \in OwnRequests : LoadEnds(l)

Fairness ==
    /\ WF_vars(ListPart(CallSettles))
    /\ WF_vars(OrdersPart(RefundSettles))
    /\ WF_vars(TablePart(RequestSettles))
    /\ SF_vars(PayPart(pollStatus))
    /\ SF_vars(PayPart(PollReplied))
    /\ SF_vars(PayPart(Polled))
    /\ WF_vars(PayPart(Settled))
    /\ WF_vars(PopupPart(PopupLoaded \/ onReady \/ InitReceived))

FairSpec == Spec /\ Fairness

-----------------------------------------------------------------------------
(* Properties.                                                             *)

Snapshots == [id : Orders, status : Statuses, was : Statuses]

\* Types, and that what belongs to a mounted component goes with it: the
\* countdown and the notice of PaymentQRCode with the payment screen, the
\* polling of OrderStatus with a result it still waits for.
PagesTypeOK ==
    /\ order \in [Orders -> Statuses \cup {"absent"}]
    /\ step \in {"none", "form", "paying", "result"}
    /\ orderResult \in Orders \cup {NoOrder}
    /\ finalOrderState \in Snapshots \cup {NoState}
    /\ orderState \in Snapshots \cup {NoSnapshot}
    /\ pendingCount \in 0..MaxPending
    /\ \A r \in requests : r.op \in Ops
    /\ expired \/ cancelBlocked => PayingShown
    /\ refreshing => RefreshKey(step, orderResult, finalOrderState,
                                userNotFound) # NoOrder
    /\ popup \in {"closed", "loading", "shown", "blocked"}
    /\ credentials => popup = "shown"
    /\ paying # "no" => credentials
    /\ row \in RowStates /\ shownRow \in RowStates
    /\ modal \in {"closed", "new", "edit", "groups", "selected"}
    /\ rcOverrideSaved => rcOverrideEnv
    /\ processing => refundOrder # 0
    /\ page \in 1..SmallPages /\ pageSize \in Sizes
    /\ rows \in 0..SmallPages /\ totalPages \in 0..SmallPages

\* What a page was told is what the order was, perhaps not any more.  The
\* exception is a cancellation that an expiry overtook: the server answers it
\* like a successful one.  And the words it chose fit what the order is.
WasTrue(snap, words) ==
    /\ order[snap.id] \in Since(snap.was)
    /\ \/ snap.status = snap.was
       \/ snap.status = "CANCELLED" /\ snap.was = "EXPIRED"
    /\ words = "credited" => order[snap.id] = "COMPLETED"
    /\ words = "received" => order[snap.id] \in PaidStatuses
    /\ words # "abnormal"

\* No window tells the customer of an outcome that the order it was told about
\* never had, as made up by a cancellation whose answer says otherwise.  The
\* result screen is about the order that was being paid, unless the page was
\* still asking about an earlier one when that order's screen opened: nothing
\* takes back a poll or a cancellation of an order that the customer has left,
\* and its late answer is shown as the other order's.  And a window that went
\* away by itself, or says that a cancellation came too late, belongs to an
\* order that is paid (PaymentQRCode.tsx:345-408, pay/page.tsx:515-518,
\* 1111-1116, result/page.tsx:224, 246-271).
OutcomeWasTrue ==
    /\ finalOrderState # NoState =>
          WasTrue(finalOrderState, getStatusConfig(finalOrderState))
    /\ ResultShown => finalOrderState.id \in {orderResult} \cup late
    /\ orderState # NoSnapshot => WasTrue(orderState, display)
    /\ cancelBlocked => order[orderResult] \in PaidStatuses
    /\ window = "return" /\ windowClosed /\ isInPopup
         => order[outTradeNo] \in PaidStatuses

\* One submission at a time, as far as the flag that disables the button goes:
\* one handler sets it and every way out resets it, although the screen may
\* have changed meanwhile.  The customer has left the form for another order,
\* the administrator has left the modal and opened another (pay/page.tsx:377-464,
\* 470-512, channels/page.tsx:296-345, 421-462, subscriptions/page.tsx:446-491,
\* payment-config/page.tsx:437-471, 562-652).  The flag of the refund dialog
\* goes away with the dialog, which may be closed while its refund runs; so it
\* is only true of the dialog that is open, and an order has two refunds under
\* way only if one of them has lost its dialog (RefundDialog.tsx:100-124, 295).
\* And the answer to a customer's request for a refund, which closes the
\* dialog, finds the one it was sent from (components/OrderTable.tsx:112-131).
OneSubmissionAtATime ==
    /\ window = "pay" =>
          Cardinality({r \in requests : r.op \in {"create", "subscribe"}})
            = IF loading THEN 1 ELSE 0
    /\ \A s \in {<<"save", saving>>, <<"import", syncImporting>>,
                 <<"saveConfig", rcSaving>>} :
          Cardinality(Submissions(s[1])) = IF s[2] THEN 1 ELSE 0
    /\ Cardinality(OwnRefunds) = IF processing THEN 1 ELSE 0
    /\ \A o \in {1, 2} :
          Cardinality(RefundsOf(o)) > 1 => \E t \in RefundsOf(o) : ~t.own
    /\ Cardinality(OwnRequests) = IF submittingId # 0 THEN 1 ELSE 0
    /\ submittingId \in {0, dialogOrder}

\* However refreshing, scrolling and turning pages overlap, no page of the
\* user's list is shown twice (pay/page.tsx:193-201, 258-277); and the table
\* shows the page that the bar names, or an error, and only says that there
\* are no orders when that page is past the end (pay/orders/page.tsx:85-164).
ListsAreTrue ==
    /\ \A i, j \in 1..Len(myOrders) : i < j => myOrders[i] < myOrders[j]
    /\ listLoading
       \/ IF rows # 0 THEN rows = page ELSE listError \/ page > totalPages

\* The customer looks at a payment screen whose countdown runs while the
\* payment has arrived, or at a popup that has loaded and has no credentials
\* (one that was disturbed is given up); the administrator at a button that is
\* disabled while something is submitted, as does a customer who requests a
\* refund.
WaitsForPage ==
    \/ PayingShown /\ ~expired /\ order[orderResult] \in PaidStatuses
    \/ popup = "shown" /\ ~credentials /\ ~disturbed
    \/ window = "lists" /\ Submissions(WatchedOp[adminPage]) # {}
    \/ processing
    \/ submittingId # 0

\* Nobody waits in vain.  A customer who stays on the payment screen sees that
\* the payment has arrived, unless the countdown of the browser ends before;
\* a popup gets its credentials, in whatever order opening, reusing and
\* closing it come, unless the user reloads it or opens it again just when
\* it has called; and an administrator, or a customer who requests a
\* refund, gets every button back
\* (PaymentQRCode.tsx:308-326, 353-370; stripe-popup/page.tsx:69-83; the
\* handlers of OneSubmissionAtATime).
NobodyWaitsInVain == WaitsForPage ~> ~WaitsForPage

=============================================================================
