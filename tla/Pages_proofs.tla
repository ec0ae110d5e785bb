---------------------------- MODULE Pages_proofs ----------------------------
(***************************************************************************)
(* The windows of the browser, for any number of orders, requests, calls   *)
(* and pages and any order of answers: no outcome is shown that an order   *)
(* never had, nothing is submitted twice, and lists show what they say.    *)
(***************************************************************************)
EXTENDS Pages, FiniteSetTheorems, TLAPS

(***************************************************************************)
(* One submission: the set of those under way and the flag that disables   *)
(* the button agree, and any two of the set are the same.                  *)
(***************************************************************************)

Solo(set, flag) ==
    /\ flag \in BOOLEAN
    /\ set # {} <=> flag
    /\ \A a, b \in set : a = b

LEMMA NoneSolo == Solo({}, FALSE)
BY DEF Solo

\* What an agreement of this kind says of the number of submissions.
LEMMA SoloCounts ==
    ASSUME NEW set, NEW flag, Solo(set, flag)
    PROVE  Cardinality(set) = IF flag THEN 1 ELSE 0
<1>1. CASE flag
  <2>1. PICK a \in set : set = {a} BY <1>1 DEF Solo
  <2>2. Cardinality({a}) = 1 BY FS_Singleton
  <2> QED BY <1>1, <2>1, <2>2
<1>2. CASE ~flag
  <2>1. set = {} BY <1>2 DEF Solo
  <2> QED BY <1>2, <2>1, FS_EmptySet
<1> QED BY <1>1, <1>2 DEF Solo

(***************************************************************************)
(* The orders on the server.                                               *)
(***************************************************************************)

PendingIn(ord) == {o \in Orders : ord[o] = "PENDING"}

OrderInv ==
    /\ order \in [Orders -> Statuses \cup {"absent"}]
    /\ Cardinality(PendingIn(order)) <= MaxPending

\* How the orders may go on: each stays as it is, takes a step of its life, or
\* is created.
Advanced ==
    \A o \in Orders :
        \/ order'[o] = order[o]
        \/ <<order[o], order'[o]>> \in Advances
        \/ order[o] = "absent" /\ order'[o] = "PENDING"

\* Whatever has been true of an order since a moment stays true of it.
LEMMA SinceLasts ==
    ASSUME NEW s \in Statuses, NEW t \in Since(s), NEW u, <<t, u>> \in Advances
    PROVE  u \in Since(s)
BY DEF Since, Statuses, PaidStatuses, Advances

LEMMA SinceKnown ==
    ASSUME NEW s \in Statuses
    PROVE  s \in Since(s) /\ Since(s) \subseteq Statuses
BY DEF Since, Statuses, PaidStatuses

LEMMA OrdersFinite == IsFiniteSet(Orders)
BY FS_Interval, ServerAssumption DEF Orders

LEMMA PendingFinite ==
    ASSUME NEW ord
    PROVE  /\ IsFiniteSet(PendingIn(ord))
           /\ Cardinality(PendingIn(ord)) \in Nat
BY OrdersFinite, FS_Subset, FS_CardinalityType DEF PendingIn

\* A step of one order that leaves no more of them pending.
LEMMA OneAdvances ==
    ASSUME OrderInv, NEW o \in Orders, NEW s \in Statuses \ {"PENDING"},
           <<order[o], s>> \in Advances, order' = [order EXCEPT ![o] = s]
    PROVE  OrderInv' /\ Advanced /\ order'[o] = s
<1>1. order' \in [Orders -> Statuses \cup {"absent"}] BY DEF OrderInv
<1>2. PendingIn(order') \subseteq PendingIn(order) BY DEF OrderInv, PendingIn
<1>3. Cardinality(PendingIn(order')) <= Cardinality(PendingIn(order))
  BY <1>2, PendingFinite, FS_Subset
<1>4. Cardinality(PendingIn(order')) <= MaxPending
  BY <1>3, PendingFinite, ServerAssumption DEF OrderInv
<1> QED BY <1>1, <1>4 DEF OrderInv, Advanced

LEMMA OrdersMove ==
    ASSUME OrderInv, NEW o \in Orders, OrderMoves(o)
    PROVE  OrderInv' /\ Advanced
<1>1. PICK s \in Statuses : <<order[o], s>> \in Advances
                            /\ order' = [order EXCEPT ![o] = s]
  BY DEF OrderMoves
<1>2. s # "PENDING" BY <1>1 DEF Advances
<1> QED BY <1>1, <1>2, OneAdvances

LEMMA OrdersStay ==
    ASSUME OrderInv, UNCHANGED order
    PROVE  OrderInv' /\ Advanced
BY DEF OrderInv, Advanced

LEMMA OrdersCreated ==
    ASSUME OrderInv, NEW ans \in Orders \cup {Refused}, CreateAnswers(ans)
    PROVE  /\ OrderInv' /\ Advanced
           /\ ans # Refused => order'[ans] \in Statuses
<1>1. CASE ans = Refused /\ UNCHANGED order
  BY <1>1, OrdersStay
<1>2. CASE /\ PendingNow < MaxPending
           /\ ans \in Orders /\ order[ans] = "absent"
           /\ order' = [order EXCEPT ![ans] = "PENDING"]
  <2>1. order' \in [Orders -> Statuses \cup {"absent"}]
    BY <1>2 DEF OrderInv, Statuses
  <2>2. order'[ans] = "PENDING" /\ Advanced BY <1>2 DEF OrderInv, Advanced
  <2>3. PendingIn(order') = PendingIn(order) \cup {ans}
    BY <1>2 DEF OrderInv, PendingIn
  <2>4. ans \notin PendingIn(order) BY <1>2 DEF PendingIn
  <2>5. Cardinality(PendingIn(order')) = Cardinality(PendingIn(order)) + 1
    BY <2>3, <2>4, PendingFinite, FS_AddElement
  <2>6. Cardinality(PendingIn(order)) < MaxPending
    BY <1>2 DEF PendingNow, PendingIn
  <2>7. Cardinality(PendingIn(order')) <= MaxPending
    BY <2>5, <2>6, PendingFinite, ServerAssumption
  <2> QED BY <2>1, <2>2, <2>7 DEF OrderInv, Statuses
<1>3. PendingNow \in Nat BY PendingFinite DEF PendingNow, PendingIn
<1> QED BY <1>1, <1>2, <1>3, ServerAssumption DEF CreateAnswers, Orders, Refused

\* What an answer to a cancellation says of the order at that moment.
CancelTold(ans, was) ==
    /\ ans \in {"cancelled", "paid", "refused"}
    /\ was \in Statuses
    /\ ans = "cancelled" => was \in {"CANCELLED", "EXPIRED"}
    /\ ans = "paid" => was \in PaidStatuses

LEMMA OrderCancelled ==
    ASSUME OrderInv, NEW o \in Orders, order[o] \in Statuses,
           NEW ans \in {"cancelled", "paid", "refused"}, CancelAnswers(o, ans)
    PROVE  OrderInv' /\ Advanced /\ CancelTold(ans, order'[o])
<1>1. CASE /\ order[o] = "PENDING" /\ ans = "cancelled"
           /\ order' = [order EXCEPT ![o] = "CANCELLED"]
  <2>1. "CANCELLED" \in Statuses \ {"PENDING"} /\ <<order[o], "CANCELLED">> \in Advances
    BY <1>1 DEF Statuses, Advances
  <2>2. OrderInv' /\ Advanced /\ order'[o] = "CANCELLED"
    BY <1>1, <2>1, OneAdvances
  <2> QED BY <1>1, <2>2 DEF CancelTold, Statuses
<1>2. CASE UNCHANGED order /\ CancelTold(ans, order[o])
  BY <1>2, OrdersStay
<1> QED BY <1>1, <1>2 DEF CancelAnswers, CancelTold, Statuses, PaidStatuses

(***************************************************************************)
(* What a page was told.                                                   *)
(***************************************************************************)

TrueIn(ord, snap) ==
    /\ snap \in Snapshots
    /\ ord[snap.id] \in Since(snap.was)
    /\ \/ snap.status = snap.was
       \/ snap.status = "CANCELLED" /\ snap.was = "EXPIRED"

\* A true answer stays true while the orders go on.
LEMMA TruthLasts ==
    ASSUME OrderInv, Advanced, NEW snap, TrueIn(order, snap)
    PROVE  TrueIn(order', snap)
<1>1. snap.id \in Orders /\ snap.was \in Statuses BY DEF TrueIn, Snapshots
<1>2. order[snap.id] \in Since(snap.was) /\ order[snap.id] # "absent"
  BY <1>1, SinceKnown DEF TrueIn, Statuses, PaidStatuses
<1>3. order'[snap.id] \in Since(snap.was)
  BY <1>1, <1>2, SinceLasts DEF Advanced
<1> QED BY <1>3 DEF TrueIn

\* And so do an order's existence and its payment.
LEMMA StatusLasts ==
    ASSUME OrderInv, Advanced, NEW o \in Orders
    PROVE  /\ order[o] \in Statuses => order'[o] \in Statuses
           /\ order[o] \in PaidStatuses => order'[o] \in PaidStatuses
           /\ \A s \in Statuses : order[o] \in Since(s) => order'[o] \in Since(s)
<1>1. order[o] \in Statuses => order'[o] \in Statuses
  BY DEF Advanced, Advances, Statuses, PaidStatuses
<1>2. order[o] \in PaidStatuses => order'[o] \in PaidStatuses
  BY DEF Advanced, Advances, PaidStatuses
<1>3. ASSUME NEW s \in Statuses, order[o] \in Since(s)
      PROVE  order'[o] \in Since(s)
  <2>1. order[o] # "absent" BY <1>3, SinceKnown DEF Statuses, PaidStatuses
  <2> QED BY <1>3, <2>1, SinceLasts DEF Advanced
<1> QED BY <1>1, <1>2, <1>3

LEMMA SnapshotsAreTrue ==
    ASSUME OrderInv, NEW o \in Orders, order[o] \in Statuses
    PROVE  TrueIn(order, SnapshotOf(o)) /\ SnapshotOf(o).id = o
BY SinceKnown DEF TrueIn, SnapshotOf, Told, Snapshots

\* A true snapshot is put into words that fit what the order is.
LEMMA WordsFit ==
    ASSUME NEW snap, TrueIn(order, snap)
    PROVE  WasTrue(snap, getStatusConfig(snap))
<1>1. /\ snap.id \in Orders /\ snap.was \in Statuses /\ snap.status \in Statuses
      /\ order[snap.id] \in Since(snap.was)
      /\ \/ snap.status = snap.was
         \/ snap.status = "CANCELLED" /\ snap.was = "EXPIRED"
  BY DEF TrueIn, Snapshots
<1>2. Derived(snap).rechargeSuccess <=> snap.status = "COMPLETED"
  BY DEF Derived, deriveOrderState
<1>3. Derived(snap).paymentSuccess <=> snap.status \in PaidStatuses
  BY DEF Derived, deriveOrderState
<1>4. getStatusConfig(snap) =
        IF snap.status = "COMPLETED" THEN "credited"
        ELSE IF snap.status = "PAID" THEN "received" ELSE snap.status
  BY <1>1, <1>2, <1>3 DEF getStatusConfig, Statuses, PaidStatuses
<1> QED BY <1>1, <1>4 DEF WasTrue, Since, Statuses, PaidStatuses

\* A true snapshot that says paid is one of a paid order.
LEMMA PaidIsPaid ==
    ASSUME NEW snap, TrueIn(order, snap), Derived(snap).paymentSuccess
    PROVE  order[snap.id] \in PaidStatuses
<1>1. snap.status \in PaidStatuses BY DEF Derived, deriveOrderState
<1> QED BY <1>1 DEF TrueIn, Since, PaidStatuses

(***************************************************************************)
(* The return page.                                                        *)
(***************************************************************************)

ReturnInv ==
    /\ isInPopup \in BOOLEAN
    /\ window = "return" => order[outTradeNo] \in Statuses
    /\ checks # {} => window = "return"
    /\ orderState # NoSnapshot =>
          TrueIn(order, orderState) /\ orderState.id = outTradeNo
    /\ \A c \in checks \ {Unanswered} :
          TrueIn(order, c) /\ c.id = outTradeNo /\ c # NoSnapshot
    /\ isInPopup /\ windowClosed => order[outTradeNo] \in PaidStatuses

LEMMA FirstOrder == outTradeNo \in Orders
BY ServerAssumption DEF outTradeNo, Orders

\* The orders may go on under the page.
LEMMA ReturnStands ==
    ASSUME OrderInv, ReturnInv, Advanced, UNCHANGED <<window, returnVars>>
    PROVE  ReturnInv'
<1>1. /\ order[outTradeNo] \in Statuses => order'[outTradeNo] \in Statuses
      /\ order[outTradeNo] \in PaidStatuses => order'[outTradeNo] \in PaidStatuses
  BY FirstOrder, StatusLasts
<1>2. orderState # NoSnapshot =>
        TrueIn(order', orderState) /\ orderState.id = outTradeNo
  BY TruthLasts DEF ReturnInv
<1>3. \A c \in checks \ {Unanswered} :
        TrueIn(order', c) /\ c.id = outTradeNo /\ c # NoSnapshot
  BY TruthLasts DEF ReturnInv
<1> QED BY <1>1, <1>2, <1>3 DEF ReturnInv, returnVars, outTradeNo, NoSnapshot, Unanswered

LEMMA ReturnKeeps ==
    ASSUME OrderInv, ReturnInv, window = "return", UNCHANGED window, ReturnNext
    PROVE  OrderInv' /\ Advanced /\ ReturnInv'
<1> USE DEF Unanswered, NoSnapshot, outTradeNo
<1>1. ASSUME NEW o \in Orders, OrderMoves(o), UNCHANGED returnVars
      PROVE  OrderInv' /\ Advanced /\ ReturnInv'
  BY <1>1, OrdersMove, ReturnStands
<1>2. CASE CheckAnswered
  <2>1. TrueIn(order, SnapshotOf(outTradeNo)) /\ SnapshotOf(outTradeNo).id = outTradeNo
    BY FirstOrder, SnapshotsAreTrue DEF ReturnInv
  <2>2. SnapshotOf(outTradeNo) # NoSnapshot BY DEF SnapshotOf, Told
  <2> QED BY <1>2, <2>1, <2>2, OrdersStay DEF CheckAnswered, ReturnInv
<1>3. CASE closeCurrentWindow
  <2>1. order[outTradeNo] \in PaidStatuses
    BY <1>3, PaidIsPaid DEF closeCurrentWindow, shouldAutoClose, ReturnInv
  <2> QED BY <1>3, <2>1, OrdersStay DEF closeCurrentWindow, ReturnInv
<1>4. CASE checkOrder BY <1>4, OrdersStay DEF checkOrder, ReturnInv
<1>5. CASE goBack BY <1>5, OrdersStay DEF goBack, ReturnInv
<1>6. CASE PollingEnds BY <1>6, OrdersStay DEF PollingEnds, ReturnInv
<1>7. ASSUME NEW c \in checks, CheckReceived(c)
      PROVE  OrderInv' /\ Advanced /\ ReturnInv'
  BY <1>7, OrdersStay DEF CheckReceived, ReturnInv
<1>8. ASSUME NEW c \in checks, CheckFails(c)
      PROVE  OrderInv' /\ Advanced /\ ReturnInv'
  BY <1>8, OrdersStay DEF CheckFails, ReturnInv
<1> QED BY <1>1, <1>2, <1>3, <1>4, <1>5, <1>6, <1>7, <1>8 DEF ReturnNext

(***************************************************************************)
(* The Stripe popup.                                                       *)
(***************************************************************************)

PopupInv ==
    /\ popup \in {"closed", "loading", "shown", "blocked"}
    /\ credentials \in BOOLEAN
    /\ credentials => popup = "shown"
    /\ paying # "no" => credentials

LEMMA PopupKeeps ==
    ASSUME PopupInv, PopupNext
    PROVE  PopupInv'
<1> USE DEF PopupInv
<1>1. CASE handleOpenPopup
  <2>1. CASE popup' = "loading" /\ credentials' = FALSE /\ paying' = "no"
    BY <2>1
  <2>2. CASE /\ popup \in {"closed", "blocked"} /\ popup' = "blocked"
             /\ UNCHANGED <<credentials, paying>>
    <3>1. ~credentials /\ paying = "no" BY <2>2
    <3>2. credentials' = FALSE /\ paying' = "no" BY <2>2, <3>1
    <3> QED BY <2>2, <3>2
  <2> QED BY <1>1, <2>1, <2>2 DEF handleOpenPopup
<1>2. CASE PopupLoaded BY <1>2 DEF PopupLoaded
<1>3. CASE onReady BY <1>3 DEF onReady
<1>4. CASE InitReceived BY <1>4 DEF InitReceived
<1>5. CASE ConfirmPayment BY <1>5 DEF ConfirmPayment
<1>6. CASE PaymentConfirmed BY <1>6 DEF PaymentConfirmed
<1>7. CASE ReloadPopup BY <1>7 DEF ReloadPopup
<1>8. CASE ClosePopup BY <1>8 DEF ClosePopup
<1> QED BY <1>1, <1>2, <1>3, <1>4, <1>5, <1>6, <1>7, <1>8 DEF PopupNext

(***************************************************************************)
(* The administrator's orders.  Only a request for a refund is the         *)
(* dialog's own, and only while its dialog is open.                        *)
(***************************************************************************)

TaskOK(t) ==
    t \in [op : {"orders", "retry", "balance", "refund"}, about : 1..2,
           nr : {t.nr}, own : BOOLEAN]

AdminOrdersInv ==
    /\ \A t \in tasks : TaskOK(t)
    /\ statusFilter \in 1..2 /\ refundOrder \in 0..2
    /\ \A t \in tasks : t.op # "refund" => ~t.own
    /\ Solo(OwnRefunds, processing)
    /\ processing => refundOrder # 0

\* A dialog that closes leaves its requests behind.
LEMMA OrphansHaveNoDialog ==
    ASSUME NEW set, \A t \in set : TaskOK(t)
    PROVE  \A t \in Orphaned(set) : TaskOK(t) /\ ~t.own
<1>1. ASSUME NEW t \in set, NEW n \in BOOLEAN, n = FALSE
      PROVE  TaskOK([t EXCEPT !.own = n]) /\ [t EXCEPT !.own = n].own = n
  BY <1>1 DEF TaskOK
<1> QED BY <1>1 DEF Orphaned

\* A task that is no request for a refund changes nothing for the dialog.
LEMMA RefundTask ==
    ASSUME NEW op \in {"refund"}, NEW about \in 1..2
    PROVE  /\ TaskOK(Task(op, about)) /\ Task(op, about).op = "refund"
           /\ Task(op, about).own
BY DEF Task, TaskOK

LEMMA OtherTasks ==
    ASSUME NEW op \in {"orders", "retry", "balance"}, NEW about \in 1..2
    PROVE  TaskOK(Task(op, about)) /\ ~Task(op, about).own
BY DEF Task, TaskOK

\* The dialog's own request that ends takes the flag with it.
LEMMA OwnTaskEnds ==
    ASSUME AdminOrdersInv, NEW t \in tasks, tasks' = tasks \ {t},
           processing' = (processing /\ ~t.own),
           UNCHANGED <<statusFilter, refundOrder>>
    PROVE  AdminOrdersInv'
<1>1. t.own \in BOOLEAN BY DEF AdminOrdersInv, TaskOK
<1>2. CASE ~t.own
  <2>1. OwnRefunds' = OwnRefunds BY <1>2 DEF OwnRefunds
  <2>2. processing' = processing BY <1>2 DEF AdminOrdersInv, Solo
  <2> QED BY <2>1, <2>2 DEF AdminOrdersInv
<1>3. CASE t.own
  <2>1. t \in OwnRefunds BY <1>3 DEF OwnRefunds
  <2>2. OwnRefunds' = {} BY <2>1 DEF OwnRefunds, AdminOrdersInv, Solo
  <2>3. processing' = FALSE BY <1>3
  <2> QED BY <2>2, <2>3, NoneSolo DEF AdminOrdersInv
<1> QED BY <1>1, <1>2, <1>3

LEMMA DialogGone ==
    ASSUME AdminOrdersInv, \A u \in tasks' : TaskOK(u) /\ ~u.own,
           processing' = FALSE, refundOrder' = 0, UNCHANGED statusFilter
    PROVE  AdminOrdersInv'
<1>1. OwnRefunds' = {} BY DEF OwnRefunds
<1>2. Solo(OwnRefunds', processing') BY <1>1, NoneSolo
<1>3. /\ \A u \in tasks' : TaskOK(u)
      /\ statusFilter' \in 1..2 /\ refundOrder' \in 0..2
      /\ \A u \in tasks' : u.op # "refund" => ~u.own
      /\ processing' => refundOrder' # 0
  BY DEF AdminOrdersInv
<1> QED BY <1>2, <1>3 DEF AdminOrdersInv

LEMMA AdminOrdersKeeps ==
    ASSUME AdminOrdersInv, AdminOrdersNext
    PROVE  AdminOrdersInv'
<1> USE DEF AdminOrdersInv, OwnRefunds, Solo
<1>1. CASE fetchOrders
  <2>1. statusFilter' \in 1..2 BY <1>1 DEF fetchOrders, Filters
  <2>2. TaskOK(Task("orders", statusFilter'))
        /\ ~Task("orders", statusFilter').own
    BY <2>1, OtherTasks
  <2> QED BY <1>1, <2>1, <2>2 DEF fetchOrders
<1>2. CASE handleConfirmRefund
  <2>1. OwnRefunds = {} BY <1>2 DEF handleConfirmRefund
  <2>2. /\ TaskOK(Task("refund", refundOrder))
        /\ Task("refund", refundOrder).op = "refund"
        /\ Task("refund", refundOrder).own
    BY <1>2, RefundTask DEF handleConfirmRefund
  <2> QED BY <1>2, <2>1, <2>2 DEF handleConfirmRefund
<1>3. CASE onCancel
  <2>1. \A u \in tasks' : TaskOK(u) /\ ~u.own
    BY <1>3, OrphansHaveNoDialog DEF onCancel
  <2>2. processing' = FALSE /\ refundOrder' = 0 /\ UNCHANGED statusFilter
    BY <1>3 DEF onCancel
  <2> QED BY <2>1, <2>2, DialogGone
<1>4. ASSUME NEW o \in {1, 2}, handleRetry(o) PROVE AdminOrdersInv'
  <2>1. TaskOK(Task("retry", o)) /\ ~Task("retry", o).own BY OtherTasks
  <2> QED BY <1>4, <2>1 DEF handleRetry
<1>5. ASSUME NEW o \in {1, 2}, handleRefund(o) PROVE AdminOrdersInv'
  <2>1. TaskOK(Task("balance", o)) /\ ~Task("balance", o).own BY OtherTasks
  <2> QED BY <1>5, <2>1 DEF handleRefund
<1>6. ASSUME NEW t \in tasks, TaskEnds(t) PROVE AdminOrdersInv'
  <2>1. CASE OrdersListed(t) BY <2>1 DEF OrdersListed
  <2>2. CASE Retried(t)
    <3>1. PICK f \in Filters : tasks' = (tasks \ {t}) \cup {Task("orders", f)}
      BY <2>2 DEF Retried
    <3>2. TaskOK(Task("orders", f)) /\ ~Task("orders", f).own
      BY OtherTasks DEF Filters
    <3> QED BY <2>2, <3>1, <3>2 DEF Retried
  <2>3. CASE BalanceReceived(t) BY <2>3 DEF BalanceReceived
  <2>4. CASE ForceRequired(t)
    <3>1. tasks' = tasks \ {t} /\ processing' = (processing /\ ~t.own)
          /\ UNCHANGED <<statusFilter, refundOrder>>
      BY <2>4 DEF ForceRequired
    <3> QED BY <3>1, OwnTaskEnds
  <2>5. CASE Refunded(t)
    <3>1. PICK f \in Filters :
            tasks' = Orphaned(tasks \ {t}) \cup {Task("orders", f)}
      BY <2>5 DEF Refunded
    <3>2. TaskOK(Task("orders", f)) /\ ~Task("orders", f).own
      BY OtherTasks DEF Filters
    <3>3. \A u \in tasks' : TaskOK(u) /\ ~u.own
      BY <3>1, <3>2, OrphansHaveNoDialog
    <3>4. processing' = FALSE /\ refundOrder' = 0 /\ UNCHANGED statusFilter
      BY <2>5 DEF Refunded
    <3> QED BY <3>3, <3>4, DialogGone
  <2>6. CASE TaskFails(t)
    <3>1. tasks' = tasks \ {t} /\ processing' = (processing /\ ~t.own)
          /\ UNCHANGED <<statusFilter, refundOrder>>
      BY <2>6 DEF TaskFails
    <3> QED BY <3>1, OwnTaskEnds
  <2> QED BY <1>6, <2>1, <2>2, <2>3, <2>4, <2>5, <2>6 DEF TaskEnds
<1> QED BY <1>1, <1>2, <1>3, <1>4, <1>5, <1>6 DEF AdminOrdersNext

(***************************************************************************)
(* The customer's page of orders.                                          *)
(***************************************************************************)

\* A table that is not loading shows the page of the bar, or says why not.
TableShows ==
    listLoading \/ IF rows # 0 THEN rows = page ELSE listError \/ page > totalPages

TableTypes ==
    /\ stored \in 0..SmallPages /\ page \in 1..SmallPages /\ pageSize \in Sizes
    /\ totalPages \in 0..SmallPages /\ rows \in 0..SmallPages
    /\ listLoading \in BOOLEAN /\ listError \in BOOLEAN

LoadOK(l) == l.op \in {"list", "refund", "reload"} /\ l.page \in 1..SmallPages

DialogInv ==
    /\ Solo(OwnRequests, submittingId # 0)
    /\ submittingId \in {0, dialogOrder}

TableInv ==
    /\ TableTypes
    /\ TableShows
    /\ \A l \in loads : LoadOK(l)
    /\ DialogInv

\* What a load that begins adds.
LEMMA LoadsBegin ==
    ASSUME NEW op, NEW p, NEW size, NEW set, Begin(op, p, size, set)
    PROVE  \E new : /\ new.op = op /\ new.page = p
                    /\ loads' = set \cup {new}
BY DEF Begin, Load

\* A reload of the list that has nothing to do with the dialog.
LEMMA ListBegins ==
    ASSUME TableInv, NEW p \in 1..SmallPages, NEW size, UNCHANGED dialog,
           Begin("list", p, size, loads)
    PROVE  /\ TableShows' /\ listLoading' \in BOOLEAN /\ listError' \in BOOLEAN
           /\ \A l \in loads' : LoadOK(l)
           /\ DialogInv'
<1>1. PICK new : new.op = "list" /\ new.page = p /\ loads' = loads \cup {new}
  BY LoadsBegin
<1>2. listLoading' = TRUE /\ listError' = FALSE BY DEF Begin
<1>3. OwnRequests' = OwnRequests BY <1>1 DEF OwnRequests
<1>4. \A l \in loads' : LoadOK(l) BY <1>1 DEF TableInv, LoadOK
<1> QED BY <1>2, <1>3, <1>4 DEF TableInv, TableShows, DialogInv, dialog

\* A part of a refund request that ends takes the flag with it.
LEMMA DialogEnds ==
    ASSUME TableInv, NEW l \in loads, loads' = loads \ {l}
    PROVE  /\ \A k \in loads' : LoadOK(k)
           /\ l.op = "list" /\ UNCHANGED dialog => DialogInv'
           /\ l.op # "list" /\ dialogOrder' = 0 /\ submittingId' = 0 => DialogInv'
<1>1. \A k \in loads' : LoadOK(k) BY DEF TableInv
<1>2. l.op = "list" => OwnRequests' = OwnRequests BY DEF OwnRequests
<1>3. l.op # "list" => OwnRequests' = {}
  BY DEF OwnRequests, TableInv, LoadOK, DialogInv, Solo
<1>5. ASSUME l.op = "list", UNCHANGED dialog PROVE DialogInv'
  BY <1>2, <1>5 DEF TableInv, DialogInv, dialog
<1>6. ASSUME l.op # "list", dialogOrder' = 0, submittingId' = 0 PROVE DialogInv'
  BY <1>3, <1>6, NoneSolo DEF DialogInv
<1> QED BY <1>1, <1>5, <1>6

LEMMA TableKeeps ==
    ASSUME TableInv, MyOrdersNext
    PROVE  TableInv'
<1> USE TableAssumption DEF TableTypes
<1>1. CASE refreshOrders BY <1>1, ListBegins DEF refreshOrders, TableInv
<1>2. CASE handlePageChange
  <2>1. page' \in 1..SmallPages BY <1>2 DEF handlePageChange, BarPages, TableInv
  <2> QED BY <1>2, <2>1, ListBegins DEF handlePageChange, TableInv
<1>3. CASE handlePageSizeChange
  BY <1>3, ListBegins DEF handlePageSizeChange, TableInv
<1>4. CASE closeRefundDialog
  <2>1. submittingId = 0 BY <1>4 DEF closeRefundDialog, TableInv, DialogInv
  <2> QED BY <1>4, <2>1
          DEF closeRefundDialog, TableInv, TableShows, DialogInv, OwnRequests, table
<1>5. CASE handleRefundRequest
  <2>1. PICK new : new.op = "refund" /\ new.page = page /\ loads' = loads \cup {new}
    BY <1>5, LoadsBegin DEF handleRefundRequest
  <2>2. OwnRequests = {}
    BY <1>5 DEF handleRefundRequest, TableInv, DialogInv, Solo
  <2>3. OwnRequests' = {new} BY <2>1, <2>2 DEF OwnRequests
  <2>4. Solo(OwnRequests, submittingId # 0)'
    BY <1>5, <2>3 DEF Solo, handleRefundRequest
  <2>5. \A l \in loads' : LoadOK(l) BY <2>1 DEF TableInv, LoadOK
  <2> QED BY <1>5, <2>4, <2>5
          DEF handleRefundRequest, Begin, TableInv, TableShows, DialogInv
<1>6. ASSUME NEW o \in {1, 2}, openRefundDialog(o) PROVE TableInv'
  BY <1>6 DEF openRefundDialog, TableInv, TableShows, DialogInv, OwnRequests, table
<1>7. ASSUME NEW l \in loads, Loaded(l) PROVE TableInv'
  <2>1. l.page \in 1..SmallPages BY DEF TableInv, LoadOK
  <2>2. /\ RowsOf(l.page, l.size) \in 0..SmallPages
        /\ PagesOf(l.size) \in 0..SmallPages
        /\ IF RowsOf(l.page, l.size) # 0 THEN RowsOf(l.page, l.size) = l.page
           ELSE l.page > PagesOf(l.size)
    BY <2>1 DEF RowsOf, PagesOf, TableInv
  <2>3. TableTypes' /\ TableShows'
    BY <1>7, <2>1, <2>2 DEF Loaded, TableInv, TableShows
  <2> QED BY <1>7, <2>3, DialogEnds DEF Loaded, DialogAfter, TableInv
<1>8. ASSUME NEW l \in loads, LoadFails(l) PROVE TableInv'
  <2>1. listError' = TRUE /\ UNCHANGED <<stored, page, pageSize, totalPages>>
    BY <1>8 DEF LoadFails
  <2>2. \/ UNCHANGED <<rows, listLoading>>
        \/ rows' = 0 /\ listLoading' = FALSE
    BY <1>8 DEF LoadFails
  <2>3. rows' = 0 \/ UNCHANGED rows BY <2>2
  <2>4. TableShows'
    <3>1. CASE rows' = 0 BY <3>1, <2>1 DEF TableShows
    <3>2. CASE rows' # 0
      <4>1. UNCHANGED <<rows, listLoading, page>> BY <2>1, <2>2, <3>2
      <4> QED BY <4>1, <3>2 DEF TableInv, TableShows
    <3> QED BY <3>1, <3>2
  <2>5. listLoading' \in BOOLEAN BY <2>2 DEF TableInv
  <2>6. TableTypes' BY <2>1, <2>3, <2>5 DEF TableInv
  <2> QED BY <1>8, <2>4, <2>6, DialogEnds DEF LoadFails, DialogAfter, TableInv
<1>9. ASSUME NEW l \in loads, RefundAccepted(l) PROVE TableInv'
  <2>1. PICK new : /\ new.op = "reload" /\ new.page = l.page
                   /\ loads' = (loads \ {l}) \cup {new}
    BY <1>9, LoadsBegin DEF RefundAccepted
  <2>2. OwnRequests' = {new}
    BY <1>9, <2>1 DEF RefundAccepted, OwnRequests, TableInv, DialogInv, Solo
  <2>3. l \in OwnRequests BY <1>9 DEF RefundAccepted, OwnRequests
  <2>4. DialogInv'
    BY <1>9, <2>2, <2>3 DEF RefundAccepted, TableInv, DialogInv, Solo, dialog
  <2>5. \A k \in loads' : LoadOK(k) BY <2>1 DEF TableInv, LoadOK
  <2> QED BY <1>9, <2>4, <2>5 DEF RefundAccepted, Begin, TableInv, TableShows
<1> QED BY <1>1, <1>2, <1>3, <1>4, <1>5, <1>6, <1>7, <1>8, <1>9
        DEF MyOrdersNext, LoadEnds

(***************************************************************************)
(* The administrator's lists.  Three kinds of calls are submissions, each  *)
(* with its flag.                                                          *)
(***************************************************************************)

Submitting == {"save", "import", "saveConfig"}

OtherCalls == {"fetch", "config", "delete", "toggle", "groups", "defaults", "create"}

CallTypes ==
    [op : Submitting \cup OtherCalls,
     with : {"none", "new", "edit", "on", "off", "create"},
     reply : {"waiting", "ok", "absent", "on", "off"}, nr : Nat]

CallOK(c) ==
    /\ c \in CallTypes
    /\ c.op = "toggle" => c.with \in {"on", "off"}
    /\ c.op = "fetch" /\ c.reply # "waiting" => c.reply \in RowStates

FlagsInv ==
    /\ Solo(Submissions("save"), saving)
    /\ Solo(Submissions("import"), syncImporting)
    /\ Solo(Submissions("saveConfig"), rcSaving)

RowsInv ==
    /\ row \in RowStates /\ shownRow \in RowStates
    /\ modal \in {"closed", "new", "edit", "groups", "selected"}
    /\ rcOverrideEnv \in BOOLEAN /\ rcOverrideSaved \in BOOLEAN
    /\ rcOverrideSaved => rcOverrideEnv

ListInv ==
    /\ RowsInv
    /\ \A c \in calls : CallOK(c)
    /\ FlagsInv

\* A call that is no submission.
LEMMA OtherCallOK ==
    ASSUME NEW op \in OtherCalls,
           NEW with \in {"none", "new", "edit", "on", "off", "create"},
           op = "toggle" => with \in {"on", "off"}
    PROVE  CallOK(Call(op, with)) /\ Call(op, with).op = op
BY DEF OtherCalls, Submitting, Call, CallOK, CallTypes

LEMMA OtherStarts ==
    ASSUME ListInv, NEW op \in OtherCalls,
           NEW with \in {"none", "new", "edit", "on", "off", "create"},
           op = "toggle" => with \in {"on", "off"}, Start(op, with),
           UNCHANGED adminFlags
    PROVE  (\A c \in calls' : CallOK(c)) /\ FlagsInv'
<1>1. CallOK(Call(op, with)) /\ Call(op, with).op = op BY OtherCallOK
<1>2. calls' = calls \cup {Call(op, with)} BY DEF Start
<1>3. ASSUME NEW o \in Submitting PROVE Submissions(o)' = Submissions(o)
  BY <1>1, <1>2, <1>3 DEF Submissions, Submitting, OtherCalls
<1>4. Submissions("save")' = Submissions("save") BY <1>3 DEF Submitting
<1>5. Submissions("import")' = Submissions("import") BY <1>3 DEF Submitting
<1>6. Submissions("saveConfig")' = Submissions("saveConfig") BY <1>3 DEF Submitting
<1>7. \A c \in calls' : CallOK(c) BY <1>1, <1>2 DEF ListInv
<1> QED BY <1>4, <1>5, <1>6, <1>7 DEF ListInv, FlagsInv, adminFlags

\* A submission starts when none of its kind is under way.
LEMMA SubmissionStarts ==
    ASSUME ListInv, NEW op \in Submitting, NEW with \in {"none", "new", "edit", "on", "off"},
           Start(op, with), Submissions(op) = {}
    PROVE  /\ \A c \in calls' : CallOK(c)
           /\ Solo(Submissions(op)', TRUE)
           /\ \A o \in Submitting \ {op} : Submissions(o)' = Submissions(o)
<1>1. Call(op, with) = [op |-> op, with |-> with, reply |-> "waiting", nr |-> 0]
  BY FS_EmptySet DEF Call, Submitting
<1>2. calls' = calls \cup {Call(op, with)} BY DEF Start
<1>3. CallOK(Call(op, with)) BY <1>1 DEF CallOK, CallTypes, Submitting, OtherCalls
<1>4. Call(op, with).op = op BY <1>1
<1>5. Submissions(op)' = {Call(op, with)} BY <1>2, <1>4 DEF Submissions
<1>6. \A o \in Submitting \ {op} : Submissions(o)' = Submissions(o)
  BY <1>2, <1>4 DEF Submissions
<1>7. Solo({Call(op, with)}, TRUE) BY DEF Solo
<1> QED BY <1>2, <1>3, <1>5, <1>6, <1>7 DEF ListInv

\* An answer does not end a call.
LEMMA CallAnswered ==
    ASSUME ListInv, NEW c \in calls,
           NEW reply \in {"ok", "absent", "on", "off"},
           c.op = "fetch" => reply \in RowStates,
           Answer(c, reply), UNCHANGED adminFlags
    PROVE  (\A k \in calls' : CallOK(k)) /\ FlagsInv'
<1> DEFINE d == [c EXCEPT !.reply = reply]
<1>1. CallOK(c) BY DEF ListInv
<1>2. d.op = c.op /\ CallOK(d) BY <1>1 DEF CallOK, CallTypes
<1>3. calls' = (calls \ {c}) \cup {d} BY DEF Answer
<1> HIDE DEF d
<1>4. ASSUME NEW o, NEW flag, Solo(Submissions(o), flag)
      PROVE  Solo(Submissions(o)', flag)
  <2>1. CASE c.op = o
    <3>1. Submissions(o) = {c} /\ flag BY <1>4, <2>1 DEF Solo, Submissions
    <3>2. Submissions(o)' = {d} BY <1>2, <1>3, <2>1, <3>1 DEF Submissions
    <3> QED BY <1>4, <3>1, <3>2 DEF Solo
  <2>2. CASE c.op # o
    <3>1. Submissions(o)' = Submissions(o) BY <1>2, <1>3, <2>2 DEF Submissions
    <3> QED BY <1>4, <3>1
  <2> QED BY <2>1, <2>2
<1>5. \A k \in calls' : CallOK(k) BY <1>2, <1>3 DEF ListInv
<1> QED BY <1>4, <1>5 DEF ListInv, FlagsInv, adminFlags

\* The end of a call resets the flag of its kind.
FlagEnds(op, c, flag, next) == next = IF c.op = op THEN FALSE ELSE flag

LEMMA CallEnds ==
    ASSUME ListInv, NEW c \in calls, NEW more, Then(c, more),
           \A m \in more : CallOK(m) /\ m.op \in OtherCalls,
           FlagEnds("save", c, saving, saving'),
           FlagEnds("import", c, syncImporting, syncImporting'),
           FlagEnds("saveConfig", c, rcSaving, rcSaving')
    PROVE  (\A k \in calls' : CallOK(k)) /\ FlagsInv'
<1>1. calls' = (calls \ {c}) \cup more BY DEF Then
<1>2. ASSUME NEW o \in Submitting, NEW flag, NEW next, Solo(Submissions(o), flag),
             FlagEnds(o, c, flag, next)
      PROVE  Solo(Submissions(o)', next)
  <2>1. \A m \in more : m.op # o BY DEF Submitting, OtherCalls
  <2>2. Submissions(o)' = Submissions(o) \ {c} BY <1>1, <2>1 DEF Submissions
  <2>3. CASE c.op = o
    <3>1. Submissions(o)' = {} BY <1>2, <2>2, <2>3 DEF Solo, Submissions
    <3>2. next = FALSE BY <1>2, <2>3 DEF FlagEnds
    <3> QED BY <3>1, <3>2, NoneSolo
  <2>4. CASE c.op # o
    <3>1. Submissions(o)' = Submissions(o) BY <2>2, <2>4 DEF Submissions
    <3>2. next = flag BY <1>2, <2>4 DEF FlagEnds
    <3> QED BY <1>2, <3>1, <3>2
  <2> QED BY <2>3, <2>4
<1>3. \A k \in calls' : CallOK(k) BY <1>1 DEF ListInv
<1> QED BY <1>2, <1>3 DEF ListInv, FlagsInv, Submitting

LEMMA OtherEnds ==
    ASSUME ListInv, NEW c \in calls, c.op \in OtherCalls, NEW more, Then(c, more),
           \A m \in more : CallOK(m) /\ m.op \in OtherCalls,
           UNCHANGED adminFlags
    PROVE  (\A k \in calls' : CallOK(k)) /\ FlagsInv'
<1>1. /\ FlagEnds("save", c, saving, saving')
      /\ FlagEnds("import", c, syncImporting, syncImporting')
      /\ FlagEnds("saveConfig", c, rcSaving, rcSaving')
  BY DEF FlagEnds, adminFlags, OtherCalls
<1> QED BY <1>1, CallEnds

LEMMA ListStarts ==
    ASSUME ListInv,
           \/ fetchChannels \/ openEditModal \/ handleSave \/ handleDelete
           \/ handleToggleEnabled \/ openSyncModal \/ toggleSyncGroup
           \/ handleSyncImport
           \/ fetchPlans \/ openEdit \/ savePlan \/ deletePlan \/ togglePlan
           \/ openEditInstance \/ saveInstance \/ handleDeleteInstance
           \/ toggleInstanceEnabled \/ handleOverrideEnvToggle \/ saveConfig
           \/ closeModal
    PROVE  ListInv'
<1>1. CASE Refresh
  <2>1. "fetch" \in OtherCalls BY DEF OtherCalls
  <2> QED BY <1>1, <2>1, OtherStarts DEF Refresh, ListInv, RowsInv, override
<1>2. CASE OpenForm
  BY <1>2 DEF OpenForm, ListInv, RowsInv, FlagsInv, Submissions, override, adminFlags
<1>3. CASE SaveForm
  <2>0. /\ "save" \in Submitting /\ Submissions("save") = {}
        /\ modal \in {"new", "edit"} /\ Start("save", modal)
    BY <1>3 DEF SaveForm, ListInv, FlagsInv, Solo, Submitting
  <2>1. /\ \A c \in calls' : CallOK(c)
        /\ Solo(Submissions("save")', TRUE)
        /\ \A o \in Submitting \ {"save"} : Submissions(o)' = Submissions(o)
    BY <2>0, SubmissionStarts
  <2>2. /\ Submissions("import")' = Submissions("import")
        /\ Submissions("saveConfig")' = Submissions("saveConfig")
    BY <2>1 DEF Submitting
  <2> QED BY <1>3, <2>1, <2>2 DEF SaveForm, ListInv, RowsInv, FlagsInv, override
<1>4. CASE DeleteRow
  <2>1. "delete" \in OtherCalls BY DEF OtherCalls
  <2> QED BY <1>4, <2>1, OtherStarts DEF DeleteRow, ListInv, RowsInv, override
<1>5. CASE ToggleRow
  <2>1. "toggle" \in OtherCalls BY DEF OtherCalls
  <2>2. (IF shownRow = "on" THEN "off" ELSE "on") \in {"on", "off"} OBVIOUS
  <2> QED BY <1>5, <2>1, <2>2, OtherStarts DEF ToggleRow, ListInv, RowsInv, override
<1>6. CASE openSyncModal
  <2>1. "groups" \in OtherCalls BY DEF OtherCalls
  <2> QED BY <1>6, <2>1, OtherStarts DEF openSyncModal, ListInv, RowsInv, override
<1>7. CASE toggleSyncGroup
  BY <1>7 DEF toggleSyncGroup, ListInv, RowsInv, FlagsInv, Submissions, override,
              adminFlags
<1>8. CASE handleSyncImport
  <2>0. /\ "import" \in Submitting /\ Submissions("import") = {}
        /\ Start("import", "none")
    BY <1>8 DEF handleSyncImport, ListInv, FlagsInv, Solo, Submitting
  <2>1. /\ \A c \in calls' : CallOK(c)
        /\ Solo(Submissions("import")', TRUE)
        /\ \A o \in Submitting \ {"import"} : Submissions(o)' = Submissions(o)
    BY <2>0, SubmissionStarts
  <2>2. /\ Submissions("save")' = Submissions("save")
        /\ Submissions("saveConfig")' = Submissions("saveConfig")
    BY <2>1 DEF Submitting
  <2> QED BY <1>8, <2>1, <2>2 DEF handleSyncImport, ListInv, RowsInv, FlagsInv, override
<1>9. CASE handleOverrideEnvToggle
  <2>1. "defaults" \in OtherCalls BY DEF OtherCalls
  <2>2. (IF shownRow = "absent" THEN "create" ELSE "none") \in {"none", "create"}
    OBVIOUS
  <2> QED BY <1>9, <2>1, <2>2, OtherStarts DEF handleOverrideEnvToggle, ListInv, RowsInv
<1>10. CASE saveConfig
  <2>1. PICK with \in {"on", "off"} : Start("saveConfig", with)
    BY <1>10 DEF saveConfig
  <2>0. /\ "saveConfig" \in Submitting /\ Submissions("saveConfig") = {}
    BY <1>10 DEF saveConfig, ListInv, FlagsInv, Solo, Submitting
  <2>2. /\ \A c \in calls' : CallOK(c)
        /\ Solo(Submissions("saveConfig")', TRUE)
        /\ \A o \in Submitting \ {"saveConfig"} : Submissions(o)' = Submissions(o)
    BY <2>0, <2>1, SubmissionStarts
  <2>3. /\ Submissions("save")' = Submissions("save")
        /\ Submissions("import")' = Submissions("import")
    BY <2>2 DEF Submitting
  <2> QED BY <1>10, <2>2, <2>3 DEF saveConfig, ListInv, RowsInv, FlagsInv, override
<1>11. CASE closeModal
  BY <1>11 DEF closeModal, ListInv, RowsInv, FlagsInv, Submissions, override,
               adminFlags
<1> QED
  BY <1>1, <1>2, <1>3, <1>4, <1>5, <1>6, <1>7, <1>8, <1>9, <1>10, <1>11
  DEF fetchChannels, openEditModal, handleSave, handleDelete, handleToggleEnabled,
      fetchPlans, openEdit, savePlan, deletePlan, togglePlan, openEditInstance,
      saveInstance, handleDeleteInstance, toggleInstanceEnabled

LEMMA ListReplies ==
    ASSUME ListInv, NEW c \in calls, AdminReplied(c)
    PROVE  ListInv'
<1>1. CallOK(c) BY DEF ListInv
<1>2. UNCHANGED <<shownRow, modal, adminFlags, override>>
  BY DEF AdminReplied, override
<1>3. CASE Writes(c)
  <2>1. row' \in RowStates
    BY <1>1, <1>3 DEF Writes, CallOK, RowStates, ListInv, RowsInv, Creates
  <2>2. (\A k \in calls' : CallOK(k)) /\ FlagsInv'
    BY <1>2, <1>3, CallAnswered DEF Writes
  <2> QED BY <1>2, <2>1, <2>2 DEF ListInv, RowsInv, override
<1>4. CASE Reads(c)
  <2>1. (\A k \in calls' : CallOK(k)) /\ FlagsInv'
    <3>1. CASE c.op = "fetch" /\ Answer(c, row)
      BY <1>2, <3>1, CallAnswered DEF ListInv, RowsInv, RowStates
    <3>2. ASSUME NEW on \in {"on", "off"}, c.op = "config", Answer(c, on)
          PROVE  (\A k \in calls' : CallOK(k)) /\ FlagsInv'
      BY <1>2, <3>2, CallAnswered
    <3>3. CASE c.op # "fetch" /\ Answer(c, "ok")
      BY <1>2, <3>3, CallAnswered
    <3> QED BY <1>4, <3>1, <3>2, <3>3 DEF Reads
  <2> QED BY <1>2, <1>4, <2>1 DEF Reads, ListInv, RowsInv, override
<1> QED BY <1>3, <1>4 DEF AdminReplied

LEMMA FetchIsOther == CallOK(fetchList) /\ fetchList.op \in OtherCalls
BY OtherCallOK DEF fetchList, OtherCalls

LEMMA ListReceives ==
    ASSUME ListInv, NEW c \in calls, AdminReceives(c)
    PROVE  ListInv'
<1> USE DEF FlagEnds
<1>1. CallOK(c) /\ c.reply # "waiting" /\ UNCHANGED row
  BY DEF ListInv, AdminReceives
<1>2. CASE FetchReceived(c)
  <2>1. (\A k \in calls' : CallOK(k)) /\ FlagsInv'
    BY <1>2, OtherEnds DEF FetchReceived, OtherCalls
  <2> QED BY <1>1, <1>2, <2>1 DEF FetchReceived, ListInv, RowsInv, CallOK
<1>3. CASE ConfigReceived(c)
  <2>1. (\A k \in calls' : CallOK(k)) /\ FlagsInv'
    BY <1>3, OtherEnds DEF ConfigReceived, OtherCalls
  <2> QED BY <1>1, <1>3, <2>1 DEF ConfigReceived, ListInv, RowsInv
<1>4. CASE SaveReceived(c)
  <2>1. (\A k \in calls' : CallOK(k)) /\ FlagsInv'
    BY <1>4, CallEnds, FetchIsOther DEF SaveReceived
  <2> QED BY <1>1, <1>4, <2>1 DEF SaveReceived, ListInv, RowsInv
<1>5. CASE DeleteReceived(c)
  <2>1. (\A k \in calls' : CallOK(k)) /\ FlagsInv'
    BY <1>5, OtherEnds, FetchIsOther DEF DeleteReceived, OtherCalls
  <2> QED BY <1>1, <1>5, <2>1 DEF DeleteReceived, ListInv, RowsInv
<1>6. CASE ToggleReceived(c)
  <2>1. (\A k \in calls' : CallOK(k)) /\ FlagsInv'
    BY <1>6, OtherEnds DEF ToggleReceived, OtherCalls
  <2>2. shownRow' \in RowStates
    BY <1>1, <1>6 DEF ToggleReceived, ListInv, RowsInv, RowStates, CallOK
  <2> QED BY <1>1, <1>6, <2>1, <2>2 DEF ToggleReceived, ListInv, RowsInv
<1>7. CASE GroupsReceived(c)
  <2>1. (\A k \in calls' : CallOK(k)) /\ FlagsInv'
    BY <1>7, OtherEnds DEF GroupsReceived, OtherCalls
  <2> QED BY <1>1, <1>7, <2>1 DEF GroupsReceived, ListInv, RowsInv
<1>8. CASE ImportReceived(c)
  <2>1. (\A k \in calls' : CallOK(k)) /\ FlagsInv'
    BY <1>8, CallEnds, FetchIsOther DEF ImportReceived
  <2> QED BY <1>1, <1>8, <2>1 DEF ImportReceived, ListInv, RowsInv
<1>9. CASE DefaultsReceived(c)
  <2>1. CallOK(Call("create", "new")) /\ Call("create", "new").op \in OtherCalls
    BY OtherCallOK DEF OtherCalls
  <2>2. PICK more : Then(c, more) /\ \A m \in more : CallOK(m) /\ m.op \in OtherCalls
    BY <1>9, <2>1, FetchIsOther DEF DefaultsReceived
  <2>3. c.op \in {"defaults", "create"} /\ UNCHANGED adminFlags
    BY <1>9 DEF DefaultsReceived
  <2>4. (\A k \in calls' : CallOK(k)) /\ FlagsInv'
    BY <2>2, <2>3, OtherEnds DEF OtherCalls
  <2> QED BY <1>1, <1>9, <2>4 DEF DefaultsReceived, ListInv, RowsInv
<1>10. CASE ConfigSaved(c)
  <2>1. (\A k \in calls' : CallOK(k)) /\ FlagsInv'
    <3>1. /\ Then(c, {})
          /\ FlagEnds("save", c, saving, saving')
          /\ FlagEnds("import", c, syncImporting, syncImporting')
          /\ FlagEnds("saveConfig", c, rcSaving, rcSaving')
      BY <1>10 DEF ConfigSaved
    <3> HIDE DEF FlagEnds
    <3> QED BY <3>1, CallEnds
  <2> QED BY <1>1, <1>10, <2>1 DEF ConfigSaved, ListInv, RowsInv
<1> QED BY <1>2, <1>3, <1>4, <1>5, <1>6, <1>7, <1>8, <1>9, <1>10 DEF AdminReceives

LEMMA ListFails ==
    ASSUME ListInv, NEW c \in calls, AdminCallFails(c)
    PROVE  ListInv'
<1>1. /\ FlagEnds("save", c, saving, saving')
      /\ FlagEnds("import", c, syncImporting, syncImporting')
      /\ FlagEnds("saveConfig", c, rcSaving, rcSaving')
  BY DEF AdminCallFails, FlagEnds, ListInv, FlagsInv, Solo
<1>2. PICK more : Then(c, more) /\ \A m \in more : CallOK(m) /\ m.op \in OtherCalls
  BY FetchIsOther DEF AdminCallFails
<1>3. (\A k \in calls' : CallOK(k)) /\ FlagsInv' BY <1>1, <1>2, CallEnds
<1>4. RowsInv' BY DEF AdminCallFails, ListInv, RowsInv, override
<1> QED BY <1>3, <1>4 DEF ListInv

LEMMA ListKeeps ==
    ASSUME ListInv, ListNext
    PROVE  ListInv'
BY ListStarts, ListReplies, ListReceives, ListFails DEF ListNext

(***************************************************************************)
(* The recharge page: what is on the screen and what was answered.         *)
(***************************************************************************)

Asks == {"poll", "readToCancel", "refresh"}
Creating == {"create", "subscribe"}

ReplyTypes ==
    [id : Nat,
     status : Statuses \cup {"waiting", "created", "list", "cancelled", "paid",
                             "refused"},
     was : Statuses \cup {"none"}]

RequestTypes == [op : Ops, order : Nat, reply : ReplyTypes]

\* What an answer says was so when the server gave it.
AnswerOK(ord, r) ==
    /\ r.op \in Asks => TrueIn(ord, r.reply) /\ r.reply.id = r.order
    /\ r.op = "cancel" => /\ CancelTold(r.reply.status, r.reply.was)
                          /\ ord[r.order] \in Since(r.reply.was)
    /\ r.op \in Creating /\ r.reply.id # Refused =>
          r.reply.id \in Orders /\ ord[r.reply.id] \in Statuses
    /\ r.op = "loadOrders" => r.reply.id \in 0..MaxPending

RequestOK(ord, r) ==
    /\ r \in RequestTypes
    /\ r.op \in Asks \cup {"cancel"} =>
          r.order \in Orders /\ ord[r.order] \in Statuses
    /\ r.reply # NoReply => AnswerOK(ord, r)

\* What may be on the screen: an order that there is, and a true outcome.
ShownOK(ord, s, res, fin) ==
    /\ s \in {"none", "form", "paying", "result"}
    /\ res \in Orders \cup {NoOrder}
    /\ res # NoOrder => ord[res] \in Statuses
    /\ fin = NoState \/ TrueIn(ord, fin)

MountedInv ==
    /\ userNotFound \in BOOLEAN /\ refreshing \in BOOLEAN
    /\ expired \in BOOLEAN /\ cancelBlocked \in BOOLEAN
    /\ expired \/ cancelBlocked => PayingShown
    /\ refreshing => RefreshKey(step, orderResult, finalOrderState,
                                userNotFound) # NoOrder

ScreenInv ==
    /\ ShownOK(order, step, orderResult, finalOrderState)
    /\ MountedInv
    /\ cancelBlocked => order[orderResult] \in PaidStatuses
    /\ \A r \in requests : RequestOK(order, r)

OfKind(ops, set) == {r \in set : r.op \in ops}

LEMMA FreshRequest ==
    ASSUME NEW op \in Ops, NEW o \in Nat, NEW ord,
           op \in Asks \cup {"cancel"} => o \in Orders /\ ord[o] \in Statuses
    PROVE  RequestOK(ord, Request(op, o)) /\ Request(op, o).op = op
BY DEF Request, RequestOK, RequestTypes, ReplyTypes, NoReply, Told, NoOrder, Statuses

\* An answer stays true while the orders go on.
LEMMA RequestLasts ==
    ASSUME OrderInv, Advanced, NEW r, RequestOK(order, r)
    PROVE  RequestOK(order', r)
<1>1. r.op \in Asks \cup {"cancel"} =>
        r.order \in Orders /\ order'[r.order] \in Statuses
  BY StatusLasts DEF RequestOK
<1>2. ASSUME r.reply # NoReply PROVE AnswerOK(order', r)
  <2>1. AnswerOK(order, r) BY <1>2 DEF RequestOK
  <2>2. r.op \in Asks => TrueIn(order', r.reply) /\ r.reply.id = r.order
    BY <2>1, TruthLasts DEF AnswerOK
  <2>3. ASSUME r.op = "cancel" PROVE order'[r.order] \in Since(r.reply.was)
    <3>1. r.order \in Orders /\ r.reply.was \in Statuses
      BY <2>1, <2>3 DEF RequestOK, AnswerOK, CancelTold
    <3> QED BY <2>1, <2>3, <3>1, StatusLasts DEF AnswerOK
  <2>4. r.op \in Creating /\ r.reply.id # Refused =>
          r.reply.id \in Orders /\ order'[r.reply.id] \in Statuses
    BY <2>1, StatusLasts DEF AnswerOK
  <2> QED BY <2>1, <2>2, <2>3, <2>4 DEF AnswerOK
<1> QED BY <1>1, <1>2 DEF RequestOK

\* And so does what is on the screen.
LEMMA ShownLasts ==
    ASSUME OrderInv, ScreenInv, Advanced, UNCHANGED <<screen, mounted>>
    PROVE  /\ ShownOK(order, step, orderResult, finalOrderState)'
           /\ MountedInv'
           /\ cancelBlocked' => order'[orderResult'] \in PaidStatuses
<1>1. ShownOK(order', step, orderResult, finalOrderState)
  BY StatusLasts, TruthLasts DEF ScreenInv, ShownOK, NoOrder
<1>2. cancelBlocked => order'[orderResult] \in PaidStatuses
  <2>1. cancelBlocked => orderResult \in Orders
    BY DEF ScreenInv, MountedInv, PayingShown, ShownOK
  <2> QED BY <2>1, StatusLasts DEF ScreenInv
<1>3. MountedInv'
  BY DEF ScreenInv, MountedInv, screen, mounted, PayingShown
<1> QED BY <1>1, <1>2, <1>3 DEF screen, mounted

\* What a handler does to the screen and to the requests.
LEMMA Renders ==
    ASSUME OrderInv, ScreenInv, UNCHANGED order,
           NEW s, NEW res, NEW fin, ShownOK(order, s, res, fin),
           NEW gone \in BOOLEAN, NEW fresh \in BOOLEAN,
           NEW sent, \A r \in sent : RequestOK(order, r),
           NEW got, Render(s, res, fin, gone, sent, got, fresh)
    PROVE  /\ ScreenInv'
           /\ \A ops : ops \cap {"refresh", "loadOrders"} = {} =>
                OfKind(ops, requests') = OfKind(ops, requests \ got) \cup OfKind(ops, sent)
<1> DEFINE key == RefreshKey(step, orderResult, finalOrderState, userNotFound)
           newKey == RefreshKey(s, res, fin, gone)
           stays == PayingShown /\ s = "paying" /\ res = orderResult /\ ~gone
           reloads == /\ s = "result" /\ fin.status = "COMPLETED"
                      /\ fresh \/ step # "result"
           kept == IF newKey = key THEN requests \ got
                   ELSE {r \in requests \ got : r.op # "refresh"}
           asked == IF newKey \notin {key, NoOrder}
                    THEN {Request("refresh", res)} ELSE {}
           listed == IF reloads THEN {Request("loadOrders", NoOrder)} ELSE {}
<1>1. /\ step' = s /\ orderResult' = res /\ finalOrderState' = fin
      /\ userNotFound' = (gone /\ ~reloads)
      /\ expired' = (expired /\ stays)
      /\ cancelBlocked' = (cancelBlocked /\ stays)
      /\ refreshing' = IF newKey = key THEN refreshing ELSE newKey # NoOrder
      /\ requests' = kept \cup sent \cup asked \cup listed
  BY DEF Render
<1>2. newKey # NoOrder => newKey = res /\ res \in Orders /\ ~gone
  BY DEF RefreshKey, ShownOK, NoOrder
<1>3. \A r \in asked : RequestOK(order, r) /\ r.op = "refresh"
  BY <1>2, FreshRequest DEF ShownOK, Ops, Orders
<1>4. \A r \in listed : RequestOK(order, r) /\ r.op = "loadOrders"
  BY FreshRequest DEF Ops, Asks, NoOrder
<1>5. refreshing' => newKey # NoOrder
  BY <1>1 DEF ScreenInv, MountedInv
<1>6. userNotFound' \in BOOLEAN /\ (~gone => userNotFound' = FALSE) BY <1>1
<1>7. newKey # NoOrder =>
        RefreshKey(step', orderResult', finalOrderState', userNotFound') # NoOrder
  BY <1>1, <1>2, <1>6 DEF RefreshKey
<1>8. /\ expired' \in BOOLEAN /\ (expired' => stays)
      /\ cancelBlocked' \in BOOLEAN /\ (cancelBlocked' => cancelBlocked /\ stays)
  BY <1>1
<1>9. stays => PayingShown' BY <1>1, <1>6 DEF PayingShown
<1>10. refreshing' \in BOOLEAN BY <1>1 DEF ScreenInv, MountedInv
<1>11. MountedInv' BY <1>5, <1>6, <1>7, <1>8, <1>9, <1>10 DEF MountedInv
<1>12. cancelBlocked' => order'[orderResult'] \in PaidStatuses
  BY <1>1, <1>8 DEF ScreenInv
<1>13. \A r \in requests' : RequestOK(order', r)
  BY <1>1, <1>3, <1>4 DEF ScreenInv
<1>14. ASSUME NEW ops, ops \cap {"refresh", "loadOrders"} = {}
       PROVE  OfKind(ops, requests') = OfKind(ops, requests \ got) \cup OfKind(ops, sent)
  <2>1. OfKind(ops, kept) = OfKind(ops, requests \ got) BY <1>14 DEF OfKind
  <2>2. OfKind(ops, asked) = {} BY <1>3, <1>14 DEF OfKind
  <2>3. OfKind(ops, listed) = {} BY <1>4, <1>14 DEF OfKind
  <2> HIDE DEF kept, asked, listed
  <2> QED BY <1>1, <2>1, <2>2, <2>3 DEF OfKind
<1>15. ShownOK(order', step', orderResult', finalOrderState') BY <1>1
<1> QED BY <1>11, <1>12, <1>13, <1>14, <1>15 DEF ScreenInv

(***************************************************************************)
(* The recharge page: its submissions and its list.                        *)
(***************************************************************************)

More == {"loadMore"}

SubmitInv == Solo(OfKind(Creating, requests), loading)
MoreInv == Solo(OfKind(More, requests), ordersLoadingMore)

\* The list ends with the page it was last asked for, and what is asked for
\* lies behind it.
MyListInv ==
    /\ ordersPage \in Nat \ {0}
    /\ myOrders \in Seq(Nat)
    /\ \A i \in 1..Len(myOrders) : myOrders[i] <= ordersPage
    /\ \A i, j \in 1..Len(myOrders) : i < j => myOrders[i] < myOrders[j]
    /\ \A r \in OfKind(More, requests) : r.order > ordersPage

PayInv ==
    /\ ScreenInv
    /\ SubmitInv /\ MoreInv
    /\ MyListInv
    /\ pendingCount \in 0..MaxPending

\* The orders may go on under the page.
LEMMA PayStands ==
    ASSUME OrderInv, PayInv, Advanced, UNCHANGED payVars
    PROVE  PayInv'
<1>1. ScreenInv'
  BY ShownLasts, RequestLasts DEF PayInv, ScreenInv, payVars
<1> QED BY <1>1 DEF PayInv, payVars, SubmitInv, MoreInv, MyListInv, list, user

LEMMA Kinds ==
    /\ Creating \cap {"refresh", "loadOrders"} = {}
    /\ More \cap {"refresh", "loadOrders"} = {}
BY DEF Creating, More

\* A handler that neither starts nor ends a submission or a load of the list.
LEMMA OtherHandler ==
    ASSUME OrderInv, PayInv, UNCHANGED <<order, loading, ordersLoadingMore>>,
           NEW s, NEW res, NEW fin, ShownOK(order, s, res, fin),
           NEW gone \in BOOLEAN, NEW fresh \in BOOLEAN,
           NEW sent, \A r \in sent : RequestOK(order, r) /\ r.op \notin Creating \cup More,
           NEW got, \A r \in got : r.op \notin Creating \cup More,
           Render(s, res, fin, gone, sent, got, fresh)
    PROVE  /\ ScreenInv' /\ SubmitInv' /\ MoreInv'
           /\ OfKind(More, requests') = OfKind(More, requests)
           /\ UNCHANGED <<list, user>> => PayInv'
<1>1. ScreenInv /\ \A r \in sent : RequestOK(order, r) BY DEF PayInv
<1>2. /\ ScreenInv'
      /\ \A ops : ops \cap {"refresh", "loadOrders"} = {} =>
           OfKind(ops, requests') = OfKind(ops, requests \ got) \cup OfKind(ops, sent)
  BY <1>1, Renders
<1>3. OfKind(Creating, requests') = OfKind(Creating, requests)
  <2>1. OfKind(Creating, requests') =
          OfKind(Creating, requests \ got) \cup OfKind(Creating, sent)
    BY <1>2, Kinds
  <2> QED BY <2>1 DEF OfKind
<1>4. OfKind(More, requests') = OfKind(More, requests)
  <2>1. OfKind(More, requests') = OfKind(More, requests \ got) \cup OfKind(More, sent)
    BY <1>2, Kinds
  <2> QED BY <2>1 DEF OfKind
<1>5. SubmitInv' /\ MoreInv' BY <1>3, <1>4 DEF PayInv, SubmitInv, MoreInv
<1>6. ASSUME UNCHANGED <<list, user>> PROVE PayInv'
  BY <1>2, <1>4, <1>5, <1>6 DEF PayInv, MyListInv, list, user
<1> QED BY <1>2, <1>4, <1>5, <1>6

\* A handler that starts one, with no other under way, or ends one.
LEMMA KindStarts ==
    ASSUME NEW ops, NEW set, NEW q, OfKind(ops, set) = {}, q.op \in ops
    PROVE  Solo(OfKind(ops, set) \cup OfKind(ops, {q}), TRUE)
BY DEF OfKind, Solo

LEMMA KindEnds ==
    ASSUME NEW ops, NEW set, NEW r \in set, NEW flag, NEW next,
           Solo(OfKind(ops, set), flag),
           next = IF r.op \in ops THEN FALSE ELSE flag
    PROVE  Solo(OfKind(ops, set \ {r}), next)
<1>1. CASE r.op \in ops
  <2>1. OfKind(ops, set \ {r}) = {} BY <1>1 DEF Solo, OfKind
  <2>2. next = FALSE BY <1>1
  <2> QED BY <2>1, <2>2, NoneSolo
<1>2. CASE r.op \notin ops
  <2>1. OfKind(ops, set \ {r}) = OfKind(ops, set) BY <1>2 DEF OfKind
  <2>2. next = flag BY <1>2
  <2> QED BY <2>1, <2>2
<1> QED BY <1>1, <1>2

\* The end of request r, when the flags follow it.
Ends(r, s, res, fin, gone) ==
    \E none, got, fresh :
        /\ none = {} /\ got = {r} /\ fresh \in BOOLEAN
        /\ Render(s, res, fin, gone, none, got, fresh)

LEMMA HandlerEnds ==
    ASSUME OrderInv, PayInv, UNCHANGED order,
           NEW s, NEW res, NEW fin, ShownOK(order, s, res, fin),
           NEW gone \in BOOLEAN, NEW r \in requests,
           loading' = (IF r.op \in Creating THEN FALSE ELSE loading),
           ordersLoadingMore' = (IF r.op \in More THEN FALSE ELSE ordersLoadingMore),
           Ends(r, s, res, fin, gone)
    PROVE  /\ ScreenInv' /\ SubmitInv' /\ MoreInv'
           /\ OfKind(More, requests') = OfKind(More, requests \ {r})
<1>1. /\ ScreenInv'
      /\ \A ops : ops \cap {"refresh", "loadOrders"} = {} =>
           OfKind(ops, requests') = OfKind(ops, requests \ {r}) \cup OfKind(ops, {})
  <2>1. PICK none, got, fresh :
          /\ none = {} /\ got = {r} /\ fresh \in BOOLEAN
          /\ Render(s, res, fin, gone, none, got, fresh)
    BY DEF Ends
  <2>2. ScreenInv /\ \A q \in none : RequestOK(order, q) BY <2>1 DEF PayInv
  <2>3. /\ ScreenInv'
        /\ \A ops : ops \cap {"refresh", "loadOrders"} = {} =>
             OfKind(ops, requests') = OfKind(ops, requests \ got) \cup OfKind(ops, none)
    BY <2>1, <2>2, Renders
  <2> QED BY <2>1, <2>3
<1>2. \A ops : OfKind(ops, {}) = {} BY DEF OfKind
<1>3. OfKind(Creating, requests') = OfKind(Creating, requests \ {r})
  BY <1>1, <1>2, Kinds
<1>4. OfKind(More, requests') = OfKind(More, requests \ {r})
  BY <1>1, <1>2, Kinds
<1>5. SubmitInv' BY <1>3, KindEnds DEF PayInv, SubmitInv
<1>6. MoreInv' BY <1>4, KindEnds DEF PayInv, MoreInv
<1> QED BY <1>1, <1>4, <1>5, <1>6

\* The handlers that leave the screen as it is, or go back to the form.
LEMMA Stays ==
    ASSUME NEW sent, NEW got, Stay(sent, got)
    PROVE  \E fresh \in BOOLEAN :
              Render(step, orderResult, finalOrderState, userNotFound, sent, got, fresh)
<1> DEFINE fresh == FALSE
<1>1. fresh \in BOOLEAN OBVIOUS
<1>2. Render(step, orderResult, finalOrderState, userNotFound, sent, got, fresh)
  BY DEF Stay
<1> HIDE DEF fresh
<1> QED BY <1>1, <1>2

LEMMA StayEnds ==
    ASSUME NEW r, Stay({}, {r})
    PROVE  Ends(r, step, orderResult, finalOrderState, userNotFound)
<1> DEFINE none == {}
           got == {r}
<1>1. Stay(none, got) /\ none = {} /\ got = {r} OBVIOUS
<1> HIDE DEF none, got
<1>2. PICK fresh \in BOOLEAN :
        Render(step, orderResult, finalOrderState, userNotFound, none, got, fresh)
  BY <1>1, Stays
<1> QED BY <1>1, <1>2 DEF Ends

LEMMA RenderEnds ==
    ASSUME NEW r, NEW s, NEW res, NEW fin, NEW gone,
           Render(s, res, fin, gone, {}, {r}, FALSE)
    PROVE  Ends(r, s, res, fin, gone)
<1> DEFINE none == {}
           got == {r}
           fresh == FALSE
<1>1. /\ none = {} /\ got = {r} /\ fresh \in BOOLEAN
      /\ Render(s, res, fin, gone, none, got, fresh)
  OBVIOUS
<1> HIDE DEF none, got, fresh
<1> QED BY <1>1 DEF Ends

LEMMA Outcomes ==
    ASSUME NEW snap, NEW got, handleStatusChange(snap, got)
    PROVE  \E fresh \in BOOLEAN :
              Render("result", orderResult, snap, userNotFound, {}, got, fresh)
<1> DEFINE fresh == TRUE
<1>1. fresh \in BOOLEAN OBVIOUS
<1>2. Render("result", orderResult, snap, userNotFound, {}, got, fresh)
  BY DEF handleStatusChange
<1> HIDE DEF fresh
<1> QED BY <1>1, <1>2

LEMMA OtherStay ==
    ASSUME OrderInv, PayInv, UNCHANGED <<order, loading, ordersLoadingMore>>,
           NEW sent, \A r \in sent : RequestOK(order, r) /\ r.op \notin Creating \cup More,
           NEW got, \A r \in got : r.op \notin Creating \cup More,
           Stay(sent, got)
    PROVE  /\ ScreenInv' /\ SubmitInv' /\ MoreInv'
           /\ OfKind(More, requests') = OfKind(More, requests)
           /\ UNCHANGED <<list, user>> => PayInv'
<1>1. PICK fresh \in BOOLEAN :
        Render(step, orderResult, finalOrderState, userNotFound, sent, got, fresh)
  BY Stays
<1>2. /\ ShownOK(order, step, orderResult, finalOrderState)
      /\ userNotFound \in BOOLEAN
  BY DEF PayInv, ScreenInv, MountedInv
<1> QED BY <1>1, <1>2, OtherHandler

\* A request about an order, sent by a handler that stays.
LEMMA AskStays ==
    ASSUME OrderInv, PayInv, UNCHANGED <<order, loading, list, user>>,
           NEW op \in Asks \cup {"cancel"}, NEW o \in Orders, order[o] \in Statuses,
           NEW got, \A r \in got : r.op \notin Creating \cup More,
           Stay({Request(op, o)}, got)
    PROVE  PayInv'
<1>1. RequestOK(order, Request(op, o)) /\ Request(op, o).op = op
  BY FreshRequest DEF Orders, Ops, Asks
<1>2. op \notin Creating \cup More BY DEF Creating, More, Asks
<1>3. UNCHANGED ordersLoadingMore BY DEF list
<1> QED BY <1>1, <1>2, <1>3, OtherStay

\* What is known of an order that a screen shows.
LEMMA ShownOrder ==
    ASSUME PayInv
    PROVE  /\ orderResult # NoOrder => orderResult \in Orders
                                       /\ order[orderResult] \in Statuses
           /\ PayingShown => orderResult # NoOrder
           /\ refreshing => orderResult # NoOrder
BY DEF PayInv, ScreenInv, ShownOK, MountedInv, RefreshKey, PayingShown

LEMMA BackToForm ==
    ASSUME OrderInv, PayInv, UNCHANGED <<order, loading, list, user>>,
           Render("form", NoOrder, NoState, userNotFound, {}, {}, FALSE)
    PROVE  PayInv'
<1> DEFINE none == {}
           fresh == FALSE
<1>1. /\ Render("form", NoOrder, NoState, userNotFound, none, none, fresh)
      /\ fresh \in BOOLEAN /\ none = {}
  OBVIOUS
<1> HIDE DEF none, fresh
<1>2. ShownOK(order, "form", NoOrder, NoState) /\ userNotFound \in BOOLEAN
  BY DEF ShownOK, PayInv, ScreenInv, MountedInv
<1>3. UNCHANGED ordersLoadingMore BY DEF list
<1> QED BY <1>1, <1>2, <1>3, OtherHandler

\* The clicks and the timers.
LEMMA SubmitKeeps ==
    ASSUME OrderInv, PayInv, NEW op \in {"create", "subscribe"}, handleSubmit(op)
    PROVE  PayInv'
<1> DEFINE q == Request(op, NoOrder)
           sent == {q}
           got == {}
<1>1. RequestOK(order, q) /\ q.op = op
  BY FreshRequest DEF Ops, Asks, NoOrder
<1>2. PICK fresh \in BOOLEAN :
        Render(step, orderResult, finalOrderState, userNotFound, sent, got, fresh)
  BY Stays DEF handleSubmit
<1>3. /\ ShownOK(order, step, orderResult, finalOrderState)
      /\ userNotFound \in BOOLEAN /\ ScreenInv /\ UNCHANGED order
  BY DEF PayInv, ScreenInv, MountedInv, handleSubmit
<1>4. \A r \in sent : RequestOK(order, r) BY <1>1
<1> HIDE DEF sent, got, q
<1>5. /\ ScreenInv'
      /\ \A ops : ops \cap {"refresh", "loadOrders"} = {} =>
           OfKind(ops, requests') = OfKind(ops, requests \ got) \cup OfKind(ops, sent)
  BY <1>2, <1>3, <1>4, Renders
<1>6. \A ops : ops \cap {"refresh", "loadOrders"} = {} =>
           OfKind(ops, requests') = OfKind(ops, requests) \cup OfKind(ops, {q})
  BY <1>5 DEF sent, got
<1>7. OfKind(Creating, requests) = {}
  BY DEF PayInv, SubmitInv, Solo, handleSubmit
<1>8. SubmitInv'
  <2>1. op \in Creating BY DEF Creating
  <2>2. Solo(OfKind(Creating, requests) \cup OfKind(Creating, {q}), TRUE)
    BY <1>1, <1>7, <2>1, KindStarts
  <2>3. loading' = TRUE BY DEF handleSubmit
  <2> QED BY <1>6, <2>2, <2>3, Kinds DEF SubmitInv
<1>9. OfKind(More, requests') = OfKind(More, requests)
  <2>1. OfKind(More, {q}) = {} BY <1>1 DEF OfKind, More
  <2> QED BY <1>6, <2>1, Kinds
<1> QED BY <1>5, <1>8, <1>9
        DEF handleSubmit, PayInv, MoreInv, MyListInv, list, user

LEMMA LoadMoreKeeps ==
    ASSUME OrderInv, PayInv, loadMoreOrders
    PROVE  PayInv'
<1> DEFINE q == Request("loadMore", ordersPage + 1)
           sent == {q}
           got == {}
<1>0. ordersPage \in Nat \ {0} BY DEF PayInv, MyListInv
<1>1. RequestOK(order, q) /\ q.op = "loadMore" /\ q.order = ordersPage + 1
  <2>1. "loadMore" \in Ops /\ "loadMore" \notin Asks \cup {"cancel"} BY DEF Ops, Asks
  <2>2. ordersPage + 1 \in Nat BY <1>0
  <2>3. q.order = ordersPage + 1 BY DEF Request
  <2> QED BY <2>1, <2>2, <2>3, FreshRequest
<1>2. PICK fresh \in BOOLEAN :
        Render(step, orderResult, finalOrderState, userNotFound, sent, got, fresh)
  BY Stays DEF loadMoreOrders
<1>3. /\ ShownOK(order, step, orderResult, finalOrderState)
      /\ userNotFound \in BOOLEAN /\ ScreenInv /\ UNCHANGED order
  BY DEF PayInv, ScreenInv, MountedInv, loadMoreOrders
<1>4. \A r \in sent : RequestOK(order, r) BY <1>1
<1> HIDE DEF sent, got, q
<1>5. /\ ScreenInv'
      /\ \A ops : ops \cap {"refresh", "loadOrders"} = {} =>
           OfKind(ops, requests') = OfKind(ops, requests \ got) \cup OfKind(ops, sent)
  BY <1>2, <1>3, <1>4, Renders
<1>6. \A ops : ops \cap {"refresh", "loadOrders"} = {} =>
           OfKind(ops, requests') = OfKind(ops, requests) \cup OfKind(ops, {q})
  BY <1>5 DEF sent, got
<1>7. OfKind(More, requests) = {}
  BY DEF PayInv, MoreInv, Solo, loadMoreOrders
<1>8. MoreInv'
  <2>1. Solo(OfKind(More, requests) \cup OfKind(More, {q}), TRUE)
    BY <1>1, <1>7, KindStarts DEF More
  <2>2. ordersLoadingMore' = TRUE BY DEF loadMoreOrders
  <2> QED BY <1>6, <2>1, <2>2, Kinds DEF MoreInv
<1>9. OfKind(Creating, requests') = OfKind(Creating, requests)
  <2>1. OfKind(Creating, {q}) = {} BY <1>1 DEF OfKind, Creating
  <2> QED BY <1>6, <2>1, Kinds
<1>10. \A r \in OfKind(More, requests') : r.order > ordersPage
  <2>1. OfKind(More, requests') \subseteq {q} BY <1>6, <1>7, Kinds DEF OfKind
  <2> QED BY <1>0, <1>1, <2>1
<1> QED BY <1>5, <1>8, <1>9, <1>10
        DEF loadMoreOrders, PayInv, SubmitInv, MyListInv, user

LEMMA RefreshListKeeps ==
    ASSUME OrderInv, PayInv, loadUserAndOrders
    PROVE  PayInv'
<1> DEFINE sent == {Request("loadOrders", NoOrder)}
           got == {}
<1>1. \A r \in sent : RequestOK(order, r) /\ r.op \notin Creating \cup More
  BY FreshRequest DEF Ops, Asks, NoOrder, Creating, More
<1>2. \A r \in got : r.op \notin Creating \cup More OBVIOUS
<1>3. Stay(sent, got) BY DEF loadUserAndOrders
<1> HIDE DEF sent, got
<1> QED BY <1>1, <1>2, <1>3, OtherStay DEF loadUserAndOrders, list

LEMMA AsksKeep ==
    ASSUME OrderInv, PayInv, handleCancel \/ pollStatus \/ refreshOrder
    PROVE  PayInv'
<1> DEFINE got == {}
<1>1. /\ orderResult \in Orders /\ order[orderResult] \in Statuses
      /\ UNCHANGED <<order, loading, list, user>>
  BY ShownOrder DEF handleCancel, pollStatus, refreshOrder
<1>2. PICK op \in Asks : Stay({Request(op, orderResult)}, got)
  BY DEF handleCancel, pollStatus, refreshOrder, Asks
<1>3. \A r \in got : r.op \notin Creating \cup More OBVIOUS
<1> HIDE DEF got
<1> QED BY <1>1, <1>2, <1>3, AskStays

LEMMA ClocksKeep ==
    ASSUME OrderInv, PayInv, updateTimer \/ RefreshingEnds
    PROVE  PayInv'
<1>1. /\ UNCHANGED <<order, screen, cancelBlocked, list, loading, user, requests>>
      /\ \/ expired' = TRUE /\ PayingShown /\ UNCHANGED refreshing
         \/ refreshing' = FALSE /\ UNCHANGED expired
  BY DEF updateTimer, RefreshingEnds
<1>2. MountedInv'
  <2>1. MountedInv BY DEF PayInv, ScreenInv
  <2>2. CASE expired' = TRUE /\ PayingShown /\ UNCHANGED refreshing
    BY <1>1, <2>1, <2>2 DEF MountedInv, screen, PayingShown
  <2>3. CASE refreshing' = FALSE /\ UNCHANGED expired
    BY <1>1, <2>1, <2>3 DEF MountedInv, screen, PayingShown
  <2> QED BY <1>1, <2>2, <2>3
<1> QED BY <1>1, <1>2
        DEF PayInv, ScreenInv, screen, SubmitInv, MoreInv, MyListInv, list, user

LEMMA ClicksAndTimersKeep ==
    ASSUME OrderInv, PayInv, Clicks \/ Timers
    PROVE  PayInv'
<1>1. CASE handleBack BY <1>1, BackToForm DEF handleBack
<1>2. CASE ReturnToForm BY <1>2, BackToForm DEF ReturnToForm
<1> QED BY <1>1, <1>2, SubmitKeeps, LoadMoreKeeps, RefreshListKeeps, AsksKeep,
           ClocksKeep
        DEF Clicks, Timers

(***************************************************************************)
(* The server's side of the recharge page's requests.                      *)
(***************************************************************************)

LEMMA RequestAnswered ==
    ASSUME OrderInv, PayInv, Advanced, NEW r \in requests, NEW reply \in ReplyTypes,
           AnswerOK(order', [op |-> r.op, order |-> r.order, reply |-> reply]),
           Replied(r, reply), UNCHANGED <<screen, mounted, list, loading, user>>
    PROVE  PayInv'
<1> DEFINE d == [op |-> r.op, order |-> r.order, reply |-> reply]
<1>1. RequestOK(order, r) /\ r \in RequestTypes
  BY DEF PayInv, ScreenInv, RequestOK
<1>2. [r EXCEPT !.reply = reply] = d /\ d \in RequestTypes
      /\ d.op = r.op /\ d.order = r.order /\ d.reply = reply
  BY <1>1 DEF RequestTypes
<1>3. requests' = (requests \ {r}) \cup {d} BY <1>2 DEF Replied
<1>4. RequestOK(order', d)
  <2>1. RequestOK(order', r) BY <1>1, RequestLasts
  <2> QED BY <1>2, <2>1 DEF RequestOK
<1> HIDE DEF d
<1>5. ScreenInv'
  <2>1. \A q \in requests' : RequestOK(order', q)
    BY <1>3, <1>4, RequestLasts DEF PayInv, ScreenInv
  <2>2. ScreenInv BY DEF PayInv
  <2> QED BY <2>1, <2>2, ShownLasts DEF ScreenInv
<1>6. ASSUME NEW ops, NEW flag, Solo(OfKind(ops, requests), flag)
      PROVE  Solo(OfKind(ops, requests'), flag)
  <2>1. CASE r.op \in ops
    <3>1. OfKind(ops, requests) = {r} /\ flag BY <1>6, <2>1 DEF Solo, OfKind
    <3>2. OfKind(ops, requests') = {d} BY <1>2, <1>3, <2>1, <3>1 DEF OfKind
    <3> QED BY <1>6, <3>1, <3>2 DEF Solo
  <2>2. CASE r.op \notin ops
    <3>1. OfKind(ops, requests') = OfKind(ops, requests)
      BY <1>2, <1>3, <2>2 DEF OfKind
    <3> QED BY <1>6, <3>1
  <2> QED BY <2>1, <2>2
<1>7. SubmitInv' /\ MoreInv'
  BY <1>6 DEF PayInv, SubmitInv, MoreInv, list
<1>8. \A q \in OfKind(More, requests') : q.order > ordersPage
  BY <1>2, <1>3 DEF PayInv, MyListInv, OfKind
<1> QED BY <1>5, <1>7, <1>8 DEF PayInv, MyListInv, list, user

LEMMA ServerKeeps ==
    ASSUME OrderInv, PayInv, NEW r \in requests, ServerReplies(r)
    PROVE  OrderInv' /\ Advanced /\ PayInv'
<1>1. RequestOK(order, r) BY DEF PayInv, ScreenInv
<1>2. UNCHANGED <<screen, mounted, list, loading, user>> BY DEF ServerReplies
<1> DEFINE d(reply) == [op |-> r.op, order |-> r.order, reply |-> reply]
<1>3. ASSUME r.op \in Creating, NEW ans \in Orders \cup {Refused},
             CreateAnswers(ans), Replied(r, Told(ans, "created", "none"))
      PROVE  OrderInv' /\ Advanced /\ PayInv'
  <2>1. OrderInv' /\ Advanced /\ (ans # Refused => order'[ans] \in Statuses)
    BY <1>3, OrdersCreated
  <2>2. Told(ans, "created", "none") \in ReplyTypes /\ Told(ans, "created", "none").id = ans
    BY DEF Told, ReplyTypes, Orders, Refused
  <2>3. AnswerOK(order', d(Told(ans, "created", "none")))
    BY <1>3, <2>1, <2>2 DEF AnswerOK, Creating, Asks
  <2> QED BY <1>2, <1>3, <2>1, <2>2, <2>3, RequestAnswered
<1>4. ASSUME r.op \in Asks, Replied(r, SnapshotOf(r.order)), UNCHANGED order
      PROVE  OrderInv' /\ Advanced /\ PayInv'
  <2>1. OrderInv' /\ Advanced BY <1>4, OrdersStay
  <2>2. TrueIn(order, SnapshotOf(r.order)) /\ SnapshotOf(r.order).id = r.order
    BY <1>1, <1>4, SnapshotsAreTrue DEF RequestOK
  <2>3. SnapshotOf(r.order) \in ReplyTypes
    BY <2>2 DEF TrueIn, Snapshots, ReplyTypes, Orders
  <2>4. AnswerOK(order', d(SnapshotOf(r.order)))
    BY <1>4, <2>2 DEF AnswerOK, Creating, Asks
  <2> QED BY <1>2, <1>4, <2>1, <2>3, <2>4, RequestAnswered
<1>5. ASSUME r.op = "cancel", NEW ans \in {"cancelled", "paid", "refused"},
             CancelAnswers(r.order, ans),
             Replied(r, Told(NoOrder, ans, order'[r.order]))
      PROVE  OrderInv' /\ Advanced /\ PayInv'
  <2> DEFINE reply == Told(NoOrder, ans, order'[r.order])
  <2>1. r.order \in Orders /\ order[r.order] \in Statuses BY <1>1, <1>5 DEF RequestOK
  <2>2. OrderInv' /\ Advanced /\ CancelTold(ans, order'[r.order])
    BY <1>5, <2>1, OrderCancelled
  <2>3. /\ reply \in ReplyTypes
        /\ reply.status = ans /\ reply.was = order'[r.order]
    BY <2>2 DEF Told, ReplyTypes, NoOrder, CancelTold
  <2>4. order'[r.order] \in Since(reply.was)
    BY <2>2, <2>3, SinceKnown DEF CancelTold
  <2>5. AnswerOK(order', d(reply))
    BY <1>5, <2>2, <2>3, <2>4 DEF AnswerOK, Creating, Asks
  <2> HIDE DEF reply
  <2>6. Replied(r, reply) BY <1>5 DEF reply
  <2> QED BY <1>2, <2>2, <2>3, <2>5, <2>6, RequestAnswered
<1>6. ASSUME r.op \in {"loadOrders", "loadMore"},
             Replied(r, Told(PendingNow, "list", "none")), UNCHANGED order
      PROVE  OrderInv' /\ Advanced /\ PayInv'
  <2> DEFINE reply == Told(PendingNow, "list", "none")
  <2>1. OrderInv' /\ Advanced BY <1>6, OrdersStay
  <2>2. PendingNow \in 0..MaxPending
    BY PendingFinite, ServerAssumption DEF OrderInv, PendingNow, PendingIn
  <2>3. reply \in ReplyTypes /\ reply.id = PendingNow
    BY <2>2 DEF Told, ReplyTypes
  <2>4. AnswerOK(order', d(reply))
    BY <1>6, <2>2, <2>3 DEF AnswerOK, Creating, Asks
  <2> HIDE DEF reply
  <2>5. Replied(r, reply) BY <1>6 DEF reply
  <2> QED BY <1>2, <2>1, <2>3, <2>4, <2>5, RequestAnswered
<1> QED BY <1>3, <1>4, <1>5, <1>6 DEF ServerReplies, Creating, Asks

(***************************************************************************)
(* The continuations of the recharge page.                                 *)
(***************************************************************************)

\* An answer that has come is true, and so is the screen it leads to.
LEMMA AnswerTrue ==
    ASSUME PayInv, NEW r \in requests, r.reply # NoReply
    PROVE  RequestOK(order, r) /\ AnswerOK(order, r)
BY DEF PayInv, ScreenInv, RequestOK

LEMMA OutcomeKeeps ==
    ASSUME OrderInv, PayInv, UNCHANGED <<order, loading, list, user>>,
           NEW snap, TrueIn(order, snap),
           NEW r \in requests, r.op \notin Creating \cup More,
           handleStatusChange(snap, {r})
    PROVE  PayInv'
<1> DEFINE none == {}
           got == {r}
<1>1. PICK fresh \in BOOLEAN :
        Render("result", orderResult, snap, userNotFound, none, got, fresh)
  BY Outcomes
<1>2. ShownOK(order, "result", orderResult, snap) /\ userNotFound \in BOOLEAN
  BY DEF ShownOK, PayInv, ScreenInv, MountedInv
<1>3. /\ \A q \in none : RequestOK(order, q) /\ q.op \notin Creating \cup More
      /\ \A q \in got : q.op \notin Creating \cup More
      /\ UNCHANGED ordersLoadingMore
  BY DEF list
<1> HIDE DEF none, got
<1> QED BY <1>1, <1>2, <1>3, OtherHandler

LEMMA IgnoreKeeps ==
    ASSUME OrderInv, PayInv, UNCHANGED <<order, loading, list, user>>,
           NEW r \in requests, r.op \notin Creating \cup More,
           Stay({}, {r})
    PROVE  PayInv'
<1> DEFINE none == {}
           got == {r}
<1>1. /\ \A q \in none : RequestOK(order, q) /\ q.op \notin Creating \cup More
      /\ \A q \in got : q.op \notin Creating \cup More
      /\ UNCHANGED ordersLoadingMore /\ Stay(none, got)
  BY DEF list
<1> HIDE DEF none, got
<1> QED BY <1>1, OtherStay

LEMMA FollowUpKeeps ==
    ASSUME OrderInv, PayInv, UNCHANGED <<order, loading, list, user>>,
           NEW r \in requests, r.op \in Asks \cup {"cancel"},
           NEW op \in Asks \cup {"cancel"},
           Stay({Request(op, r.order)}, {r})
    PROVE  PayInv'
<1> DEFINE got == {r}
<1>1. r.order \in Orders /\ order[r.order] \in Statuses
  BY DEF PayInv, ScreenInv, RequestOK
<1>2. \A q \in got : q.op \notin Creating \cup More BY DEF Asks, Creating, More
<1>3. Stay({Request(op, r.order)}, got) OBVIOUS
<1> HIDE DEF got
<1> QED BY <1>1, <1>2, <1>3, AskStays

LEMMA AnswersKeep ==
    ASSUME OrderInv, PayInv, NEW r \in requests, r.reply # NoReply,
           PollReceived(r) \/ CancelRead(r) \/ CancelReceived(r)
    PROVE  PayInv'
<1>1. AnswerOK(order, r) BY AnswerTrue
<1>2. UNCHANGED <<order, loading, list, user>>
  BY DEF PollReceived, CancelRead, CancelReceived
<1>3. r.op \in {"poll", "readToCancel", "cancel"} /\ r.op \in Asks \cup {"cancel"}
      /\ r.op \notin Creating \cup More
  BY DEF PollReceived, CancelRead, CancelReceived, Asks, Creating, More
<1>4. CASE PollReceived(r)
  <2>1. TrueIn(order, r.reply) BY <1>1, <1>4 DEF PollReceived, AnswerOK, Asks
  <2> QED BY <1>2, <1>3, <1>4, <2>1, OutcomeKeeps, IgnoreKeeps DEF PollReceived
<1>5. CASE CancelRead(r)
  <2>1. TrueIn(order, r.reply) BY <1>1, <1>5 DEF CancelRead, AnswerOK, Asks
  <2> QED BY <1>2, <1>3, <1>5, <2>1, OutcomeKeeps, FollowUpKeeps DEF CancelRead
<1>6. CASE CancelReceived(r)
  <2>1. /\ r.op = "cancel" /\ CancelTold(r.reply.status, r.reply.was)
        /\ order[r.order] \in Since(r.reply.was)
        /\ r.order \in Orders
    BY <1>1, <1>6, AnswerTrue DEF CancelReceived, AnswerOK, RequestOK
  <2>2. CASE r.reply.status = "cancelled"
    <3> DEFINE snap == Told(r.order, "CANCELLED", r.reply.was)
    <3>1. TrueIn(order, snap)
      BY <2>1, <2>2 DEF TrueIn, Told, Snapshots, CancelTold, Statuses
    <3>2. handleStatusChange(snap, {r}) BY <1>6, <2>2 DEF CancelReceived
    <3> HIDE DEF snap
    <3> QED BY <1>2, <1>3, <3>1, <3>2, OutcomeKeeps
  <2>3. CASE r.reply.status = "refused"
    <3>1. Stay({Request("poll", r.order)}, {r}) BY <1>6, <2>3 DEF CancelReceived
    <3>2. "poll" \in Asks \cup {"cancel"} BY DEF Asks
    <3> QED BY <1>2, <1>3, <3>1, <3>2, FollowUpKeeps
  <2>4. CASE r.reply.status = "paid"
    <3>1. /\ cancelBlocked' = (cancelBlocked \/ (PayingShown /\ orderResult = r.order))
          /\ requests' = requests \ {r}
          /\ UNCHANGED <<screen, expired, refreshing>>
      BY <1>6, <2>4 DEF CancelReceived
    <3>2. order[r.order] \in PaidStatuses
      BY <2>1, <2>4 DEF CancelTold, Since, PaidStatuses
    <3>3. /\ cancelBlocked' \in BOOLEAN
          /\ cancelBlocked' => cancelBlocked \/ (PayingShown /\ orderResult = r.order)
      BY <3>1
    <3>4. cancelBlocked' => order'[orderResult'] \in PaidStatuses
      BY <1>2, <3>1, <3>2, <3>3 DEF PayInv, ScreenInv, screen
    <3>5. MountedInv'
      BY <3>1, <3>3 DEF PayInv, ScreenInv, MountedInv, screen, PayingShown
    <3>6. ScreenInv'
      BY <1>2, <3>1, <3>4, <3>5 DEF PayInv, ScreenInv, screen
    <3>7. OfKind(Creating, requests') = OfKind(Creating, requests)
          /\ OfKind(More, requests') = OfKind(More, requests)
      BY <1>3, <3>1 DEF OfKind
    <3> QED BY <1>2, <3>6, <3>7
            DEF PayInv, SubmitInv, MoreInv, MyListInv, list, user
  <2>5. r.reply.status \in {"cancelled", "paid", "refused"} BY <2>1 DEF CancelTold
  <2> QED BY <2>2, <2>3, <2>4, <2>5
<1> QED BY <1>4, <1>5, <1>6

LEMMA CreatedKeeps ==
    ASSUME OrderInv, PayInv, NEW r \in requests, r.reply # NoReply, OrderCreated(r)
    PROVE  PayInv'
<1>1. AnswerOK(order, r) /\ r.op \in Creating /\ r.op \notin More
      /\ UNCHANGED <<order, list, user>> /\ UNCHANGED ordersLoadingMore
  BY AnswerTrue DEF OrderCreated, Creating, More, list
<1>2. loading' = FALSE BY DEF OrderCreated
<1>3. PICK s, res :
        /\ ShownOK(order, s, res, finalOrderState)
        /\ Ends(r, s, res, finalOrderState, userNotFound)
  <2>1. CASE r.reply.id = Refused
    <3>1. Ends(r, step, orderResult, finalOrderState, userNotFound)
      BY <2>1, StayEnds DEF OrderCreated
    <3>2. ShownOK(order, step, orderResult, finalOrderState)
      BY DEF PayInv, ScreenInv
    <3> QED BY <3>1, <3>2
  <2>2. CASE r.reply.id # Refused
    <3>1. Render("paying", r.reply.id, finalOrderState, userNotFound, {}, {r}, FALSE)
      BY <2>2 DEF OrderCreated
    <3>2. Ends(r, "paying", r.reply.id, finalOrderState, userNotFound)
      BY <3>1, RenderEnds
    <3>3. ShownOK(order, "paying", r.reply.id, finalOrderState)
      BY <1>1, <2>2 DEF AnswerOK, PayInv, ScreenInv, ShownOK, Orders
    <3> QED BY <3>2, <3>3
  <2> QED BY <2>1, <2>2
<1>4. userNotFound \in BOOLEAN BY DEF PayInv, ScreenInv, MountedInv
<1>5. /\ loading' = (IF r.op \in Creating THEN FALSE ELSE loading)
      /\ ordersLoadingMore' = (IF r.op \in More THEN FALSE ELSE ordersLoadingMore)
  BY <1>1, <1>2
<1>6. /\ ScreenInv' /\ SubmitInv' /\ MoreInv'
      /\ OfKind(More, requests') = OfKind(More, requests \ {r})
  BY <1>1, <1>3, <1>4, <1>5, HandlerEnds
<1>7. OfKind(More, requests') \subseteq OfKind(More, requests) BY <1>6 DEF OfKind
<1> QED BY <1>1, <1>6, <1>7 DEF PayInv, MyListInv, list, user

LEMMA RefreshedKeeps ==
    ASSUME OrderInv, PayInv, NEW r \in requests, r.reply # NoReply, RefreshReceived(r)
    PROVE  PayInv'
<1> DEFINE none == {}
           got == {r}
           fresh == TRUE
<1>1. /\ Render(step, orderResult, r.reply, userNotFound, none, got, fresh)
      /\ fresh \in BOOLEAN
      /\ \A q \in none : RequestOK(order, q) /\ q.op \notin Creating \cup More
      /\ \A q \in got : q.op \notin Creating \cup More
      /\ UNCHANGED <<order, loading, ordersLoadingMore, list, user>>
  BY DEF RefreshReceived, Creating, More, list
<1> HIDE DEF none, got, fresh
<1>2. TrueIn(order, r.reply) BY AnswerTrue DEF RefreshReceived, AnswerOK, Asks
<1>3. ShownOK(order, step, orderResult, r.reply) /\ userNotFound \in BOOLEAN
  BY <1>2 DEF ShownOK, PayInv, ScreenInv, MountedInv
<1> QED BY <1>1, <1>3, OtherHandler

LEMMA ListedKeeps ==
    ASSUME OrderInv, PayInv, NEW r \in requests, r.reply # NoReply, OrdersReceived(r)
    PROVE  PayInv'
<1> DEFINE none == {}
           got == {r}
<1>1. /\ \A q \in none : RequestOK(order, q) /\ q.op \notin Creating \cup More
      /\ \A q \in got : q.op \notin Creating \cup More
      /\ Stay(none, got) /\ UNCHANGED <<order, loading, ordersLoadingMore>>
  BY DEF OrdersReceived, Creating, More
<1> HIDE DEF none, got
<1>2. /\ ScreenInv' /\ SubmitInv' /\ MoreInv'
      /\ OfKind(More, requests') = OfKind(More, requests)
  BY <1>1, OtherStay
<1>3. pendingCount' \in 0..MaxPending
  BY AnswerTrue DEF OrdersReceived, AnswerOK
<1>4. MyListInv'
  <2>1. myOrders' = <<1>> /\ ordersPage' = 1 BY DEF OrdersReceived
  <2>2. myOrders' \in Seq(Nat) /\ Len(myOrders') = 1 /\ myOrders'[1] = 1 BY <2>1
  <2>3. \A q \in OfKind(More, requests') : q.order > ordersPage'
    <3>1. \A q \in OfKind(More, requests) : q.order \in Nat /\ q.order > ordersPage
      BY DEF PayInv, ScreenInv, MyListInv, RequestOK, RequestTypes, OfKind
    <3> QED BY <1>2, <2>1, <3>1 DEF PayInv, MyListInv
  <2> QED BY <2>1, <2>2, <2>3 DEF MyListInv
<1> QED BY <1>2, <1>3, <1>4 DEF PayInv

LEMMA MoreKeeps ==
    ASSUME OrderInv, PayInv, NEW r \in requests, r.reply # NoReply,
           MoreOrdersReceived(r)
    PROVE  PayInv'
<1>1. /\ r.op \in More /\ r.op \notin Creating
      /\ UNCHANGED <<order, loading, user>> /\ ordersLoadingMore' = FALSE
      /\ myOrders' = Append(myOrders, r.order) /\ ordersPage' = r.order
  BY DEF MoreOrdersReceived, Creating, More
<1>2. Ends(r, step, orderResult, finalOrderState, userNotFound)
  BY StayEnds DEF MoreOrdersReceived
<1>3. /\ ShownOK(order, step, orderResult, finalOrderState)
      /\ userNotFound \in BOOLEAN
  BY DEF PayInv, ScreenInv, MountedInv
<1>4. /\ loading' = (IF r.op \in Creating THEN FALSE ELSE loading)
      /\ ordersLoadingMore' = (IF r.op \in More THEN FALSE ELSE ordersLoadingMore)
  BY <1>1
<1>5. /\ ScreenInv' /\ SubmitInv' /\ MoreInv'
      /\ OfKind(More, requests') = OfKind(More, requests \ {r})
  BY <1>1, <1>2, <1>3, <1>4, HandlerEnds
<1>6. OfKind(More, requests') = {}
  BY <1>1, <1>5 DEF PayInv, MoreInv, Solo, OfKind
<1>7. r.order \in Nat /\ r.order > ordersPage
  BY <1>1 DEF PayInv, ScreenInv, MyListInv, RequestOK, RequestTypes, OfKind
<1>8. MyListInv'
  <2>1. /\ ordersPage \in Nat \ {0} /\ myOrders \in Seq(Nat)
        /\ \A i \in 1..Len(myOrders) : myOrders[i] <= ordersPage
        /\ \A i, j \in 1..Len(myOrders) : i < j => myOrders[i] < myOrders[j]
    BY DEF PayInv, MyListInv
  <2>2. /\ myOrders' \in Seq(Nat)
        /\ Len(myOrders') = Len(myOrders) + 1 /\ Len(myOrders) \in Nat
        /\ \A i \in 1..Len(myOrders) : myOrders'[i] = myOrders[i]
        /\ myOrders'[Len(myOrders) + 1] = r.order
    BY <1>1, <1>7, <2>1
  <2>3. \A i \in 1..Len(myOrders) : myOrders[i] < r.order /\ myOrders[i] \in Nat
    BY <1>7, <2>1
  <2>4. \A i \in 1..Len(myOrders') : myOrders'[i] <= r.order
    <3>1. ASSUME NEW i \in 1..Len(myOrders') PROVE myOrders'[i] <= r.order
      <4>1. i \in 1..Len(myOrders) \/ i = Len(myOrders) + 1 BY <2>2
      <4> QED BY <1>7, <2>2, <2>3, <4>1
    <3> QED BY <3>1
  <2>7. ASSUME NEW i \in 1..Len(myOrders'), NEW j \in 1..Len(myOrders'), i < j
        PROVE  myOrders'[i] < myOrders'[j]
    <3>1. i \in 1..Len(myOrders) BY <2>2, <2>7
    <3>2. CASE j = Len(myOrders) + 1 BY <2>2, <2>3, <3>1, <3>2
    <3>3. CASE j # Len(myOrders) + 1
      <4>1. j \in 1..Len(myOrders) BY <2>2, <3>3
      <4> QED BY <2>1, <2>2, <2>7, <3>1, <4>1
    <3> QED BY <3>2, <3>3
  <2>8. r.order # 0 BY <1>7, <2>1
  <2> QED BY <1>1, <1>6, <1>7, <2>2, <2>4, <2>7, <2>8 DEF MyListInv
<1> QED BY <1>1, <1>5, <1>8 DEF PayInv, user

LEMMA FailureKeeps ==
    ASSUME OrderInv, PayInv, NEW r \in requests, RequestFails(r)
    PROVE  PayInv'
<1>1. UNCHANGED <<order, myOrders, ordersPage, pendingCount>>
  BY DEF RequestFails
<1>2. /\ loading' = (loading /\ r.op \notin {"create", "subscribe"})
      /\ ordersLoadingMore' = (ordersLoadingMore /\ r.op # "loadMore")
  BY DEF RequestFails
<1>3. loading \in BOOLEAN /\ ordersLoadingMore \in BOOLEAN
  BY DEF PayInv, SubmitInv, MoreInv, Solo
<1>4. /\ loading' = (IF r.op \in Creating THEN FALSE ELSE loading)
      /\ ordersLoadingMore' = (IF r.op \in More THEN FALSE ELSE ordersLoadingMore)
  BY <1>2, <1>3 DEF Creating, More
<1>5. PICK gone \in BOOLEAN : Ends(r, step, orderResult, finalOrderState, gone)
  <2>1. CASE Stay({}, {r})
    <3>1. userNotFound \in BOOLEAN BY DEF PayInv, ScreenInv, MountedInv
    <3> QED BY <2>1, <3>1, StayEnds
  <2>2. CASE Render(step, orderResult, finalOrderState, TRUE, {}, {r}, FALSE)
    <3> DEFINE gone == TRUE
    <3>1. gone \in BOOLEAN
          /\ Render(step, orderResult, finalOrderState, gone, {}, {r}, FALSE)
      BY <2>2
    <3> HIDE DEF gone
    <3> QED BY <3>1, RenderEnds
  <2> QED BY <2>1, <2>2 DEF RequestFails
<1>6. ShownOK(order, step, orderResult, finalOrderState) BY DEF PayInv, ScreenInv
<1>7. /\ ScreenInv' /\ SubmitInv' /\ MoreInv'
      /\ OfKind(More, requests') = OfKind(More, requests \ {r})
  BY <1>1, <1>4, <1>5, <1>6, HandlerEnds
<1>8. OfKind(More, requests') \subseteq OfKind(More, requests) BY <1>7 DEF OfKind
<1> QED BY <1>1, <1>7, <1>8 DEF PayInv, MyListInv

(***************************************************************************)
(* The recharge page: whose outcome the result screen shows.               *)
(***************************************************************************)

ShownKey == RefreshKey(step, orderResult, finalOrderState, userNotFound)

\* Whose outcome may be shown on the screen of an order.
Known(o, res) == res # NoOrder => o \in {res} \cup late

AboutInv ==
    /\ step = "result" /\ finalOrderState # NoState
         => Known(finalOrderState.id, orderResult)
    /\ \A r \in requests : r.op \in Asking => Known(r.order, orderResult)
    /\ \A r \in requests : r.op = "refresh" => r.order = ShownKey

\* A request that may be sent from the screen that is shown.
MaySend(r) ==
    /\ r.op \in Asking => Known(r.order, orderResult)
    /\ r.op = "refresh" => r.order = ShownKey

LEMMA CompletedIsCredited ==
    ASSUME NEW fin, fin.status = "COMPLETED"
    PROVE  Derived(fin).rechargeSuccess
BY DEF Derived, deriveOrderState

\* Nothing is sent by a handler that changes the screen.
LEMMA AboutRenders ==
    ASSUME AboutInv, NEW s, NEW res, NEW fin, NEW gone \in BOOLEAN,
           NEW fresh \in BOOLEAN, NEW sent, NEW got,
           \A r \in sent : /\ MaySend(r) /\ res = orderResult
                            /\ RefreshKey(s, res, fin, gone) = ShownKey,
           s = "result" /\ fin # NoState /\ res # NoOrder =>
              res = orderResult /\ Known(fin.id, res),
           Render(s, res, fin, gone, sent, got, fresh)
    PROVE  AboutInv'
<1> DEFINE newKey == RefreshKey(s, res, fin, gone)
           reloads == /\ s = "result" /\ fin.status = "COMPLETED"
                      /\ fresh \/ step # "result"
           kept == IF newKey = ShownKey THEN requests \ got
                   ELSE {r \in requests \ got : r.op # "refresh"}
           asked == IF newKey \notin {ShownKey, NoOrder}
                    THEN {Request("refresh", res)} ELSE {}
           listed == IF reloads THEN {Request("loadOrders", NoOrder)} ELSE {}
<1>1. /\ step' = s /\ orderResult' = res /\ finalOrderState' = fin
      /\ late' = IF res = orderResult THEN late
                 ELSE IF res = NoOrder THEN {}
                 ELSE {r.order : r \in {q \in requests : q.op \in Asking}}
      /\ userNotFound' = (gone /\ ~reloads)
      /\ requests' = kept \cup sent \cup asked \cup listed
  BY DEF Render, ShownKey
<1>2. newKey = NoOrder \/ newKey = res BY DEF RefreshKey
<1>3. ShownKey' = newKey
  <2>1. CASE reloads
    <3>1. Derived(fin).rechargeSuccess BY <2>1, CompletedIsCredited
    <3> QED BY <1>1, <3>1 DEF ShownKey, RefreshKey
  <2>2. CASE ~reloads
    <3>1. userNotFound' = gone BY <1>1, <2>2
    <3> QED BY <1>1, <3>1 DEF ShownKey
  <2> QED BY <2>1, <2>2
<1>4. /\ \A r \in kept : r \in requests /\ (r.op = "refresh" => newKey = ShownKey)
      /\ \A r \in asked : r.op = "refresh" /\ r.order = res /\ newKey # NoOrder
      /\ \A r \in listed : r.op = "loadOrders"
  BY DEF Request
<1> HIDE DEF newKey, kept, asked, listed, reloads
<1>5. ASSUME NEW r \in requests', r.op = "refresh" PROVE r.order = ShownKey'
  <2>1. CASE r \in kept BY <1>3, <1>4, <1>5, <2>1 DEF AboutInv
  <2>2. CASE r \in sent BY <1>3, <1>5, <2>2 DEF MaySend, newKey
  <2>3. CASE r \in asked BY <1>2, <1>3, <1>4, <2>3
  <2>4. CASE r \in listed BY <1>4, <1>5, <2>4
  <2> QED BY <1>1, <2>1, <2>2, <2>3, <2>4
<1>6. ASSUME NEW r \in requests', r.op \in Asking PROVE Known(r.order, orderResult)'
  <2>1. CASE r \in kept
    BY <1>1, <1>4, <1>6, <2>1 DEF AboutInv, Known
  <2>2. CASE r \in sent BY <1>1, <1>6, <2>2 DEF MaySend, Known
  <2>3. r \notin asked /\ r \notin listed BY <1>4, <1>6 DEF Asking
  <2> QED BY <1>1, <2>1, <2>2, <2>3
<1>7. step' = "result" /\ finalOrderState' # NoState
        => Known(finalOrderState.id, orderResult)'
  BY <1>1 DEF Known
<1> QED BY <1>5, <1>6, <1>7 DEF AboutInv

\* The three forms in which handlers use it.
LEMMA AboutStays ==
    ASSUME AboutInv, userNotFound \in BOOLEAN,
           NEW sent, NEW got, \A r \in sent : MaySend(r), Stay(sent, got)
    PROVE  AboutInv'
<1>1. PICK fresh \in BOOLEAN :
        Render(step, orderResult, finalOrderState, userNotFound, sent, got, fresh)
  BY Stays
<1>2. step = "result" /\ finalOrderState # NoState
        => Known(finalOrderState.id, orderResult)
  BY DEF AboutInv
<1> QED BY <1>1, <1>2, AboutRenders DEF ShownKey

LEMMA AboutAnswers ==
    ASSUME AboutInv, userNotFound \in BOOLEAN, NEW r \in requests,
           NEW snap, snap.id = r.order, r.op \in Asking,
           handleStatusChange(snap, {r})
    PROVE  AboutInv'
<1> DEFINE none == {}
           got == {r}
<1>1. PICK fresh \in BOOLEAN :
        Render("result", orderResult, snap, userNotFound, none, got, fresh)
  BY Outcomes
<1>2. Known(snap.id, orderResult) BY DEF AboutInv
<1>3. \A q \in none : /\ MaySend(q)
                       /\ RefreshKey("result", orderResult, snap, userNotFound) = ShownKey
  OBVIOUS
<1> HIDE DEF none, got
<1> QED BY <1>1, <1>2, <1>3, AboutRenders

LEMMA AboutMoves ==
    ASSUME AboutInv, NEW s, NEW res, NEW fin, NEW gone \in BOOLEAN, NEW got,
           s = "result" /\ fin # NoState /\ res # NoOrder =>
              res = orderResult /\ Known(fin.id, res),
           \/ Render(s, res, fin, gone, {}, got, TRUE)
           \/ Render(s, res, fin, gone, {}, got, FALSE)
    PROVE  AboutInv'
<1> DEFINE none == {}
<1>1. PICK fresh : fresh \in BOOLEAN /\ Render(s, res, fin, gone, none, got, fresh)
  <2> DEFINE yes == TRUE
             no == FALSE
  <2>1. yes \in BOOLEAN /\ no \in BOOLEAN OBVIOUS
  <2>2. \/ Render(s, res, fin, gone, none, got, yes)
        \/ Render(s, res, fin, gone, none, got, no)
    OBVIOUS
  <2> HIDE DEF yes, no, none
  <2>3. CASE Render(s, res, fin, gone, none, got, yes) BY <2>1, <2>3
  <2>4. CASE Render(s, res, fin, gone, none, got, no) BY <2>1, <2>4
  <2> QED BY <2>2, <2>3, <2>4
<1>2. \A q \in none : /\ MaySend(q) /\ res = orderResult
                       /\ RefreshKey(s, res, fin, gone) = ShownKey
  OBVIOUS
<1> HIDE DEF none
<1> QED BY <1>1, <1>2, AboutRenders

LEMMA AboutUnchanged ==
    ASSUME AboutInv, UNCHANGED <<screen, requests>>
    PROVE  AboutInv'
BY DEF AboutInv, Known, ShownKey, screen

\* The clicks and the timers.
LEMMA AboutClicks ==
    ASSUME PayInv, AboutInv, Clicks \/ Timers
    PROVE  AboutInv'
<1> USE DEF Asking
<1>1. userNotFound \in BOOLEAN BY DEF PayInv, ScreenInv, MountedInv
<1>2. ASSUME NEW op \in Ops \ (Asking \cup {"refresh"}), NEW o, Stay({Request(op, o)}, {})
      PROVE  AboutInv'
  <2>1. MaySend(Request(op, o)) BY DEF MaySend, Request
  <2> QED BY <1>1, <1>2, <2>1, AboutStays
<1>3. ASSUME NEW op \in Asking, Stay({Request(op, orderResult)}, {})
      PROVE  AboutInv'
  <2>1. MaySend(Request(op, orderResult)) BY DEF MaySend, Request, Known
  <2> QED BY <1>1, <1>3, <2>1, AboutStays
<1>4. CASE Render("form", NoOrder, NoState, userNotFound, {}, {}, FALSE)
  BY <1>1, <1>4, AboutMoves
<1>5. CASE refreshOrder
  <2>1. MaySend(Request("refresh", orderResult))
    BY <1>5 DEF refreshOrder, MaySend, Request, PayInv, ScreenInv, MountedInv,
                ShownKey, RefreshKey
  <2> QED BY <1>1, <1>5, <2>1, AboutStays DEF refreshOrder
<1>6. CASE updateTimer \/ RefreshingEnds
  BY <1>6, AboutUnchanged DEF updateTimer, RefreshingEnds
<1>7. CASE handleSubmit("create") \/ handleSubmit("subscribe")
           \/ loadUserAndOrders \/ loadMoreOrders
  BY <1>2, <1>7 DEF handleSubmit, loadUserAndOrders, loadMoreOrders, Ops
<1>8. CASE handleCancel \/ pollStatus BY <1>3, <1>8 DEF handleCancel, pollStatus
<1> QED BY <1>4, <1>5, <1>6, <1>7, <1>8
        DEF Clicks, Timers, handleBack, ReturnToForm

LEMMA AboutServer ==
    ASSUME PayInv, AboutInv, NEW r \in requests, ServerReplies(r)
    PROVE  AboutInv'
<1>1. PICK reply : requests' = (requests \ {r}) \cup {[r EXCEPT !.reply = reply]}
  BY DEF ServerReplies, Replied
<1>2. r \in RequestTypes BY DEF PayInv, ScreenInv, RequestOK
<1>3. [r EXCEPT !.reply = reply].op = r.op /\ [r EXCEPT !.reply = reply].order = r.order
  BY <1>2 DEF RequestTypes
<1>4. UNCHANGED screen BY DEF ServerReplies
<1> QED BY <1>1, <1>3, <1>4 DEF AboutInv, Known, ShownKey, screen

\* The continuations.
LEMMA AboutReceives ==
    ASSUME PayInv, AboutInv, NEW r \in requests, Receive(r)
    PROVE  AboutInv'
<1> USE DEF Asking
<1>1. userNotFound \in BOOLEAN BY DEF PayInv, ScreenInv, MountedInv
<1>2. RequestOK(order, r) /\ AnswerOK(order, r) BY AnswerTrue DEF Receive
<1>3. r.op \in Asks => r.reply.id = r.order BY <1>2 DEF AnswerOK
<1>4. ASSUME Stay({}, {r}) PROVE AboutInv'
  <2> DEFINE none == {}
  <2>1. Stay(none, {r}) /\ \A q \in none : MaySend(q) BY <1>4
  <2> HIDE DEF none
  <2> QED BY <1>1, <2>1, AboutStays
<1>5. ASSUME r.op \in Asking, NEW op \in Asking, Stay({Request(op, r.order)}, {r})
      PROVE  AboutInv'
  <2>1. MaySend(Request(op, r.order)) BY <1>5 DEF MaySend, Request, AboutInv
  <2> QED BY <1>1, <1>5, <2>1, AboutStays
<1>6. CASE OrderCreated(r)
  <2>1. CASE r.reply.id = Refused BY <1>4, <1>6, <2>1 DEF OrderCreated
  <2>2. CASE r.reply.id # Refused
    <3>1. Render("paying", r.reply.id, finalOrderState, userNotFound, {}, {r}, FALSE)
      BY <1>6, <2>2 DEF OrderCreated
    <3> QED BY <1>1, <3>1, AboutMoves
  <2> QED BY <2>1, <2>2
<1>7. CASE PollReceived(r)
  <2>1. r.op = "poll" /\ r.reply.id = r.order BY <1>3, <1>7 DEF PollReceived, Asks
  <2> QED BY <1>1, <1>4, <1>7, <2>1, AboutAnswers DEF PollReceived
<1>8. CASE CancelRead(r)
  <2>1. r.op = "readToCancel" /\ r.reply.id = r.order
    BY <1>3, <1>8 DEF CancelRead, Asks
  <2> QED BY <1>1, <1>5, <1>8, <2>1, AboutAnswers DEF CancelRead
<1>9. CASE CancelReceived(r)
  <2>1. r.op = "cancel" /\ CancelTold(r.reply.status, r.reply.was)
    BY <1>2, <1>9 DEF CancelReceived, AnswerOK
  <2>2. CASE r.reply.status = "cancelled"
    <3> DEFINE snap == Told(r.order, "CANCELLED", r.reply.was)
    <3>1. handleStatusChange(snap, {r}) /\ snap.id = r.order
      BY <1>9, <2>2 DEF CancelReceived, Told
    <3> HIDE DEF snap
    <3> QED BY <1>1, <2>1, <3>1, AboutAnswers
  <2>3. CASE r.reply.status = "refused"
    BY <1>5, <1>9, <2>1, <2>3 DEF CancelReceived
  <2>4. CASE r.reply.status = "paid"
    <3>1. requests' = requests \ {r} /\ UNCHANGED screen
      BY <1>9, <2>4 DEF CancelReceived
    <3> QED BY <3>1 DEF AboutInv, Known, ShownKey, screen
  <2> QED BY <2>1, <2>2, <2>3, <2>4 DEF CancelTold
<1>10. CASE RefreshReceived(r)
  <2>1. r.op = "refresh" /\ r.reply.id = r.order /\ r.order \in Orders
    BY <1>2, <1>3, <1>10 DEF RefreshReceived, Asks, RequestOK
  <2>2. r.order = orderResult
    BY <2>1 DEF AboutInv, ShownKey, RefreshKey, NoOrder, Orders
  <2>3. Render(step, orderResult, r.reply, userNotFound, {}, {r}, TRUE)
    BY <1>10 DEF RefreshReceived
  <2> QED BY <1>1, <2>1, <2>2, <2>3, AboutMoves DEF Known
<1>11. CASE OrdersReceived(r) \/ MoreOrdersReceived(r)
  BY <1>4, <1>11 DEF OrdersReceived, MoreOrdersReceived
<1> QED BY <1>6, <1>7, <1>8, <1>9, <1>10, <1>11 DEF Receive

LEMMA AboutFails ==
    ASSUME PayInv, AboutInv, NEW r \in requests, RequestFails(r)
    PROVE  AboutInv'
<1>1. userNotFound \in BOOLEAN BY DEF PayInv, ScreenInv, MountedInv
<1>2. CASE Stay({}, {r})
  <2> DEFINE none == {}
  <2>1. Stay(none, {r}) /\ \A q \in none : MaySend(q) BY <1>2
  <2> HIDE DEF none
  <2> QED BY <1>1, <2>1, AboutStays
<1>3. CASE Render(step, orderResult, finalOrderState, TRUE, {}, {r}, FALSE)
  <2> DEFINE gone == TRUE
  <2>1. gone \in BOOLEAN
        /\ Render(step, orderResult, finalOrderState, gone, {}, {r}, FALSE)
    BY <1>3
  <2> HIDE DEF gone
  <2>2. step = "result" /\ finalOrderState # NoState
          => Known(finalOrderState.id, orderResult)
    BY DEF AboutInv
  <2> QED BY <2>1, <2>2, AboutMoves
<1> QED BY <1>2, <1>3 DEF RequestFails

LEMMA AboutKeeps ==
    ASSUME PayInv, AboutInv, PayNext
    PROVE  AboutInv'
<1>1. CASE UNCHANGED payVars BY <1>1, AboutUnchanged DEF payVars
<1> QED BY <1>1, AboutClicks, AboutServer, AboutReceives, AboutFails DEF PayNext

LEMMA PayKeeps ==
    ASSUME OrderInv, PayInv, PayNext
    PROVE  OrderInv' /\ Advanced /\ PayInv'
<1>1. CASE Clicks \/ Timers
  <2>1. UNCHANGED order
    BY <1>1 DEF Clicks, Timers, handleSubmit, handleCancel, handleBack,
                loadUserAndOrders, loadMoreOrders, pollStatus, updateTimer,
                refreshOrder, RefreshingEnds, ReturnToForm
  <2> QED BY <1>1, <2>1, OrdersStay, ClicksAndTimersKeep
<1>2. ASSUME NEW r \in requests, ServerReplies(r)
      PROVE  OrderInv' /\ Advanced /\ PayInv'
  BY <1>2, ServerKeeps
<1>3. ASSUME NEW r \in requests, Receive(r)
      PROVE  OrderInv' /\ Advanced /\ PayInv'
  <2>1. UNCHANGED order
    BY <1>3 DEF Receive, OrderCreated, PollReceived, CancelRead, CancelReceived,
                RefreshReceived, OrdersReceived, MoreOrdersReceived
  <2>2. PayInv'
    BY <1>3, CreatedKeeps, AnswersKeep, RefreshedKeeps, ListedKeeps, MoreKeeps
       DEF Receive
  <2> QED BY <2>1, <2>2, OrdersStay
<1>4. ASSUME NEW r \in requests, RequestFails(r)
      PROVE  OrderInv' /\ Advanced /\ PayInv'
  <2>1. UNCHANGED order BY <1>4 DEF RequestFails
  <2> QED BY <1>4, <2>1, OrdersStay, FailureKeeps
<1>5. ASSUME NEW o \in Orders, OrderMoves(o), UNCHANGED payVars
      PROVE  OrderInv' /\ Advanced /\ PayInv'
  BY <1>5, OrdersMove, PayStands
<1> QED BY <1>1, <1>2, <1>3, <1>4, <1>5 DEF PayNext

(***************************************************************************)
(* The windows together.                                                   *)
(***************************************************************************)

IInv ==
    /\ OrderInv /\ PayInv /\ AboutInv /\ ReturnInv /\ PopupInv
    /\ ListInv /\ AdminOrdersInv /\ TableInv

LEMMA NothingPending ==
    ASSUME NEW s \in {"absent", "CANCELLED"}, order = [o \in Orders |-> s]
    PROVE  OrderInv
<1>1. PendingIn(order) = {} BY DEF PendingIn
<1> QED BY <1>1, FS_EmptySet, ServerAssumption DEF OrderInv, Statuses

LEMMA OrdersInit ==
    ASSUME Init
    PROVE  OrderInv /\ (window = "return" => order[outTradeNo] \in Statuses)
<1>1. CASE window = "pay"
  BY <1>1, NothingPending DEF Init, PayInit
<1>2. CASE window = "return"
  <2>1. order = [o \in Orders |-> IF o = outTradeNo THEN "PENDING" ELSE "absent"]
    BY <1>2 DEF Init, ReturnInit
  <2>2. PendingIn(order) = {outTradeNo} BY <2>1, FirstOrder DEF PendingIn
  <2>3. Cardinality({outTradeNo}) = 1 BY FS_Singleton
  <2> QED BY <2>1, <2>2, <2>3, FirstOrder, ServerAssumption
          DEF OrderInv, Statuses, PaidStatuses
<1>3. CASE window \notin {"pay", "return"}
  BY <1>3, NothingPending DEF Init
<1> QED BY <1>1, <1>2, <1>3

LEMMA PayStarts ==
    ASSUME PayInit \/ Idle("pay")
    PROVE  PayInv
<1>1. /\ step \in {"none", "form"} /\ loading = FALSE
      /\ orderResult = NoOrder /\ finalOrderState = NoState
      /\ userNotFound = FALSE /\ expired = FALSE /\ cancelBlocked = FALSE
      /\ refreshing = FALSE /\ myOrders = <<>> /\ ordersPage = 1
      /\ ordersLoadingMore = FALSE /\ pendingCount = 0
      /\ requests \subseteq {Request("loadOrders", NoOrder)}
  <2>1. CASE PayInit BY <2>1 DEF PayInit
  <2>2. CASE Idle("pay") BY <2>2 DEF Idle
  <2> QED BY <2>1, <2>2
<1>2. RequestOK(order, Request("loadOrders", NoOrder))
      /\ Request("loadOrders", NoOrder).op = "loadOrders"
  BY FreshRequest DEF Ops, Asks, NoOrder
<1>3. ScreenInv
  BY <1>1, <1>2 DEF ScreenInv, ShownOK, MountedInv
<1>4. OfKind(Creating, requests) = {} /\ OfKind(More, requests) = {}
  BY <1>1, <1>2 DEF OfKind, Creating, More
<1>5. SubmitInv /\ MoreInv BY <1>1, <1>4, NoneSolo DEF SubmitInv, MoreInv
<1>6. MyListInv
  <2>1. myOrders \in Seq(Nat) /\ Len(myOrders) = 0 BY <1>1
  <2> QED BY <1>1, <1>4, <2>1 DEF MyListInv
<1> QED BY <1>1, <1>3, <1>5, <1>6, ServerAssumption DEF PayInv

LEMMA AboutStarts ==
    ASSUME PayInit \/ Idle("pay")
    PROVE  AboutInv
<1>1. /\ step \in {"none", "form"}
      /\ requests \subseteq {Request("loadOrders", NoOrder)}
  <2>1. CASE PayInit BY <2>1 DEF PayInit
  <2>2. CASE Idle("pay") BY <2>2 DEF Idle
  <2> QED BY <2>1, <2>2
<1>2. \A r \in requests : r.op = "loadOrders" BY <1>1 DEF Request
<1> QED BY <1>1, <1>2 DEF AboutInv, Asking

LEMMA AdminStarts ==
    ASSUME ListInit \/ Idle("lists")
    PROVE  ListInv
<1>1. /\ row \in RowStates /\ shownRow = "absent" /\ modal = "closed"
      /\ saving = FALSE /\ syncImporting = FALSE /\ rcSaving = FALSE
      /\ rcOverrideEnv = FALSE /\ rcOverrideSaved = FALSE
      /\ \A c \in calls : CallOK(c) /\ c.op \in OtherCalls
  <2>1. CASE ListInit
    <3>1. \A c \in calls : c.op \in {"fetch", "config"} /\
              c = [op |-> c.op, with |-> "none", reply |-> "waiting", nr |-> 0]
      BY <2>1 DEF ListInit
    <3> QED BY <2>1, <3>1 DEF ListInit, CallOK, CallTypes, OtherCalls, Submitting
  <2>2. CASE Idle("lists") BY <2>2 DEF Idle, RowStates
  <2> QED BY <2>1, <2>2
<1>2. \A o \in Submitting : Submissions(o) = {}
  BY <1>1 DEF Submissions, Submitting, OtherCalls
<1>3. FlagsInv BY <1>1, <1>2, NoneSolo DEF FlagsInv, Submitting
<1> QED BY <1>1, <1>3 DEF ListInv, RowsInv, RowStates

LEMMA OrdersListStarts ==
    ASSUME AdminOrdersInit \/ Idle("orders")
    PROVE  AdminOrdersInv
<1>1. /\ statusFilter = 1 /\ refundOrder = 0 /\ processing = FALSE
      /\ tasks \subseteq {[op |-> "orders", about |-> 1, nr |-> 0, own |-> FALSE]}
  <2>1. CASE AdminOrdersInit BY <2>1 DEF AdminOrdersInit
  <2>2. CASE Idle("orders") BY <2>2 DEF Idle
  <2> QED BY <2>1, <2>2
<1>2. \A t \in tasks : TaskOK(t) /\ ~t.own
  <2>1. ASSUME NEW n \in BOOLEAN, n = FALSE,
               NEW t, t = [op |-> "orders", about |-> 1, nr |-> 0, own |-> n]
        PROVE  TaskOK(t) /\ ~t.own
    BY <2>1 DEF TaskOK
  <2> QED BY <1>1, <2>1
<1>3. OwnRefunds = {} BY <1>2 DEF OwnRefunds
<1>4. Solo(OwnRefunds, processing) BY <1>1, <1>3, NoneSolo
<1>5. statusFilter \in 1..2 /\ refundOrder \in 0..2 /\ ~processing BY <1>1
<1> QED BY <1>2, <1>4, <1>5 DEF AdminOrdersInv

LEMMA TableStarts ==
    ASSUME MyOrdersInit \/ Idle("table")
    PROVE  TableInv
<1>1. /\ stored \in {0, SmallPages} /\ page = 1 /\ pageSize = "small"
      /\ totalPages = 1 /\ rows = 0 /\ dialogOrder = 0 /\ submittingId = 0
      /\ \A l \in loads : l.op = "list" /\ l.page = 1
  <2>1. CASE MyOrdersInit
    <3>1. PICK n \in {0, 1} : loads = {Load("list", 1, "small", i) : i \in 0..n}
      BY <2>1 DEF MyOrdersInit
    <3>2. \A l \in loads : l.op = "list" /\ l.page = 1 BY <3>1 DEF Load
    <3> QED BY <2>1, <3>2 DEF MyOrdersInit
  <2>2. CASE Idle("table") BY <2>2 DEF Idle
  <2> QED BY <2>1, <2>2
<1>2. /\ listLoading \in BOOLEAN /\ listError \in BOOLEAN
      /\ listLoading \/ listError
  <2>1. CASE MyOrdersInit BY <2>1 DEF MyOrdersInit
  <2>2. CASE Idle("table") BY <2>2 DEF Idle
  <2> QED BY <2>1, <2>2
<1>3. OwnRequests = {} BY <1>1 DEF OwnRequests
<1>4. DialogInv BY <1>1, <1>3, NoneSolo DEF DialogInv
<1>5. TableTypes BY <1>1, <1>2, TableAssumption DEF TableTypes, Sizes
<1>6. TableShows BY <1>1, <1>2 DEF TableShows
<1>7. \A l \in loads : LoadOK(l) BY <1>1, TableAssumption DEF LoadOK
<1> QED BY <1>4, <1>5, <1>6, <1>7 DEF TableInv

LEMMA ReturnStarts ==
    ASSUME Init
    PROVE  ReturnInv
<1>1. CASE window = "return"
  BY <1>1, OrdersInit DEF Init, ReturnInit, ReturnInv
<1>2. CASE window # "return"
  <2>1. Idle("return") BY <1>2 DEF Init
  <2> QED BY <1>2, <2>1 DEF Idle, ReturnInv
<1> QED BY <1>1, <1>2

LEMMA PopupStarts ==
    ASSUME PopupInit \/ Idle("popup")
    PROVE  PopupInv
<1>1. CASE PopupInit BY <1>1 DEF PopupInit, PopupInv
<1>2. CASE Idle("popup") BY <1>2 DEF Idle, PopupInv
<1> QED BY <1>1, <1>2

LEMMA PagesStart == Init => IInv
<1> SUFFICES ASSUME Init PROVE IInv OBVIOUS
<1>1. /\ PayInit \/ Idle("pay")
      /\ PopupInit \/ Idle("popup")
      /\ ListInit \/ Idle("lists")
      /\ AdminOrdersInit \/ Idle("orders")
      /\ MyOrdersInit \/ Idle("table")
  BY Zenon DEF Init
<1> QED BY <1>1, OrdersInit, PayStarts, AboutStarts, ReturnStarts, PopupStarts, AdminStarts,
           OrdersListStarts, TableStarts
        DEF IInv

\* What a page that is not the one followed is told does not change.
LEMMA OthersStand ==
    ASSUME IInv
    PROVE  /\ UNCHANGED popupVars => PopupInv'
           /\ UNCHANGED listVars => ListInv'
           /\ UNCHANGED ordersVars => AdminOrdersInv'
           /\ UNCHANGED myOrdersVars => TableInv'
<1>1. ASSUME UNCHANGED popupVars PROVE PopupInv'
  BY <1>1 DEF IInv, PopupInv, popupVars
<1>2. ASSUME UNCHANGED listVars PROVE ListInv'
  BY <1>2 DEF IInv, ListInv, RowsInv, FlagsInv, Submissions, listVars, adminFlags,
              override
<1>3. ASSUME UNCHANGED ordersVars PROVE AdminOrdersInv'
  BY <1>3 DEF IInv, AdminOrdersInv, OwnRefunds, ordersVars
<1>4. ASSUME UNCHANGED myOrdersVars PROVE TableInv'
  BY <1>4 DEF IInv, TableInv, TableTypes, TableShows, DialogInv, OwnRequests,
              myOrdersVars, table, dialog
<1> QED BY <1>1, <1>2, <1>3, <1>4

LEMMA PagesStep == IInv /\ [Next]_vars => IInv'
<1> SUFFICES ASSUME IInv, [Next]_vars PROVE IInv' OBVIOUS
<1>1. OrderInv /\ PayInv /\ AboutInv /\ ReturnInv BY DEF IInv
<1>2. CASE PayStep
  <2>1. /\ PayNext
        /\ UNCHANGED <<window, returnVars, popupVars, listVars, ordersVars, myOrdersVars>>
    BY <1>2 DEF PayStep, PayPart, adminVars
  <2>2. OrderInv' /\ Advanced /\ PayInv' /\ AboutInv'
    BY <1>1, <2>1, PayKeeps, AboutKeeps
  <2>3. ReturnInv' BY <1>1, <2>1, <2>2, ReturnStands
  <2> QED BY <2>1, <2>2, <2>3, OthersStand DEF IInv
<1>3. CASE ReturnStep
  <2>1. /\ window = "return" /\ ReturnNext
        /\ UNCHANGED <<window, payVars, popupVars, listVars, ordersVars, myOrdersVars>>
    BY <1>3 DEF ReturnStep, adminVars
  <2>2. OrderInv' /\ Advanced /\ ReturnInv' BY <1>1, <2>1, ReturnKeeps
  <2>3. PayInv' BY <1>1, <2>1, <2>2, PayStands
  <2>4. AboutInv' BY <1>1, <2>1, AboutUnchanged DEF payVars
  <2> QED BY <2>1, <2>2, <2>3, <2>4, OthersStand DEF IInv
<1>4. ASSUME UNCHANGED <<window, order, payVars, returnVars>>
      PROVE  OrderInv' /\ PayInv' /\ AboutInv' /\ ReturnInv'
  <2>1. OrderInv' /\ Advanced BY <1>1, <1>4, OrdersStay
  <2>2. AboutInv' BY <1>1, <1>4, AboutUnchanged DEF payVars
  <2> QED BY <1>1, <1>4, <2>1, <2>2, PayStands, ReturnStands
<1>5. CASE PopupStep
  <2>1. /\ PopupNext
        /\ UNCHANGED <<window, order, payVars, returnVars, listVars, ordersVars,
                       myOrdersVars>>
    BY <1>5 DEF PopupStep, PopupPart, adminVars
  <2>2. PopupInv' BY <2>1, PopupKeeps DEF IInv
  <2> QED BY <1>4, <2>1, <2>2, OthersStand DEF IInv
<1>6. CASE ListStep
  <2>1. /\ ListNext
        /\ UNCHANGED <<window, order, payVars, returnVars, popupVars, ordersVars,
                       myOrdersVars>>
    BY <1>6 DEF ListStep, ListPart
  <2>2. ListInv' BY <2>1, ListKeeps DEF IInv
  <2> QED BY <1>4, <2>1, <2>2, OthersStand DEF IInv
<1>7. CASE AdminOrdersStep
  <2>1. /\ AdminOrdersNext
        /\ UNCHANGED <<window, order, payVars, returnVars, popupVars, listVars,
                       myOrdersVars>>
    BY <1>7 DEF AdminOrdersStep, OrdersPart
  <2>2. AdminOrdersInv' BY <2>1, AdminOrdersKeeps DEF IInv
  <2> QED BY <1>4, <2>1, <2>2, OthersStand DEF IInv
<1>8. CASE MyOrdersStep
  <2>1. /\ MyOrdersNext
        /\ UNCHANGED <<window, order, payVars, returnVars, popupVars, listVars,
                       ordersVars>>
    BY <1>8 DEF MyOrdersStep, TablePart
  <2>2. TableInv' BY <2>1, TableKeeps DEF IInv
  <2> QED BY <1>4, <2>1, <2>2, OthersStand DEF IInv
<1>9. CASE UNCHANGED vars
  <2>1. UNCHANGED <<window, order, payVars, returnVars, popupVars, listVars,
                    ordersVars, myOrdersVars>>
    BY <1>9 DEF vars, adminVars
  <2> QED BY <1>4, <2>1, OthersStand DEF IInv
<1> QED BY <1>2, <1>3, <1>5, <1>6, <1>7, <1>8, <1>9 DEF Next

\* The inductive invariant: every page's own part, and the orders under them.
THEOREM InvariantHolds == Spec => []IInv
BY PagesStart, PagesStep, PTL DEF Spec

-----------------------------------------------------------------------------

\* Nobody is told of an outcome that the order it names never had, also after
\* a cancellation whose outcome the page makes up.  The result screen of an
\* order shows that order's outcome, or one of an order that the page was
\* still asking about when the screen's own was opened.  A window that went
\* away by itself belongs to a paid order (PaymentQRCode.tsx:345-408,
\* pay/page.tsx:515-518, 1111-1116, result/page.tsx:246-271).
LEMMA OutcomesOfInv == IInv => OutcomeWasTrue
<1> SUFFICES ASSUME IInv PROVE OutcomeWasTrue OBVIOUS
<1>1. finalOrderState # NoState =>
        WasTrue(finalOrderState, getStatusConfig(finalOrderState))
  BY WordsFit DEF IInv, PayInv, ScreenInv, ShownOK
<1>2. orderState # NoSnapshot => WasTrue(orderState, display)
  BY WordsFit DEF IInv, ReturnInv, display
<1>3. cancelBlocked => order[orderResult] \in PaidStatuses
  BY DEF IInv, PayInv, ScreenInv
<1>4. windowClosed /\ isInPopup => order[outTradeNo] \in PaidStatuses
  BY DEF IInv, ReturnInv
<1>5. ResultShown => finalOrderState.id \in {orderResult} \cup late
  BY DEF IInv, AboutInv, Known, ResultShown
<1> QED BY <1>1, <1>2, <1>3, <1>4, <1>5 DEF OutcomeWasTrue

THEOREM OutcomesAreTrue == Spec => []OutcomeWasTrue
BY InvariantHolds, OutcomesOfInv, PTL

\* A disabled button and the submission it stands for come and go together,
\* whatever screen, modal or dialog is open by then.  Of the refunds only the
\* one of the open dialog has a button: an order has two under way only if
\* the dialog of one of them was closed before it was answered
\* (pay/page.tsx:377-464, 470-512, channels/page.tsx:296-345, 421-462,
\* subscriptions/page.tsx:446-491, payment-config/page.tsx:437-471, 562-652,
\* RefundDialog.tsx:116-124, OrderTable.tsx:112-131).
LEMMA SubmissionsOfInv == IInv => OneSubmissionAtATime
<1> SUFFICES ASSUME IInv PROVE OneSubmissionAtATime OBVIOUS
<1>1. Cardinality({r \in requests : r.op \in {"create", "subscribe"}})
        = IF loading THEN 1 ELSE 0
  <2>1. {r \in requests : r.op \in {"create", "subscribe"}} = OfKind(Creating, requests)
    BY DEF OfKind, Creating
  <2>2. Solo(OfKind(Creating, requests), loading) BY DEF IInv, PayInv, SubmitInv
  <2> QED BY <2>1, <2>2, SoloCounts
<1>2. /\ Cardinality(Submissions("save")) = IF saving THEN 1 ELSE 0
      /\ Cardinality(Submissions("import")) = IF syncImporting THEN 1 ELSE 0
      /\ Cardinality(Submissions("saveConfig")) = IF rcSaving THEN 1 ELSE 0
  BY SoloCounts DEF IInv, ListInv, FlagsInv
<1>3. Cardinality(OwnRefunds) = IF processing THEN 1 ELSE 0
  BY SoloCounts DEF IInv, AdminOrdersInv
<1>4. Cardinality(OwnRequests) = IF submittingId # 0 THEN 1 ELSE 0
  <2> DEFINE sent == submittingId # 0
  <2>1. Solo(OwnRequests, sent) BY DEF IInv, TableInv, DialogInv
  <2> HIDE DEF sent
  <2>2. Cardinality(OwnRequests) = IF sent THEN 1 ELSE 0 BY <2>1, SoloCounts
  <2> QED BY <2>2 DEF sent
<1>5. submittingId \in {0, dialogOrder} BY DEF IInv, TableInv, DialogInv
<1>6. ASSUME NEW o \in {1, 2}, Cardinality(RefundsOf(o)) > 1,
             \A t \in RefundsOf(o) : t.own
      PROVE  FALSE
  <2>1. RefundsOf(o) \subseteq OwnRefunds BY <1>6 DEF RefundsOf, OwnRefunds
  <2>2. \A a, b \in RefundsOf(o) : a = b BY <2>1 DEF IInv, AdminOrdersInv, Solo
  <2>3. CASE RefundsOf(o) = {} BY <1>6, <2>3, FS_EmptySet
  <2>4. CASE RefundsOf(o) # {}
    <3>1. PICK a \in RefundsOf(o) : RefundsOf(o) = {a} BY <2>2, <2>4
    <3>2. Cardinality({a}) = 1 BY FS_Singleton
    <3> QED BY <1>6, <3>1, <3>2
  <2> QED BY <2>3, <2>4
<1> QED BY <1>1, <1>2, <1>3, <1>4, <1>5, <1>6 DEF OneSubmissionAtATime

THEOREM SubmissionsAreSingle == Spec => []OneSubmissionAtATime
BY InvariantHolds, SubmissionsOfInv, PTL

\* No page of the user's list is shown twice, and the table shows the page
\* that its bar names (pay/page.tsx:193-201, 258-277,
\* pay/orders/page.tsx:85-164).
LEMMA ListsOfInv == IInv => ListsAreTrue
BY DEF IInv, PayInv, MyListInv, TableInv, TableShows, ListsAreTrue

THEOREM ListsStayTrue == Spec => []ListsAreTrue
BY InvariantHolds, ListsOfInv, PTL

\* Every reachable state of the pages is well typed, and what belongs to a
\* mounted component goes with it.
LEMMA TypesOfInv == IInv => PagesTypeOK
<1> SUFFICES ASSUME IInv PROVE PagesTypeOK OBVIOUS
<1>1. order \in [Orders -> Statuses \cup {"absent"}] BY DEF IInv, OrderInv
<1>2. /\ step \in {"none", "form", "paying", "result"}
      /\ orderResult \in Orders \cup {NoOrder}
      /\ finalOrderState \in Snapshots \cup {NoState}
      /\ pendingCount \in 0..MaxPending
      /\ \A r \in requests : r.op \in Ops
      /\ expired \/ cancelBlocked => PayingShown
      /\ refreshing => RefreshKey(step, orderResult, finalOrderState,
                                  userNotFound) # NoOrder
  BY DEF IInv, PayInv, ScreenInv, ShownOK, MountedInv, TrueIn, RequestOK, RequestTypes
<1>3. orderState \in Snapshots \cup {NoSnapshot} BY DEF IInv, ReturnInv, TrueIn
<1>4. /\ popup \in {"closed", "loading", "shown", "blocked"}
      /\ credentials => popup = "shown"
      /\ paying # "no" => credentials
  BY DEF IInv, PopupInv
<1>5. /\ row \in RowStates /\ shownRow \in RowStates
      /\ modal \in {"closed", "new", "edit", "groups", "selected"}
      /\ rcOverrideSaved => rcOverrideEnv
  BY DEF IInv, ListInv, RowsInv
<1>6. processing => refundOrder # 0 BY DEF IInv, AdminOrdersInv
<1>7. /\ page \in 1..SmallPages /\ pageSize \in Sizes
      /\ rows \in 0..SmallPages /\ totalPages \in 0..SmallPages
  BY DEF IInv, TableInv, TableTypes
<1> QED BY <1>1, <1>2, <1>3, <1>4, <1>5, <1>6, <1>7 DEF PagesTypeOK

THEOREM TypeCorrect == Spec => []PagesTypeOK
BY InvariantHolds, TypesOfInv, PTL

=============================================================================
