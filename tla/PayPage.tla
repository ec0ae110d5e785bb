------------------------------ MODULE PayPage ------------------------------
(***************************************************************************)
(* The recharge page: app/pay/page.tsx with the two components it mounts,  *)
(* PaymentQRCode while an order is being paid and OrderStatus afterwards.  *)
(*                                                                         *)
(* A handler runs up to its next await; what it is waiting for is a member *)
(* of requests.  The server answers a request when it likes, and the page  *)
(* receives the answers in any order, or not at all.  A request carries    *)
(* what its continuation remembers: the operation and the order.  Two      *)
(* outstanding requests that agree on everything are one member.           *)
(*                                                                         *)
(* React: an effect is started and cleaned up by the state it depends on,  *)
(* so every state change goes through Render, which mounts, unmounts and   *)
(* restarts what the new state calls for.                                  *)
(***************************************************************************)
EXTENDS OrderServer, Sequences

CONSTANTS MaxRequests,  \* bound: outstanding requests when the user starts one
          ListPages     \* bound: pages of a long order list

ASSUME PageAssumption == MaxRequests \in Nat \ {0} /\ ListPages \in Nat \ {0}

VARIABLES
    step,            \* "form", "paying" or "result"
    loading,         \* a creation is being submitted
    orderResult,     \* the order being paid, or NoOrder
    finalOrderState, \* the outcome on the result screen, or NoState
    late,            \* history: other orders that the page was still asking
                     \* about when the order's screen opened
    userNotFound,    \* the page shows nothing but "user not found"
    userLoaded,      \* the first load of the user's orders is over
    pendingCount,    \* pending orders, as the last list answer said
    expired,         \* PaymentQRCode: its clock says the order has expired
    cancelBlocked,   \* PaymentQRCode: the cancellation met a payment
    refreshing,      \* OrderStatus: its 30 seconds of polling are not over
    myOrders,        \* the list: which pages were appended, in order
    ordersPage, ordersHasMore, ordersLoadingMore,
    total_pages,     \* how long the user's list is, on the server
    requests         \* what the page is waiting for

screen == <<step, orderResult, finalOrderState, userNotFound, late>>
mounted == <<expired, cancelBlocked, refreshing>>
list == <<myOrders, ordersPage, ordersHasMore, ordersLoadingMore,
          total_pages>>
user == <<userLoaded, pendingCount>>
payVars == <<screen, mounted, list, loading, user, requests>>

NoOrder == 0
NoState == Told(NoOrder, "none", "none")
NoReply == Told(NoOrder, "waiting", "none")

Request(op, o) == [op |-> op, order |-> o, reply |-> NoReply]

Ops == {"create", "subscribe", "poll", "readToCancel", "cancel", "refresh",
        "loadOrders", "loadMore"}

PayInit ==
    /\ step = "form" /\ loading = FALSE
    /\ orderResult = NoOrder /\ finalOrderState = NoState
    /\ userNotFound = FALSE /\ userLoaded = FALSE /\ pendingCount = 0
    /\ late = {}
    /\ expired = FALSE /\ cancelBlocked = FALSE /\ refreshing = FALSE
    /\ myOrders = <<>> /\ ordersPage = 1
    /\ ordersHasMore = FALSE /\ ordersLoadingMore = FALSE
    /\ requests = {Request("loadOrders", NoOrder)}
    \* a new user, or one with a long list of closed orders
    /\ \/ order = [o \in Orders |-> "absent"] /\ total_pages = 1
       \/ order = [o \in Orders |-> "CANCELLED"] /\ total_pages = ListPages

-----------------------------------------------------------------------------
(* What is on the screen, and which effects run.                           *)

PayingShown == step = "paying" /\ orderResult # NoOrder /\ ~userNotFound
ResultShown == /\ step = "result" /\ orderResult # NoOrder
               /\ finalOrderState # NoState /\ ~userNotFound
FormShown == step = "form" /\ userLoaded /\ ~userNotFound

\* The operations whose answer may end an order's screen.
Asking == {"poll", "readToCancel", "cancel"}

isVisibleOrderOutcome(snap) ==
    Derived(snap).paymentSuccess \/ snap.status \in TERMINAL_STATUSES

\* The order OrderStatus keeps asking about, or NoOrder: it asks while the
\* payment is in and the recharge is not.
RefreshKey(s, res, fin, gone) ==
    IF /\ s = "result" /\ res # NoOrder /\ fin # NoState /\ ~gone
       /\ Derived(fin).paymentSuccess /\ ~Derived(fin).rechargeSuccess
    THEN res ELSE NoOrder

\* The state after a handler.  sent: the requests it starts, got: those it
\* has consumed.  fresh: finalOrderState was assigned, which starts the
\* effect that reloads the lists after a completed order.
Render(s, res, fin, gone, sent, got, fresh) ==
    LET key    == RefreshKey(step, orderResult, finalOrderState, userNotFound)
        newKey == RefreshKey(s, res, fin, gone)
        stays  == PayingShown /\ s = "paying" /\ res = orderResult /\ ~gone
        reloads == /\ s = "result" /\ fin.status = "COMPLETED"
                   /\ fresh \/ step # "result"
        kept   == IF newKey = key THEN requests \ got
                  ELSE {r \in requests \ got : r.op # "refresh"}
    IN /\ step' = s /\ orderResult' = res /\ finalOrderState' = fin
       /\ late' = IF res = orderResult THEN late
                  ELSE IF res = NoOrder THEN {}
                  ELSE {r.order : r \in {q \in requests : q.op \in Asking}}
       /\ userNotFound' = (gone /\ ~reloads)
       /\ expired' = (expired /\ stays)
       /\ cancelBlocked' = (cancelBlocked /\ stays)
       /\ refreshing' = IF newKey = key THEN refreshing ELSE newKey # NoOrder
       /\ requests' = kept \cup sent
                     \cup (IF newKey \notin {key, NoOrder}
                           THEN {Request("refresh", res)} ELSE {})
                     \cup (IF reloads THEN {Request("loadOrders", NoOrder)}
                           ELSE {})

\* A handler that leaves the screen as it is.
Stay(sent, got) ==
    Render(step, orderResult, finalOrderState, userNotFound, sent, got, FALSE)

handleStatusChange(snap, got) ==
    Render("result", orderResult, snap, userNotFound, {}, got, TRUE)

CanStart == Cardinality(requests) < MaxRequests

-----------------------------------------------------------------------------
(* The user's clicks.                                                      *)

pendingBlocked == pendingCount >= MaxPending

\* Mutant: the form is not disabled while a creation is under way.
MutantHandleSubmit(op) ==
    /\ FormShown
    /\ op = "create" => ~pendingBlocked /\ myOrders # <<>>
    /\ CanStart
    /\ loading' = TRUE
    /\ Stay({Request(op, NoOrder)}, {})
    /\ UNCHANGED <<order, list, user>>

\* A recharge or a subscription; only the former looks at pendingBlocked.
handleSubmit(op) ==
    /\ FormShown /\ ~loading
    /\ op = "create" => ~pendingBlocked /\ myOrders # <<>>
    /\ CanStart
    /\ loading' = TRUE
    /\ Stay({Request(op, NoOrder)}, {})
    /\ UNCHANGED <<order, list, user>>

handleCancel ==
    /\ PayingShown /\ ~expired /\ ~cancelBlocked /\ CanStart
    /\ Stay({Request("readToCancel", orderResult)}, {})
    /\ UNCHANGED <<order, loading, list, user>>

handleBack ==
    /\ PayingShown \/ ResultShown
    /\ Render("form", NoOrder, NoState, userNotFound, {}, {}, FALSE)
    /\ UNCHANGED <<order, loading, list, user>>

\* The refresh buttons of the page header and of the list.  Bound: the user
\* does not refresh while anything but the list is outstanding.
loadUserAndOrders ==
    /\ ~userNotFound /\ \A r \in requests : r.op = "loadMore"
    /\ Stay({Request("loadOrders", NoOrder)}, {})
    /\ UNCHANGED <<order, loading, list, user>>

\* Mutant: scrolling on starts another load before the last one is done.
MutantLoadMoreOrders ==
    /\ FormShown /\ ordersHasMore /\ CanStart
    /\ ordersLoadingMore' = TRUE
    /\ Stay({Request("loadMore", ordersPage + 1)}, {})
    /\ UNCHANGED <<order, loading, myOrders, ordersPage, ordersHasMore,
                   total_pages, user>>

loadMoreOrders ==
    /\ FormShown /\ ~ordersLoadingMore /\ ordersHasMore /\ CanStart
    /\ ordersLoadingMore' = TRUE
    /\ Stay({Request("loadMore", ordersPage + 1)}, {})
    /\ UNCHANGED <<order, loading, myOrders, ordersPage, ordersHasMore,
                   total_pages, user>>

-----------------------------------------------------------------------------
(* Timers.                                                                 *)

pollStatus ==
    /\ PayingShown /\ ~expired
    /\ CanStart
    /\ Stay({Request("poll", orderResult)}, {})
    /\ UNCHANGED <<order, loading, list, user>>

\* Mutant: the countdown goes on after its component is gone.
MutantUpdateTimer ==
    /\ step = "paying" /\ ~expired
    /\ expired' = TRUE
    /\ UNCHANGED <<order, screen, cancelBlocked, refreshing, list, loading,
                   user, requests>>

\* The countdown reaches zero by the clock of the browser, whatever the
\* server's clock says.
updateTimer ==
    /\ PayingShown /\ ~expired
    /\ expired' = TRUE
    /\ UNCHANGED <<order, screen, cancelBlocked, refreshing, list, loading,
                   user, requests>>

refreshOrder ==
    /\ refreshing /\ CanStart
    /\ Stay({Request("refresh", orderResult)}, {})
    /\ UNCHANGED <<order, loading, list, user>>

\* OrderStatus stops asking after 30 seconds; answers on their way still count.
RefreshingEnds ==
    /\ refreshing
    /\ refreshing' = FALSE
    /\ UNCHANGED <<order, screen, expired, cancelBlocked, list, loading,
                   user, requests>>

\* A completed order is shown for 2.2 seconds, then the form is back.
ReturnToForm ==
    /\ step = "result" /\ finalOrderState.status = "COMPLETED"
    /\ Render("form", NoOrder, NoState, userNotFound, {}, {}, FALSE)
    /\ UNCHANGED <<order, loading, list, user>>

-----------------------------------------------------------------------------
(* The server's side of a request.                                         *)

Replied(r, reply) == requests' = (requests \ {r}) \cup {[r EXCEPT !.reply = reply]}

ServerReplies(r) ==
    /\ r.reply = NoReply
    /\ \/ /\ r.op \in {"create", "subscribe"}
          /\ \E ans \in Orders \cup {Refused} :
                /\ CreateAnswers(ans)
                /\ Replied(r, Told(ans, "created", "none"))
       \/ /\ r.op \in {"poll", "readToCancel", "refresh"}
          /\ Replied(r, SnapshotOf(r.order))
          /\ UNCHANGED order
       \/ /\ r.op = "cancel"
          /\ \E ans \in {"cancelled", "paid", "refused"} :
                /\ CancelAnswers(r.order, ans)
                /\ Replied(r, Told(NoOrder, ans, order'[r.order]))
       \/ /\ r.op \in {"loadOrders", "loadMore"}
          /\ Replied(r, Told(PendingNow, "list", "none"))
          /\ UNCHANGED order
    /\ UNCHANGED <<screen, mounted, list, loading, user>>

-----------------------------------------------------------------------------
(* The continuations.                                                      *)

OrderCreated(r) ==
    /\ r.op \in {"create", "subscribe"}
    /\ loading' = FALSE
    /\ IF r.reply.id = Refused
       THEN Stay({}, {r})
       ELSE Render("paying", r.reply.id, finalOrderState, userNotFound, {}, {r},
                   FALSE)
    /\ UNCHANGED <<order, list, user>>

PollReceived(r) ==
    /\ r.op = "poll"
    /\ IF isVisibleOrderOutcome(r.reply)
       THEN handleStatusChange(r.reply, {r})
       ELSE Stay({}, {r})
    /\ UNCHANGED <<order, loading, list, user>>

CancelRead(r) ==
    /\ r.op = "readToCancel"
    /\ IF isVisibleOrderOutcome(r.reply)
       THEN handleStatusChange(r.reply, {r})
       ELSE Stay({Request("cancel", r.order)}, {r})
    /\ UNCHANGED <<order, loading, list, user>>

\* Mutant: every successful answer is taken for a cancellation.
MutantCancelReceived(r) ==
    /\ r.op = "cancel"
    /\ IF r.reply.status = "refused"
       THEN Stay({Request("poll", r.order)}, {r})
       ELSE handleStatusChange(Told(r.order, "CANCELLED", r.reply.was), {r})
    /\ UNCHANGED <<order, loading, list, user>>

\* The outcome of a cancellation is not read from the server but made up.
CancelReceived(r) ==
    /\ r.op = "cancel"
    /\ CASE r.reply.status = "cancelled" ->
              handleStatusChange(Told(r.order, "CANCELLED", r.reply.was), {r})
         [] r.reply.status = "refused" -> Stay({Request("poll", r.order)}, {r})
         [] r.reply.status = "paid" ->
              /\ cancelBlocked' = (cancelBlocked \/
                                    (PayingShown /\ orderResult = r.order))
              /\ requests' = requests \ {r}
              /\ UNCHANGED <<screen, expired, refreshing>>
    /\ UNCHANGED <<order, loading, list, user>>

RefreshReceived(r) ==
    /\ r.op = "refresh"
    /\ Render(step, orderResult, r.reply, userNotFound, {}, {r}, TRUE)
    /\ UNCHANGED <<order, loading, list, user>>

OrdersReceived(r) ==
    /\ r.op = "loadOrders"
    /\ pendingCount' = r.reply.id /\ userLoaded' = TRUE
    /\ myOrders' = <<1>> /\ ordersPage' = 1
    /\ ordersHasMore' = (total_pages > 1)
    /\ Stay({}, {r})
    /\ UNCHANGED <<order, loading, ordersLoadingMore, total_pages>>

\* The page that was asked for is appended to whatever is there by now.
MoreOrdersReceived(r) ==
    /\ r.op = "loadMore"
    /\ myOrders' = Append(myOrders, r.order)
    /\ ordersPage' = r.order
    /\ ordersHasMore' = (r.order < total_pages)
    /\ ordersLoadingMore' = FALSE
    /\ Stay({}, {r})
    /\ UNCHANGED <<order, loading, total_pages, user>>

Receive(r) ==
    /\ r.reply # NoReply
    /\ \/ OrderCreated(r) \/ PollReceived(r) \/ CancelRead(r)
       \/ CancelReceived(r) \/ RefreshReceived(r) \/ OrdersReceived(r)
       \/ MoreOrdersReceived(r)

\* The request or its answer is lost, or the answer is an error.  Only the
\* list of orders makes something of an error: nobody is logged in.
RequestFails(r) ==
    /\ loading' = (loading /\ r.op \notin {"create", "subscribe"})
    /\ ordersLoadingMore' = (ordersLoadingMore /\ r.op # "loadMore")
    /\ \/ Stay({}, {r})
       \/ /\ r.op = "loadOrders" /\ r.reply = NoReply
          /\ Render(step, orderResult, finalOrderState, TRUE, {}, {r}, FALSE)
    /\ userLoaded' = (userLoaded \/ r.op = "loadOrders")
    /\ UNCHANGED <<order, myOrders, ordersPage, ordersHasMore, total_pages,
                   pendingCount>>

\* An order the page has lost sight of makes no difference any more, once it
\* is not pending.
Watched(o) ==
    \/ order[o] = "PENDING" \/ o \in {orderResult, finalOrderState.id}
    \/ \E r \in requests : r.order = o

Clicks ==
    \/ handleSubmit("create") \/ handleSubmit("subscribe") \/ handleCancel
    \/ handleBack \/ loadUserAndOrders \/ loadMoreOrders

Timers ==
    \/ pollStatus \/ updateTimer \/ refreshOrder \/ RefreshingEnds
    \/ ReturnToForm

PayNext ==
    \/ Clicks
    \/ Timers
    \/ \E r \in requests : ServerReplies(r) \/ Receive(r) \/ RequestFails(r)
    \/ \E o \in Orders : Watched(o) /\ OrderMoves(o) /\ UNCHANGED payVars

=============================================================================
