---------------------------- MODULE AdminOrders ----------------------------
(***************************************************************************)
(* The administrator's page of orders (app/admin/orders/page.tsx) with the *)
(* dialog in which a refund is confirmed (components/admin/RefundDialog).  *)
(* Two orders, and two filters of the list.  What the server makes of a    *)
(* refund is the subject of Refund; here any answer comes at any time.     *)
(*                                                                         *)
(* The dialog has its own loading flag and goes away with it.  Neither its *)
(* cancel button nor the escape key waits for a refund that is under way:  *)
(* the refund goes on and is no longer the open dialog's own.              *)
(***************************************************************************)
EXTENDS Naturals, FiniteSets

CONSTANT MaxTasks      \* bound: outstanding tasks when the user starts one

VARIABLES
    statusFilter,
    listOf,          \* the filter whose orders the list shows, or 0
    refundOrder,     \* the order of the dialog, or 0
    refundRequireForce,
    balanceOf,       \* the order whose user's balance the dialog shows, or 0
    processing,      \* RefundDialog: loading
    tasks

ordersVars == <<statusFilter, listOf, refundOrder, refundRequireForce,
                balanceOf, processing, tasks>>

Filters == {1, 2}

RefundsOf(o) == {t \in tasks : t.op = "refund" /\ t.about = o}
OwnRefunds == {t \in tasks : t.own}

\* Refunds that are under way are told apart.
Unused == CHOOSE n \in 1..(Cardinality(tasks) + 1) : \A t \in tasks : t.nr # n

\* about: the order or the filter; own: it is a refund that was sent from the
\* dialog that is open.
Task(op, about) ==
    [op |-> op, about |-> about, nr |-> IF op = "refund" THEN Unused ELSE 0,
     own |-> op = "refund"]

AdminOrdersInit ==
    /\ statusFilter = 1 /\ listOf = 0
    /\ refundOrder = 0 /\ refundRequireForce = FALSE /\ balanceOf = 0
    /\ processing = FALSE
    /\ tasks = {[op |-> "orders", about |-> 1, nr |-> 0, own |-> FALSE]}

\* The tasks when the dialog is closed: none is its own any more.
Orphaned(set) == {[t EXCEPT !.own = FALSE] : t \in set}

CanStartTask == Cardinality(tasks) < MaxTasks

-----------------------------------------------------------------------------

\* The refresh button, the filters, and what a retry or a cancellation of an
\* order ends with.
fetchOrders ==
    /\ refundOrder = 0 /\ CanStartTask
    /\ statusFilter' \in Filters
    /\ tasks' = tasks \cup {Task("orders", statusFilter')}
    /\ UNCHANGED <<listOf, refundOrder, refundRequireForce, balanceOf,
                   processing>>

\* handleRetry and handleCancel, once confirmed.
handleRetry(o) ==
    /\ refundOrder = 0 /\ listOf # 0 /\ CanStartTask
    /\ tasks' = tasks \cup {Task("retry", o)}
    /\ UNCHANGED <<statusFilter, listOf, refundOrder, refundRequireForce,
                   balanceOf, processing>>

\* The dialog opens at once; the balance follows.
handleRefund(o) ==
    /\ refundOrder = 0 /\ listOf # 0 /\ CanStartTask
    /\ refundOrder' = o /\ refundRequireForce' = FALSE /\ balanceOf' = 0
    /\ tasks' = tasks \cup {Task("balance", o)}
    /\ UNCHANGED <<statusFilter, listOf, processing>>

\* RefundDialog.handleConfirm and handleConfirmRefund.
handleConfirmRefund ==
    /\ refundOrder # 0 /\ ~processing /\ CanStartTask
    /\ processing' = TRUE
    /\ tasks' = tasks \cup {Task("refund", refundOrder)}
    /\ UNCHANGED <<statusFilter, listOf, refundOrder, refundRequireForce,
                   balanceOf>>

\* The button and the escape key.
onCancel ==
    /\ refundOrder # 0
    /\ refundOrder' = 0 /\ refundRequireForce' = FALSE
    /\ processing' = FALSE /\ tasks' = Orphaned(tasks)
    /\ UNCHANGED <<statusFilter, listOf, balanceOf>>

-----------------------------------------------------------------------------

OrdersListed(t) ==
    /\ t.op = "orders" /\ listOf' = t.about
    /\ tasks' = tasks \ {t}
    /\ UNCHANGED <<statusFilter, refundOrder, refundRequireForce, balanceOf,
                   processing>>

\* fetchOrders is the one of the render in which the button was clicked.
Retried(t) ==
    /\ t.op = "retry"
    /\ \E f \in Filters : tasks' = (tasks \ {t}) \cup {Task("orders", f)}
    /\ UNCHANGED <<statusFilter, listOf, refundOrder, refundRequireForce,
                   balanceOf, processing>>

BalanceReceived(t) ==
    /\ t.op = "balance" /\ balanceOf' = t.about
    /\ tasks' = tasks \ {t}
    /\ UNCHANGED <<statusFilter, listOf, refundOrder, refundRequireForce,
                   processing>>

\* data.requireForce: the dialog stays, whichever it is by now, and asks.
ForceRequired(t) ==
    /\ t.op = "refund"
    /\ refundRequireForce' = TRUE
    /\ processing' = (processing /\ ~t.own)
    /\ tasks' = tasks \ {t}
    /\ UNCHANGED <<statusFilter, listOf, refundOrder, balanceOf>>

\* Done, or refused for good: whichever dialog is open closes, and the list
\* of the filter of then is reloaded.
Refunded(t) ==
    /\ t.op = "refund"
    /\ refundOrder' = 0 /\ refundRequireForce' = FALSE /\ processing' = FALSE
    /\ \E f \in Filters :
          tasks' = Orphaned(tasks \ {t}) \cup {Task("orders", f)}
    /\ UNCHANGED <<statusFilter, listOf, balanceOf>>

\* An error, or no answer.
TaskFails(t) ==
    /\ processing' = (processing /\ ~t.own)
    /\ tasks' = tasks \ {t}
    /\ UNCHANGED <<statusFilter, listOf, refundOrder, refundRequireForce,
                   balanceOf>>

TaskEnds(t) ==
    \/ OrdersListed(t) \/ Retried(t) \/ BalanceReceived(t) \/ ForceRequired(t)
    \/ Refunded(t) \/ TaskFails(t)

AdminOrdersNext ==
    \/ fetchOrders \/ handleConfirmRefund \/ onCancel
    \/ \E o \in {1, 2} : handleRetry(o) \/ handleRefund(o)
    \/ \E t \in tasks : TaskEnds(t)

=============================================================================
