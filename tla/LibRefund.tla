------------------------------ MODULE LibRefund ------------------------------
(***************************************************************************)
(* The refunds of frontend/src/lib/order/service.ts (requestRefund and     *)
(* processRefund) beside the order service of LibOrders: administrators    *)
(* refund completed orders while notifications of their payment are still  *)
(* being redelivered.                                                      *)
(*                                                                         *)
(* Subscription days and balance are deducted and given back alike, so     *)
(* both are amounts here.  The plan a refund makes from what the platform  *)
(* says the user has is any amount up to the refund's: 0 also stands for   *)
(* deduct_balance = false and for a forced refund without an answer.       *)
(***************************************************************************)
EXTENDS LibOrders

CONSTANTS Admins, RefundAmounts

ASSUME LibRefundAssumption == RefundAmounts \subseteq 1..Due

VARIABLES
    refund,     \* what each administrator's refund is doing
    deducted,   \* what the platform has taken from the user for an order
    refunded,   \* what the gateway has paid back of an order
    unanswered, \* orders for which a call took effect without an answer
    failedOnce  \* orders whose refund was once marked REFUND_FAILED

refundVars == <<refund, deducted, refunded, unanswered, failedOnce>>
allVars == <<vars, refundVars>>

\* Where a refund works on an order it has marked REFUNDING.
WorkingPCs == {"deduct", "gateway", "rollback", "restore", "rollback_failed",
               "finish"}

NoRefund == [pc |-> "idle", order |-> NULL, prior |-> "COMPLETED",
             amount |-> 0, plan |-> 0]

\* The orders were created, paid and fulfilled before; their notifications may
\* still be redelivered.
CompletedOrder ==
    [Absent EXCEPT !.status = "COMPLETED", !.paidAt = TRUE,
                   !.completedAt = TRUE, !.tradeNo = TRUE]

RefundInit ==
    /\ orders = [o \in Orders |-> CompletedOrder]
    /\ handler = [h \in Handlers |-> Idle]
    /\ begun = Orders
    /\ now = 0
    /\ gateway = [o \in Orders |-> "paid"]
    /\ collected = [o \in Orders |-> Due]
    /\ acked = {} /\ redeemed = Orders /\ inflight = {}
    /\ faults = 0 /\ outages = 0
    /\ refund = [a \in Admins |-> NoRefund]
    /\ deducted = [o \in Orders |-> 0]
    /\ refunded = [o \in Orders |-> 0]
    /\ unanswered = {} /\ failedOnce = {}

RefundAt(a, pc) == refund[a].pc = pc

RefundGoto(a, pc) == refund' = [refund EXCEPT ![a].pc = pc]

Target(a) == refund[a].order

\* What LibOrders keeps while a refund moves.
unchangedOrders == <<handler, begun, now, gateway, collected,
                     acked, redeemed, inflight>>

\* An unconditional UPDATE: it throws when the row is gone.
Overwrite(a, status, next) ==
    LET o == Target(a)
    IN IF Exists(orders[o])
       THEN /\ Write(o, [orders[o] EXCEPT !.status = status])
            /\ RefundGoto(a, next)
       ELSE UNCHANGED orders /\ refund' = [refund EXCEPT ![a] = NoRefund]

RequestRefund(o) ==
    /\ orders[o].status = "COMPLETED"
    /\ Write(o, [orders[o] EXCEPT !.status = "REFUND_REQUESTED"])
    /\ UNCHANGED <<unchangedOrders, faults, outages, refundVars>>

\* Mutant: a refund that is being carried out can be taken up once more.
MutantIsRefundable(row) ==
    row.status \in {"COMPLETED", "REFUND_REQUESTED", "REFUND_FAILED", "REFUNDING"}

IsRefundable(row) ==
    row.status \in {"COMPLETED", "REFUND_REQUESTED", "REFUND_FAILED"}

BeginRefund(a, o) ==
    /\ RefundAt(a, "idle")
    /\ IsRefundable(orders[o])
    /\ \E amount \in RefundAmounts : \E plan \in 0..amount :
         refund' = [refund EXCEPT ![a] =
           [pc |-> "lock", order |-> o, prior |-> orders[o].status,
            amount |-> amount, plan |-> plan]]
    /\ UNCHANGED <<orders, unchangedOrders, faults, outages, deducted, refunded,
                   unanswered, failedOnce>>

LockRefund(a) ==
    /\ RefundAt(a, "lock")
    /\ IF IsRefundable(orders[Target(a)])
       THEN Overwrite(a, "REFUNDING", "deduct")
       ELSE UNCHANGED orders /\ refund' = [refund EXCEPT ![a] = NoRefund]
    /\ UNCHANGED <<unchangedOrders, faults, outages, deducted, refunded,
                   unanswered, failedOnce>>

Deduct(a) ==
    /\ RefundAt(a, "deduct")
    /\ deducted' = [deducted EXCEPT ![Target(a)] = @ + refund[a].plan]
    /\ RefundGoto(a, "gateway")
    /\ UNCHANGED <<orders, unchangedOrders, faults, outages, refunded,
                   unanswered, failedOnce>>

\* The platform fails, perhaps after it took the amount.
DeductFails(a) ==
    /\ RefundAt(a, "deduct") /\ refund[a].plan > 0
    /\ Outage
    /\ \/ UNCHANGED <<deducted, unanswered>>
       \/ /\ deducted' = [deducted EXCEPT ![Target(a)] = @ + refund[a].plan]
          /\ unanswered' = unanswered \cup {Target(a)}
    /\ RefundGoto(a, "mark_failed")
    /\ UNCHANGED <<orders, unchangedOrders, faults, refunded, failedOnce>>

\* Without a trade number the gateway is skipped and the refund goes on.
CallGateway(a) ==
    /\ RefundAt(a, "gateway")
    /\ refunded' = IF orders[Target(a)].tradeNo
                   THEN [refunded EXCEPT ![Target(a)] = @ + refund[a].amount]
                   ELSE refunded
    /\ RefundGoto(a, "finish")
    /\ UNCHANGED <<orders, unchangedOrders, faults, outages, deducted,
                   unanswered, failedOnce>>

CallGatewayFails(a) ==
    /\ RefundAt(a, "gateway") /\ orders[Target(a)].tradeNo
    /\ Outage
    /\ \/ UNCHANGED <<refunded, unanswered>>
       \/ /\ refunded' = [refunded EXCEPT ![Target(a)] = @ + refund[a].amount]
          /\ unanswered' = unanswered \cup {Target(a)}
    /\ RefundGoto(a, "rollback")
    /\ UNCHANGED <<orders, unchangedOrders, faults, deducted, failedOnce>>

\* Mutant: the deduction is kept when the gateway failed.
MutantRollback(a) ==
    /\ RefundAt(a, "rollback")
    /\ RefundGoto(a, "restore")
    /\ UNCHANGED <<orders, unchangedOrders, faults, outages, deducted, refunded,
                   unanswered, failedOnce>>

Rollback(a) ==
    /\ RefundAt(a, "rollback")
    /\ deducted' = [deducted EXCEPT ![Target(a)] = @ - refund[a].plan]
    /\ RefundGoto(a, "restore")
    /\ UNCHANGED <<orders, unchangedOrders, faults, outages, refunded,
                   unanswered, failedOnce>>

RollbackFails(a) ==
    /\ RefundAt(a, "rollback") /\ refund[a].plan > 0
    /\ Outage
    /\ \/ UNCHANGED <<deducted, unanswered>>
       \/ /\ deducted' = [deducted EXCEPT ![Target(a)] = @ - refund[a].plan]
          /\ unanswered' = unanswered \cup {Target(a)}
    /\ RefundGoto(a, "rollback_failed")
    /\ UNCHANGED <<orders, unchangedOrders, faults, refunded, failedOnce>>

\* The status before the refund, except that REFUND_FAILED becomes COMPLETED.
RestoreStatus(a) ==
    IF refund[a].prior = "REFUND_REQUESTED" THEN "REFUND_REQUESTED"
    ELSE "COMPLETED"

RestoreOrder(a) ==
    /\ RefundAt(a, "restore")
    /\ Overwrite(a, RestoreStatus(a), "audit")
    /\ UNCHANGED <<unchangedOrders, faults, outages, deducted, refunded,
                   unanswered, failedOnce>>

\* Mutant: a refund of part of the amount leaves the order refundable.
MutantFinalRefund(a) ==
    IF refund[a].amount < Due THEN "COMPLETED" ELSE "REFUNDED"

FinalRefundStatus(a) ==
    IF refund[a].amount < Due THEN "PARTIALLY_REFUNDED" ELSE "REFUNDED"

FinishRefund(a) ==
    /\ RefundAt(a, "finish")
    /\ Overwrite(a, FinalRefundStatus(a), "audit")
    /\ UNCHANGED <<unchangedOrders, faults, outages, deducted, refunded,
                   unanswered, failedOnce>>

AuditRefund(a) ==
    /\ refund[a].pc \in {"audit", "audit_failed"}
    /\ refund' = [refund EXCEPT ![a] = NoRefund]
    /\ UNCHANGED <<orders, unchangedOrders, faults, outages, deducted, refunded,
                   unanswered, failedOnce>>

\* The deduction could not be given back, or, in the outer catch block, any
\* other error: an administrator has to look at the order.
MarkRefundFailed(a) ==
    /\ \/ /\ RefundAt(a, "rollback_failed")
          /\ Overwrite(a, "REFUND_FAILED", "audit")
       \/ /\ RefundAt(a, "mark_failed")
          /\ Overwrite(a, "REFUND_FAILED", "audit_failed")
    /\ failedOnce' = failedOnce \cup {Target(a)}
    /\ UNCHANGED <<unchangedOrders, faults, outages, deducted, refunded,
                   unanswered>>

\* A database call in the try block throws, also the audit row written after
\* the row says REFUNDED or was restored.
ThrowInRefund(a) ==
    /\ refund[a].pc \in WorkingPCs \cup {"audit"}
    /\ Fault
    /\ RefundGoto(a, "mark_failed")
    /\ UNCHANGED <<orders, unchangedOrders, outages, deducted, refunded,
                   unanswered, failedOnce>>

InterruptRefund(a) ==
    /\ ~RefundAt(a, "idle")
    /\ Fault
    /\ refund' = [refund EXCEPT ![a] = NoRefund]
    /\ UNCHANGED <<orders, unchangedOrders, outages, deducted, refunded,
                   unanswered, failedOnce>>

RefundSteps(a) ==
    \/ LockRefund(a) \/ Deduct(a) \/ CallGateway(a) \/ Rollback(a)
    \/ RestoreOrder(a) \/ FinishRefund(a) \/ AuditRefund(a)
    \/ MarkRefundFailed(a)

RefundFailures(a) ==
    \/ DeductFails(a) \/ CallGatewayFails(a) \/ RollbackFails(a)
    \/ ThrowInRefund(a) \/ InterruptRefund(a)

RefundNext ==
    \/ Next /\ UNCHANGED refundVars
    \/ \E o \in Orders : RequestRefund(o)
    \/ \E a \in Admins : RefundSteps(a) \/ RefundFailures(a)
    \/ \E a \in Admins, o \in Orders : BeginRefund(a, o)

RefundSpec == RefundInit /\ [][RefundNext]_allVars /\ Fairness

-----------------------------------------------------------------------------
(***************************************************************************)
(* What refunds promise.                                                   *)
(***************************************************************************)

\* As long as no database call failed, one refund at a time works on an
\* order, and the order says so for as long as it does.
SingleRefund ==
    Faultless =>
      \A a, b \in Admins :
        refund[a].pc \in WorkingPCs \cup {"mark_failed"} =>
          /\ orders[Target(a)].status \in {"REFUNDING", "ABSENT"}
          /\ refund[b].pc \in WorkingPCs \cup {"mark_failed"} /\ a # b
               => Target(a) # Target(b)

\* As long as no database call failed and no answer was lost, an order is
\* paid back at most once, and one that was is not refundable again.
PaidBackOnce ==
    Faultless =>
      \A o \in Orders \ unanswered :
        refunded[o] > 0 =>
          /\ refunded[o] \in RefundAmounts
          /\ \/ orders[o].status \in {"PARTIALLY_REFUNDED", "REFUNDED", "ABSENT"}
             \/ \E a \in Admins : RefundAt(a, "finish") /\ Target(a) = o

\* As long as no database call failed and no answer was lost, the user is
\* without the balance of an order only while a refund works on it, after
\* the money was paid back, or after the order was marked for an
\* administrator to look at.
DeductionIsBacked ==
    Faultless =>
      \A o \in Orders \ (unanswered \cup failedOnce) :
        deducted[o] # 0 =>
          \/ orders[o].status \in {"REFUNDED", "PARTIALLY_REFUNDED", "ABSENT"}
          \/ \E a \in Admins : refund[a].pc \in WorkingPCs /\ Target(a) = o

-----------------------------------------------------------------------------
(***************************************************************************)
(* The inductive invariant behind them.                                    *)
(***************************************************************************)

\* Every order was fulfilled, so a redelivered notification finds nothing to do:
\* no request of LibOrders gets further than reading the row once more.
FulfilledRows ==
    {row \in Row : row.tradeNo /\ row.status \in {"COMPLETED"} \cup REFUND_STATUSES}

Redeliveries == [pc : {"find", "mark_paid", "reread"}, op : {"notify"},
                 order : Orders, tradeNo : BOOLEAN]

FulfilledInv ==
    /\ begun = Orders /\ inflight = {}
    /\ orders \in [Orders -> FulfilledRows]
    /\ handler \in [Handlers -> {Idle} \cup Redeliveries]
    /\ \A o \in Orders : gateway[o] = "paid" /\ collected[o] = Due

RefundTypes ==
    /\ refund \in [Admins ->
         [pc : {"idle", "lock", "mark_failed", "audit", "audit_failed"} \cup WorkingPCs,
          order : Orders \cup {NULL}, prior : ORDER_STATUS,
          amount : RefundAmounts \cup {0}, plan : 0..Due]]
    /\ \A a \in Admins : IF RefundAt(a, "idle") THEN Target(a) = NULL
                          ELSE Target(a) # NULL /\ refund[a].amount \in RefundAmounts
    /\ deducted \in [Orders -> Int] /\ refunded \in [Orders -> Nat]
    /\ faults \in Nat

\* What the refund that works on an order has taken for it so far.
TakenInv ==
    Faultless =>
      \A a \in Admins :
        Target(a) \in Orders \ (unanswered \cup failedOnce) =>
          /\ refund[a].pc \in {"gateway", "rollback", "rollback_failed", "finish"} =>
               deducted[Target(a)] = refund[a].plan
          /\ refund[a].pc \in {"deduct", "restore", "mark_failed"} =>
               deducted[Target(a)] = 0

RefundIInv == /\ FulfilledInv /\ RefundTypes
              /\ SingleRefund /\ PaidBackOnce /\ TakenInv /\ DeductionIsBacked

=============================================================================
