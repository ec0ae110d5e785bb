------------------------------ MODULE LibOrders ------------------------------
(***************************************************************************)
(* The order service in TypeScript, frontend/src/lib/order/service.ts,     *)
(* with the expiry sweep of timeout.ts: creating an order, cancelling it,  *)
(* confirming its payment, fulfilling it and retrying the fulfilment, by   *)
(* requests that run concurrently on one PostgreSQL orders table.          *)
(*                                                                         *)
(* A handler is one request; each action is one call it awaits, with the   *)
(* local decisions up to the next one.  Unlike the Rust service the        *)
(* TypeScript writes the outcome of a failure with an unconditional        *)
(* UPDATE, deletes an order whose creation failed, and lets an audit row   *)
(* that cannot be written abort what it was about to report, so the audit  *)
(* writes are steps here.                                                  *)
(*                                                                         *)
(* All orders belong to one user, use one payment method and have one      *)
(* amount, and each is created at most once.  payAmount is not a column    *)
(* of the model: only a PENDING or EXPIRED row takes a payment, and a row  *)
(* that took one never becomes either again, so it is written at most      *)
(* once after the comparison that reads it.  updatedAt is kept where it is *)
(* read, on a row that was closed.                                         *)
(***************************************************************************)
EXTENDS LibStatus, Integers, FiniteSets

CONSTANTS
    NULL,
    Orders,
    Handlers,      \* bound on the requests in progress at one time
    MaxPending,    \* MAX_PENDING_ORDERS
    DailyLimit,    \* DAILY_RECHARGE_LIMIT, 0 for none
    MethodLimit,   \* the payment method's daily limit, 0 for none
    Due,           \* the amount of an order, in cents
    PaidAmounts,   \* the amounts a customer may be found to have paid
    Ttl, Grace,    \* the order timeout and the five minutes after it
    MaxNow,        \* bound on the clock
    MaxFaults,     \* bound on failed database calls and lost requests
    MaxOutages     \* bound on failures of the gateway and the platform

ASSUME LibOrdersAssumption ==
    /\ NULL \notin Orders \cup Int
    /\ Due \in Nat \ {0} /\ PaidAmounts \subseteq Nat
    /\ {MaxPending, DailyLimit, MethodLimit, Ttl, Grace, MaxNow, MaxFaults, MaxOutages} \subseteq Nat

VARIABLES
    orders,     \* the orders table
    handler,    \* what each handler is doing
    begun,      \* orders whose creation has been asked for
    now,
    gateway,    \* the payment intent of an order
    collected,  \* the amount collected for an order
    acked,      \* orders whose notification was answered with success
    redeemed,   \* orders whose recharge code the platform has redeemed
    inflight,   \* redemptions that timed out and may still be carried out
    faults, outages

vars == <<orders, handler, begun, now, gateway, collected, acked,
          redeemed, inflight, faults, outages>>

Time == 0..MaxNow

Absent == [status |-> "ABSENT", paidAt |-> FALSE, completedAt |-> FALSE,
           tradeNo |-> FALSE, updatedAt |-> 0, expiresAt |-> 0]

Row == [status : ORDER_STATUS, paidAt : BOOLEAN, completedAt : BOOLEAN,
        tradeNo : BOOLEAN, updatedAt : Time, expiresAt : Nat]

CreatePCs == {"count_pending", "sum_user", "sum_method", "insert", "provider",
              "attach", "audit_created", "delete"}
CancelPCs == {"query", "cancel_payment", "close", "audit_closed"}
ConfirmPCs == {"find", "mark_paid", "reread", "audit_paid"}
\* Where a handler holds the fulfilment lock.
LockedPCs == {"redeem", "complete", "audit_success", "fail"}
FulfilPCs == {"exec", "lock", "audit_failed"} \cup LockedPCs
RetryPCs == {"reset", "audit_retry"}

Operations == {"create", "cancel", "expire", "notify", "retry"}

Idle == [pc |-> "idle", op |-> "notify", order |-> NULL, tradeNo |-> FALSE]

TypeOK ==
    /\ orders \in [Orders -> Row \cup {Absent}]
    /\ handler \in [Handlers ->
         [pc : {"idle"} \cup CreatePCs \cup CancelPCs \cup ConfirmPCs
                 \cup FulfilPCs \cup RetryPCs,
          op : Operations, order : Orders \cup {NULL}, tradeNo : BOOLEAN]]
    /\ begun \subseteq Orders
    /\ now \in Time
    /\ gateway \in [Orders -> {"none", "open", "paid", "closed"}]
    /\ collected \in [Orders -> PaidAmounts \cup {NULL}]
    /\ acked \subseteq begun
    /\ redeemed \subseteq begun /\ inflight \subseteq begun
    /\ faults \in 0..MaxFaults /\ outages \in 0..MaxOutages

Init ==
    /\ orders = [o \in Orders |-> Absent]
    /\ handler = [h \in Handlers |-> Idle]
    /\ begun = {}
    /\ now = 0
    /\ gateway = [o \in Orders |-> "none"]
    /\ collected = [o \in Orders |-> NULL]
    /\ acked = {} /\ redeemed = {} /\ inflight = {}
    /\ faults = 0 /\ outages = 0

-----------------------------------------------------------------------------
At(h, pc) == handler[h].pc = pc

OrderOf(h) == handler[h].order

RowOf(h) == orders[OrderOf(h)]

Exists(row) == row # Absent

Goto(h, pc) == handler' = [handler EXCEPT ![h].pc = pc]

Finish(h) == handler' = [handler EXCEPT ![h] = Idle]

Begin(h, op, o, pc) ==
    /\ At(h, "idle")
    /\ handler' = [handler EXCEPT ![h] =
         [pc |-> pc, op |-> op, order |-> o, tradeNo |-> orders[o].tradeNo]]

Write(o, row) == orders' = [orders EXCEPT ![o] = row]

\* What the database and the outside world keep while a handler moves.
outside == <<begun, now, gateway, collected, redeemed, inflight,
             faults, outages>>

Outage == outages < MaxOutages /\ outages' = outages + 1

\* confirmPayment returns.  A notification is answered with what it returned;
\* cancelOrderCore returns "already_paid" whatever it was.
Answer(h, ok) ==
    /\ Finish(h)
    /\ acked' = IF ok /\ handler[h].op = "notify"
                THEN acked \cup {OrderOf(h)} ELSE acked

-----------------------------------------------------------------------------
(***************************************************************************)
(* createOrder: the checks before the transaction, the transaction's       *)
(* queries (each sees what was committed when it runs), the provider's     *)
(* intent, the row's payment details, the audit row; and the catch block.  *)
(***************************************************************************)

\* A creation that the checks before the transaction refuse does nothing.
BeginCreate(h, o) ==
    /\ o \notin begun
    /\ begun' = begun \cup {o}
    /\ Begin(h, "create", o, "count_pending")
    /\ UNCHANGED <<orders, now, gateway, collected, acked, redeemed, inflight,
                   faults, outages>>

PendingOrders == {o \in Orders : orders[o].status = "PENDING"}

\* A check of the transaction: it throws, or the next query is sent.
Admit(h, pc, admitted, next) ==
    /\ At(h, pc)
    /\ IF admitted THEN Goto(h, next) ELSE Finish(h)
    /\ UNCHANGED <<orders, acked, outside>>

CountPending(h) ==
    Admit(h, "count_pending", Cardinality(PendingOrders) < MaxPending, "sum_user")

PaidToday ==
    Due * Cardinality({o \in Orders :
        /\ orders[o].status \in {"PAID", "RECHARGING", "COMPLETED"}
        /\ orders[o].paidAt})

WithinLimit(limit) == limit = 0 \/ PaidToday + Due <= limit

SumUser(h) == Admit(h, "sum_user", WithinLimit(DailyLimit), "sum_method")

SumMethod(h) == Admit(h, "sum_method", WithinLimit(MethodLimit), "insert")

InsertOrder(h) ==
    /\ At(h, "insert")
    /\ Write(OrderOf(h), [Absent EXCEPT !.status = "PENDING",
                                           !.expiresAt = now + Ttl])
    /\ Goto(h, "provider")
    /\ UNCHANGED <<acked, outside>>

\* provider.createPayment, after an instance was selected for it.
CreatePayment(h) ==
    /\ At(h, "provider")
    /\ gateway' = [gateway EXCEPT ![OrderOf(h)] = "open"]
    /\ Goto(h, "attach")
    /\ UNCHANGED <<orders, begun, now, collected, acked, redeemed,
                   inflight, faults, outages>>

\* No provider or instance is available, the gateway refuses, or its answer
\* is lost after it opened the intent.
CreatePaymentFails(h) ==
    /\ At(h, "provider")
    /\ Outage
    /\ \E opened \in BOOLEAN :
         gateway' = IF opened THEN [gateway EXCEPT ![OrderOf(h)] = "open"]
                    ELSE gateway
    /\ Goto(h, "delete")
    /\ UNCHANGED <<orders, begun, now, collected, acked, redeemed,
                   inflight, faults>>

\* Unconditional: whatever has become of the row in the meantime.
AttachPayment(h) ==
    /\ At(h, "attach")
    /\ Write(OrderOf(h), [RowOf(h) EXCEPT !.tradeNo = TRUE])
    /\ Goto(h, "audit_created")
    /\ UNCHANGED <<acked, outside>>

AuditCreated(h) ==
    /\ At(h, "audit_created")
    /\ Finish(h)
    /\ UNCHANGED <<orders, acked, outside>>

DeleteOrder(h) ==
    /\ At(h, "delete")
    /\ Write(OrderOf(h), Absent)
    /\ Finish(h)
    /\ UNCHANGED <<acked, outside>>

-----------------------------------------------------------------------------
(***************************************************************************)
(* cancelOrder, adminCancelOrder and the sweep: all run cancelOrderCore    *)
(* with what they read of the row before.                                  *)
(***************************************************************************)

CancelStart(o) == IF orders[o].tradeNo THEN "query" ELSE "close"

BeginCancel(h, o) ==
    /\ orders[o].status = "PENDING"
    /\ Begin(h, "cancel", o, CancelStart(o))
    /\ UNCHANGED <<orders, acked, outside>>

\* expireOrders lists the row; its cancelOrderCore may start much later.
BeginExpire(h, o) ==
    /\ orders[o].status = "PENDING" /\ orders[o].expiresAt < now
    /\ Begin(h, "expire", o, CancelStart(o))
    /\ UNCHANGED <<orders, acked, outside>>

QueryOrder(h) ==
    /\ At(h, "query")
    /\ Goto(h, IF collected[OrderOf(h)] # NULL THEN "find" ELSE "cancel_payment")
    /\ UNCHANGED <<orders, acked, outside>>

\* The provider cannot be built or asked: cancel locally.
QueryOrderFails(h) ==
    /\ At(h, "query")
    /\ Outage
    /\ Goto(h, "close")
    /\ UNCHANGED <<orders, begun, now, gateway, collected, acked,
                   redeemed, inflight, faults>>

\* Some providers cannot cancel, and one that can may fail: both are ignored.
CancelPayment(h) ==
    /\ At(h, "cancel_payment")
    /\ \/ /\ gateway[OrderOf(h)] = "open"
          /\ gateway' = [gateway EXCEPT ![OrderOf(h)] = "closed"]
       \/ UNCHANGED gateway
    /\ Goto(h, "close")
    /\ UNCHANGED <<orders, begun, now, collected, acked, redeemed,
                   inflight, faults, outages>>

\* Mutant: a status word the rest of the service does not know.
MutantFinalStatus(h) == IF handler[h].op = "expire" THEN "EXPIRED" ELSE "CANCELED"

FinalStatus(h) == IF handler[h].op = "expire" THEN "EXPIRED" ELSE "CANCELLED"

\* Mutant: the row is closed whatever its status has become.
MutantCloseOrder(h) ==
    /\ At(h, "close")
    /\ Exists(RowOf(h))
    /\ Write(OrderOf(h), [RowOf(h) EXCEPT !.status = FinalStatus(h),
                                         !.updatedAt = now])
    /\ Goto(h, "audit_closed")
    /\ UNCHANGED <<acked, outside>>

CloseOrder(h) ==
    /\ At(h, "close")
    /\ RowOf(h).status = "PENDING"
    /\ Write(OrderOf(h), [RowOf(h) EXCEPT !.status = FinalStatus(h),
                                         !.updatedAt = now])
    /\ Goto(h, "audit_closed")
    /\ UNCHANGED <<acked, outside>>

\* No row was updated; the caller is told "cancelled" all the same.
CloseOrderRefused(h) ==
    /\ At(h, "close")
    /\ RowOf(h).status # "PENDING"
    /\ Finish(h)
    /\ UNCHANGED <<orders, acked, outside>>

AuditClosed(h) ==
    /\ At(h, "audit_closed")
    /\ Finish(h)
    /\ UNCHANGED <<orders, acked, outside>>

-----------------------------------------------------------------------------
(***************************************************************************)
(* confirmPayment, for a notification or from cancelOrderCore.             *)
(***************************************************************************)

BeginNotify(h, o) ==
    /\ collected[o] # NULL /\ o \notin acked
    /\ Begin(h, "notify", o, "find")
    /\ UNCHANGED <<orders, acked, outside>>

\* Mutant: a payment that is too small is accepted.
MutantAmountAccepted(paid) == paid > 0 /\ paid - Due <= 1

AmountAccepted(paid) == paid > 0 /\ paid - Due \in -1..1

FindOrder(h) ==
    /\ At(h, "find")
    /\ IF Exists(RowOf(h)) /\ AmountAccepted(collected[OrderOf(h)])
       THEN Goto(h, "mark_paid") /\ UNCHANGED acked
       ELSE Answer(h, FALSE)
    /\ UNCHANGED <<orders, outside>>

\* Mutant: an order that was cancelled can still be paid.
MutantIsPayable(row) == row.status \in {"PENDING", "EXPIRED", "CANCELLED"}

IsPayable(row) ==
    \/ row.status = "PENDING"
    \/ row.status = "EXPIRED" /\ row.updatedAt >= now - Grace

MarkPaid(h) ==
    /\ At(h, "mark_paid")
    /\ IsPayable(RowOf(h))
    /\ Write(OrderOf(h), [RowOf(h) EXCEPT !.status = "PAID", !.paidAt = TRUE,
                                          !.tradeNo = TRUE])
    /\ Goto(h, "audit_paid")
    /\ UNCHANGED <<acked, outside>>

MarkPaidRefused(h) ==
    /\ At(h, "mark_paid")
    /\ ~IsPayable(RowOf(h))
    /\ Goto(h, "reread")
    /\ UNCHANGED <<orders, acked, outside>>

\* Mutant: an order another request is about to fulfil counts as done.
MutantReread(h) ==
    /\ At(h, "reread")
    /\ IF RowOf(h).status = "FAILED"
       THEN Goto(h, "exec") /\ UNCHANGED acked
       ELSE Answer(h, TRUE)
    /\ UNCHANGED <<orders, outside>>

\* Which of the two could not be done is decided by the status now.
RereadOrder(h) ==
    /\ At(h, "reread")
    /\ IF RowOf(h).status = "FAILED"
       THEN Goto(h, "exec") /\ UNCHANGED acked
       ELSE Answer(h, RowOf(h).status \notin {"PAID", "RECHARGING"})
    /\ UNCHANGED <<orders, outside>>

AuditPaid(h) ==
    /\ At(h, "audit_paid")
    /\ Goto(h, "exec")
    /\ UNCHANGED <<orders, acked, outside>>

-----------------------------------------------------------------------------
(***************************************************************************)
(* executeFulfillment: executeRecharge and executeSubscriptionFulfillment  *)
(* take the same steps; the subscription's look at its group and at the    *)
(* user's subscriptions is part of what may fail before the redemption.    *)
(***************************************************************************)

Fulfilled(h, ok) == Answer(h, ok)

ReadForFulfilment(h) ==
    /\ At(h, "exec")
    /\ IF RowOf(h).status \in {"PAID", "FAILED"}
       THEN Goto(h, "lock") /\ UNCHANGED acked
       ELSE Fulfilled(h, RowOf(h).status = "COMPLETED")
    /\ UNCHANGED <<orders, outside>>

\* Mutant: a row that is being recharged can be locked once more.
MutantIsLockable(row) == row.status \in {"PAID", "FAILED", "RECHARGING"}

IsLockable(row) == row.status \in {"PAID", "FAILED"}

LockOrder(h) ==
    /\ At(h, "lock")
    /\ IF IsLockable(RowOf(h))
       THEN /\ Write(OrderOf(h), [RowOf(h) EXCEPT !.status = "RECHARGING"])
            /\ Goto(h, "redeem")
            /\ UNCHANGED acked
       ELSE UNCHANGED orders /\ Fulfilled(h, TRUE)
    /\ UNCHANGED outside

\* createAndRedeem is answered.  The code is the idempotency key: a second
\* redemption of it changes nothing.
Redeem(h) ==
    /\ At(h, "redeem")
    /\ redeemed' = redeemed \cup {OrderOf(h)}
    /\ Goto(h, "complete")
    /\ UNCHANGED <<orders, begun, now, gateway, collected, acked,
                   inflight, faults, outages>>

\* Mutant: a redemption that failed is taken for one that was answered.
MutantRedeemFails(h) ==
    /\ At(h, "redeem")
    /\ Outage
    /\ Goto(h, "complete")
    /\ UNCHANGED <<orders, begun, now, gateway, collected, acked, redeemed,
                   inflight, faults>>

\* Refused or unreachable, or unanswered twice and perhaps still on its way.
RedeemFails(h) ==
    /\ At(h, "redeem")
    /\ Outage
    /\ \E sent \in BOOLEAN :
         inflight' = IF sent THEN inflight \cup {OrderOf(h)} ELSE inflight
    /\ Goto(h, "fail")
    /\ UNCHANGED <<orders, begun, now, gateway, collected, acked,
                   redeemed, faults>>

RedemptionLands(o) ==
    /\ o \in inflight
    /\ inflight' = inflight \ {o}
    /\ redeemed' = redeemed \cup {o}
    /\ UNCHANGED <<orders, handler, begun, now, gateway, collected,
                   acked, faults, outages>>

CompleteOrder(h) ==
    /\ At(h, "complete")
    /\ IF RowOf(h).status = "RECHARGING"
       THEN Write(OrderOf(h), [RowOf(h) EXCEPT !.status = "COMPLETED",
                                            !.completedAt = TRUE])
       ELSE UNCHANGED orders
    /\ Goto(h, "audit_success")
    /\ UNCHANGED <<acked, outside>>

AuditSuccess(h) ==
    /\ At(h, "audit_success")
    /\ Fulfilled(h, TRUE)
    /\ UNCHANGED <<orders, outside>>

\* Mutant: the row of a failed fulfilment keeps the lock.
MutantFailOrder(h) ==
    /\ At(h, "fail")
    /\ UNCHANGED orders
    /\ Goto(h, "audit_failed")
    /\ UNCHANGED <<acked, outside>>

\* The catch block: unconditional.
FailOrder(h) ==
    /\ At(h, "fail")
    /\ Exists(RowOf(h))
    /\ Write(OrderOf(h), [RowOf(h) EXCEPT !.status = "FAILED"])
    /\ Goto(h, "audit_failed")
    /\ UNCHANGED <<acked, outside>>

\* The row was deleted by the creation that failed meanwhile.
FailOrderMissing(h) ==
    /\ At(h, "fail")
    /\ ~Exists(RowOf(h))
    /\ Fulfilled(h, FALSE)
    /\ UNCHANGED <<orders, outside>>

AuditFailed(h) ==
    /\ At(h, "audit_failed")
    /\ Fulfilled(h, FALSE)
    /\ UNCHANGED <<orders, outside>>

-----------------------------------------------------------------------------
(***************************************************************************)
(* retryRecharge.                                                          *)
(***************************************************************************)

IsRetryable(row) == row.paidAt /\ row.status \in {"FAILED", "PAID"}

BeginRetry(h, o) ==
    /\ IsRetryable(orders[o])
    /\ Begin(h, "retry", o, "reset")
    /\ UNCHANGED <<orders, acked, outside>>

ResetOrder(h) ==
    /\ At(h, "reset")
    /\ IF IsRetryable(RowOf(h))
       THEN /\ Write(OrderOf(h), [RowOf(h) EXCEPT !.status = "PAID"])
            /\ Goto(h, "audit_retry")
       ELSE UNCHANGED orders /\ Finish(h)
    /\ UNCHANGED <<acked, outside>>

AuditRetry(h) ==
    /\ At(h, "audit_retry")
    /\ Goto(h, "exec")
    /\ UNCHANGED <<orders, acked, outside>>

-----------------------------------------------------------------------------
(***************************************************************************)
(* Failures, the customer and time.                                        *)
(***************************************************************************)

Fault == faults < MaxFaults /\ faults' = faults + 1

\* A database call throws inside a try block: the catch block runs.
ThrowInTry(h) ==
    /\ Fault
    /\ \/ /\ handler[h].pc \in {"provider", "attach", "audit_created"}
          /\ Goto(h, "delete")
       \/ /\ handler[h].pc \in {"complete", "audit_success"}
          /\ Goto(h, "fail")
       \/ /\ handler[h].pc \in ConfirmPCs
          /\ handler[h].op \in {"cancel", "expire"}
          /\ Goto(h, "close")
    /\ UNCHANGED <<orders, begun, now, gateway, collected, acked,
                   redeemed, inflight, outages>>

\* A call throws where nothing catches it, or the process stops.
Interrupt(h) ==
    /\ ~At(h, "idle")
    /\ Fault
    /\ Finish(h)
    /\ UNCHANGED <<orders, begun, now, gateway, collected, acked,
                   redeemed, inflight, outages>>

CustomerPays(o) ==
    /\ gateway[o] = "open"
    /\ gateway' = [gateway EXCEPT ![o] = "paid"]
    /\ \E paid \in PaidAmounts : collected' = [collected EXCEPT ![o] = paid]
    /\ UNCHANGED <<orders, handler, begun, now, acked, redeemed,
                   inflight, faults, outages>>

Tick ==
    /\ now < MaxNow
    /\ now' = now + 1
    /\ UNCHANGED <<orders, handler, begun, gateway, collected,
                   acked, redeemed, inflight, faults, outages>>

Steps(h) ==
    \/ CountPending(h) \/ SumUser(h) \/ SumMethod(h) \/ InsertOrder(h)
    \/ CreatePayment(h) \/ AttachPayment(h) \/ AuditCreated(h)
    \/ DeleteOrder(h)
    \/ QueryOrder(h) \/ CancelPayment(h)
    \/ CloseOrder(h) \/ CloseOrderRefused(h) \/ AuditClosed(h)
    \/ FindOrder(h) \/ MarkPaid(h) \/ MarkPaidRefused(h) \/ RereadOrder(h)
    \/ AuditPaid(h)
    \/ ReadForFulfilment(h) \/ LockOrder(h) \/ Redeem(h) \/ CompleteOrder(h)
    \/ AuditSuccess(h) \/ FailOrder(h) \/ FailOrderMissing(h) \/ AuditFailed(h)
    \/ ResetOrder(h) \/ AuditRetry(h)

Failures(h) ==
    \/ CreatePaymentFails(h) \/ QueryOrderFails(h) \/ RedeemFails(h)
    \/ ThrowInTry(h) \/ Interrupt(h)

Requests(h, o) ==
    \/ BeginCreate(h, o) \/ BeginCancel(h, o) \/ BeginExpire(h, o)
    \/ BeginRetry(h, o)

Next ==
    \/ \E h \in Handlers : Steps(h) \/ Failures(h)
    \/ \E h \in Handlers, o \in Orders : Requests(h, o) \/ BeginNotify(h, o)
    \/ \E o \in Orders : RedemptionLands(o) \/ CustomerPays(o)
    \/ Tick

\* A request that is running goes on, and a provider redelivers a
\* notification until it is answered with success: it keeps finding a free
\* handler now and then.
Fairness ==
    /\ \A h \in Handlers : WF_vars(Steps(h))
    /\ \A o \in Orders : SF_vars(\E h \in Handlers : BeginNotify(h, o))

Spec == Init /\ [][Next]_vars /\ Fairness

-----------------------------------------------------------------------------
(***************************************************************************)
(* What the order service promises.                                        *)
(***************************************************************************)

Faultless == faults = 0

\* At most one request at a time carries out the fulfilment of an order: the
\* conditional UPDATE to RECHARGING hands it to one of them, and neither an
\* unconditional FAILED nor a retry hands it out again before it is done.
SingleFulfiller ==
    \A h, k \in Handlers :
      /\ h # k
      /\ handler[h].pc \in LockedPCs /\ handler[k].pc \in LockedPCs
      => OrderOf(h) # OrderOf(k)

\* A recharge code is only redeemed for an order whose customer paid what was
\* due, give or take one cent.
CreditIsFunded ==
    \A o \in redeemed \cup inflight : collected[o] \in (Due - 1)..(Due + 1)

\* An order with a completion date was credited, whatever refund, failed audit
\* row or second fulfilment came after it.
CompletedIsCredited ==
    \A o \in Orders :
      orders[o].completedAt \/ orders[o].status = "COMPLETED" => o \in redeemed

\* No cancellation or expiry closes an order that has taken a payment: the
\* sweep and a cancellation act on a status they read before asking the
\* provider, and the payment may be confirmed in between.
PaidIsNotClosed ==
    \A o \in Orders :
      orders[o].paidAt =>
        orders[o].status \notin {"PENDING", "CANCELLED", "EXPIRED"}

\* As long as no request was lost, a notification that was answered with
\* success is about an order that was closed or deleted before its payment,
\* that was credited, that failed, or that some request is fulfilling.
AckedIsSettled ==
    Faultless =>
      \A o \in acked :
        \/ ~orders[o].paidAt
        \/ o \in redeemed
        \/ orders[o].status = "FAILED"
        \/ \E h \in Handlers :
             OrderOf(h) = o /\ handler[h].pc \in LockedPCs \cup {"audit_retry", "exec", "lock"}

\* As long as no request was lost, a provider that collected what was due is
\* eventually told so, unless the creation of the order failed and deleted it.
PaymentIsAcknowledged ==
    \A o \in Orders :
      collected[o] # NULL /\ AmountAccepted(collected[o])
        ~> o \in acked \/ ~Exists(orders[o]) \/ ~Faultless

\* "将限额校验与订单创建放在同一个 serializable 事务中，防止并发突破限额": the
\* check of the limits and the insertion share a serializable transaction, so
\* concurrent creations cannot exceed them.
PendingWithinMax == Cardinality(PendingOrders) <= MaxPending

-----------------------------------------------------------------------------
(***************************************************************************)
(* The inductive invariant behind the safety properties, in five parts.    *)
(***************************************************************************)

\* Where a creation has not inserted its row yet, and where the row is its own.
BeforeInsertPCs == {"count_pending", "sum_user", "sum_method", "insert"}
AfterInsertPCs == CreatePCs \ BeforeInsertPCs

\* An order has one creation; nobody else knows of it before its row is there,
\* and only its creation takes the row away.
CreationInv ==
    /\ \A h \in Handlers :
         IF At(h, "idle") THEN OrderOf(h) = NULL ELSE OrderOf(h) \in begun
    /\ \A h \in Handlers, k \in Handlers :
         OrderOf(h) = OrderOf(k) /\ handler[h].pc \in CreatePCs =>
           \/ h = k
           \/ handler[h].pc \in AfterInsertPCs /\ handler[k].pc \notin CreatePCs
    /\ \A o \in Orders :
         o \notin begun \/ (\E h \in Handlers : OrderOf(h) = o
                                             /\ handler[h].pc \in BeforeInsertPCs)
         => orders[o] = Absent /\ gateway[o] = "none" /\ o \notin acked
    /\ \A h \in Handlers :
         /\ handler[h].pc \in AfterInsertPCs => Exists(RowOf(h))
         /\ At(h, "provider") => gateway[OrderOf(h)] = "none"

AmountPaid(o) == collected[o] # NULL /\ AmountAccepted(collected[o])

PaidStatuses == {"PAID", "RECHARGING", "COMPLETED", "FAILED"}

\* What was collected is final, and was compared with what was due before a
\* row is marked paid and before anything is redeemed.
PaymentInv ==
    /\ \A o \in Orders : gateway[o] = "paid" <=> collected[o] # NULL
    /\ \A h \in Handlers :
         /\ At(h, "find") => collected[OrderOf(h)] # NULL
         /\ handler[h].pc \in {"mark_paid", "reread", "audit_paid"}
                               \cup FulfilPCs \cup RetryPCs => AmountPaid(OrderOf(h))
    /\ \A o \in Orders : orders[o].paidAt => AmountPaid(o)
    /\ \A o \in redeemed \cup inflight : AmountPaid(o)

\* A row is paid exactly in the statuses that say so, and once a request works
\* on its fulfilment it stays paid, or is deleted.
RowInv ==
    /\ \A o \in Orders : orders[o].paidAt <=> orders[o].status \in PaidStatuses
    /\ CompletedIsCredited
    /\ \A h \in Handlers :
         /\ handler[h].pc \in {"audit_paid"} \cup FulfilPCs \cup RetryPCs
         /\ Exists(RowOf(h))
         => RowOf(h).paidAt

\* The holder of the fulfilment lock and its row agree.
LockInv ==
    /\ SingleFulfiller
    /\ \A h \in Handlers :
         /\ handler[h].pc \in {"redeem", "complete"} /\ Exists(RowOf(h)) =>
              RowOf(h).status = "RECHARGING"
         /\ At(h, "audit_success") /\ Exists(RowOf(h)) =>
              RowOf(h).status = "COMPLETED"
         /\ At(h, "fail") /\ Exists(RowOf(h)) =>
              RowOf(h).status \in {"RECHARGING", "COMPLETED"}
         /\ handler[h].pc \in {"complete", "audit_success"} => OrderOf(h) \in redeemed

\* Someone at one of these places works on the order.
AtWork(o, pcs) == \E h \in Handlers : OrderOf(h) = o /\ handler[h].pc \in pcs

\* A payment that was refused, or acknowledged, cannot be accepted any more;
\* and without lost requests a paid row has someone who fulfils it.
AckInv ==
    /\ \A h \in Handlers : At(h, "reread") => ~IsPayable(RowOf(h))
    /\ \A o \in acked : ~IsPayable(orders[o])
    /\ Faultless =>
         \A o \in Orders :
           /\ orders[o].status = "PAID" =>
                AtWork(o, {"audit_paid", "audit_retry", "exec", "lock"})
           /\ orders[o].status = "PAID" /\ o \in acked =>
                AtWork(o, {"audit_retry", "exec", "lock"})
           /\ orders[o].status = "RECHARGING" => AtWork(o, LockedPCs)

IInv == /\ TypeOK /\ CreationInv /\ PaymentInv
        /\ RowInv /\ LockInv /\ AckInv

=============================================================================
