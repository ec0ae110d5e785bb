-------------------------- MODULE OrderFulfillment --------------------------
(***************************************************************************)
(* The life of paid orders in src/order/service.rs: payment notifications, *)
(* cancellations by the user and by an administrator, administrators'      *)
(* retries, the expiry sweep of src/order/timeout.rs, and the fulfilment   *)
(* they all call, running concurrently on one orders table.                *)
(*                                                                         *)
(* A handler is one HTTP request in progress.  Between two of its actions  *)
(* it awaits the database or the platform and any other handler may run;   *)
(* each action is one call it awaits, together with the local decisions up *)
(* to the next call.  The audit rows a handler appends are written between *)
(* two such calls and read by no handler, so they are left out; an append  *)
(* that fails ends the handler as any other error does (Interrupt).        *)
(*                                                                         *)
(* The rows exist throughout: creation and deletion of orders, and the     *)
(* paths taken when a row is missing, are not part of this module.         *)
(***************************************************************************)
EXTENDS OrderRepository, FiniteSets

CONSTANTS
    Orders,            \* the orders, already created and presented for payment
    RefundableOrders,  \* the orders the refund handlers may work on
    Handlers,          \* bound on the requests in progress at one time
    Due,               \* the pay_amount of an order, in cents
    PaidAmounts,       \* the amounts a provider may report as collected
    Ttl,               \* expires_at of the orders, which are created at 0
    Grace,             \* PAYMENT_CONFIRM_GRACE_SECONDS
    MaxNow,            \* bound on the clock
    BatchSize,         \* BATCH_SIZE of the expiry sweep
    OverlapDeliveries, \* may deliveries of one notification overlap?
    Interruptions      \* may a handler or a sweep be cut short?

ASSUME FulfillmentAssumption ==
    /\ RefundableOrders \subseteq Orders
    /\ Due \in Nat \ {0, 1}
    /\ PaidAmounts \subseteq Int
    /\ Ttl \in Nat /\ Grace \in Nat /\ MaxNow \in Nat
    /\ BatchSize \in Nat \ {0}
    /\ OverlapDeliveries \in BOOLEAN /\ Interruptions \in BOOLEAN
    /\ NULL \notin Orders

VARIABLES
    orders,     \* the orders table
    handler,    \* what each handler is doing
    sweep,      \* the rows the current expiry sweep has still to visit
    now,        \* the clock
    collected,  \* what the payment provider collected for each order
    acked,      \* orders whose notification the provider counts as delivered
    requests,   \* redemption requests on their way to the platform
    redeemed,   \* idempotency keys the platform has recorded
    credits,    \* how often the platform credited each order
    abandoned   \* orders whose handler was cut short while it held the lock

dbVars       == <<orders, sweep>>
providerVars == <<collected, acked>>
platformVars == <<requests, redeemed, credits>>
vars == <<orders, handler, sweep, now, collected, acked, requests, redeemed,
          credits, abandoned>>

Time == 0..MaxNow

Tolerance == 1

\* Mutant: a fresh idempotency key for every attempt.
MutantFreshKey(o, h) == <<o, h>>

\* The idempotency key of a redemption: the order's recharge code, whichever
\* handler sends it.
RedeemKey(o, h) == o

Operations == {"notify", "cancel", "admin_cancel", "retry"}

\* The places at which a handler holds the fulfilment lock.
LockedPCs == {"prepare", "answer", "complete", "fail"}

PCs == {"idle", "confirm", "mark_paid", "confirm_reread", "cancel",
        "cancel_reread", "reset", "exec_read", "lock", "lock_reread"}
         \cup LockedPCs

Idle == [pc |-> "idle", op |-> "notify", order |-> NULL, at |-> 0]

HandlerState ==
    [pc : PCs, op : Operations, order : Orders \cup {NULL}, at : Time]

TypeOK ==
    /\ orders \in [Orders -> Row(Time, Int)]
    /\ handler \in [Handlers -> HandlerState]
    /\ \A h \in Handlers : handler[h].pc # "idle" => handler[h].order \in Orders
    /\ \A h \in Handlers : handler[h].pc \in {"confirm", "mark_paid"} =>
         collected[handler[h].order] # NULL
    /\ sweep \subseteq Orders
    /\ now \in Time
    /\ collected \in [Orders -> PaidAmounts \cup {NULL}]
    /\ acked \subseteq Orders
    /\ requests \subseteq [key : Orders, order : Orders]
    /\ redeemed \subseteq Orders
    /\ credits \in [Orders -> Nat]
    /\ abandoned \subseteq Orders

Init ==
    /\ orders = [o \in Orders |-> PendingRow(Due, Ttl, 0)]
    /\ handler = [h \in Handlers |-> Idle]
    /\ sweep = {}
    /\ now = 0
    /\ collected = [o \in Orders |-> NULL]
    /\ acked = {}
    /\ requests = {}
    /\ redeemed = {}
    /\ credits = [o \in Orders |-> 0]
    /\ abandoned = {}

-----------------------------------------------------------------------------
(***************************************************************************)
(* How a handler moves.                                                    *)
(***************************************************************************)

OrderOf(h) == handler[h].order

RowOf(h) == orders[OrderOf(h)]

At(h, pc) == handler[h].pc = pc

Goto(h, pc) == handler' = [handler EXCEPT ![h].pc = pc]

\* now_timestamp() is called and the handler moves on.
GotoAt(h, pc) == handler' = [handler EXCEPT ![h].pc = pc, ![h].at = now]

Begin(h, op, o, pc) ==
    /\ At(h, "idle")
    /\ handler' = [handler EXCEPT
                     ![h] = [pc |-> pc, op |-> op, order |-> o, at |-> now]]

Finish(h) == handler' = [handler EXCEPT ![h] = Idle]

\* The boolean of handle_verified_notification decides what the provider is
\* answered: "success" or HTTP 200 ends its redelivery.
Reply(h, ok) ==
    /\ Finish(h)
    /\ acked' = IF ok /\ handler[h].op = "notify"
                THEN acked \cup {OrderOf(h)} ELSE acked

SetRow(h, row) == orders' = [orders EXCEPT ![OrderOf(h)] = row]

-----------------------------------------------------------------------------
(***************************************************************************)
(* The provider collects a payment and reports it.  A notification may be  *)
(* delivered any number of times, also after it was acknowledged.          *)
(***************************************************************************)

CustomerPays(o) ==
    /\ collected[o] = NULL
    /\ \E amount \in PaidAmounts : collected' = [collected EXCEPT ![o] = amount]
    /\ UNCHANGED <<dbVars, handler, now, acked, platformVars, abandoned>>

DeliverNotification(h, o) ==
    /\ collected[o] # NULL
    /\ OverlapDeliveries \/ \A x \in Handlers :
           At(x, "idle") \/ handler[x].op # "notify" \/ OrderOf(x) # o
    /\ Begin(h, "notify", o, "confirm")
    /\ UNCHANGED <<dbVars, now, providerVars, platformVars, abandoned>>

\* Mutant: the sign of the difference is forgotten.
MutantNoAbs(expected, paid) == paid - expected <= Tolerance

AmountAccepted(expected, paid) ==
    LET diff == IF paid >= expected THEN paid - expected ELSE expected - paid
    IN diff <= Tolerance

\* confirm_payment_at reads the row and checks the amount that was paid.
\* Without a positive amount there is nothing to retry (StopRetry, answered
\* true); a wrong amount is audited and refused (AmountMismatch, false).
ConfirmRead(h) ==
    /\ At(h, "confirm")
    /\ LET paid == collected[OrderOf(h)] IN
       \/ paid <= 0 /\ Reply(h, TRUE)
       \/ paid > 0 /\ ~AmountAccepted(RowOf(h).pay_amount, paid) /\ Reply(h, FALSE)
       \/ /\ paid > 0 /\ AmountAccepted(RowOf(h).pay_amount, paid)
          /\ Goto(h, "mark_paid")
          /\ UNCHANGED acked
    /\ UNCHANGED <<dbVars, now, collected, platformVars, abandoned>>

GraceCutoff(h) == handler[h].at - Grace

MarkPaid(h) ==
    /\ At(h, "mark_paid")
    /\ IsPayable(RowOf(h), GraceCutoff(h))
    /\ SetRow(h, PaidRow(RowOf(h), collected[OrderOf(h)], handler[h].at, now))
    /\ Goto(h, "exec_read")
    /\ UNCHANGED <<sweep, now, providerVars, platformVars, abandoned>>

MarkPaidRefused(h) ==
    /\ At(h, "mark_paid")
    /\ ~IsPayable(RowOf(h), GraceCutoff(h))
    /\ Goto(h, "confirm_reread")
    /\ UNCHANGED <<dbVars, now, providerVars, platformVars, abandoned>>

\* Mutant: a FAILED order counts as settled.
MutantFailedStopsRetry(h) ==
    /\ At(h, "confirm_reread")
    /\ IF RowOf(h).status \in {"PAID", "RECHARGING"}
       THEN Goto(h, "exec_read") /\ UNCHANGED acked
       ELSE Reply(h, TRUE)
    /\ UNCHANGED <<dbVars, now, collected, platformVars, abandoned>>

\* The row was not payable: RetryLater goes on to the fulfilment, StopRetry
\* acknowledges the notification.
ConfirmReread(h) ==
    /\ At(h, "confirm_reread")
    /\ IF RowOf(h).status \in {"FAILED", "PAID", "RECHARGING"}
       THEN Goto(h, "exec_read") /\ UNCHANGED acked
       ELSE Reply(h, TRUE)
    /\ UNCHANGED <<dbVars, now, collected, platformVars, abandoned>>

-----------------------------------------------------------------------------
(***************************************************************************)
(* Cancellation and manual retry.  The first read refuses an order that is *)
(* in another state (the request fails, nothing is written).               *)
(***************************************************************************)

BeginCancel(h, o) ==
    /\ \E op \in {"cancel", "admin_cancel"} : Begin(h, op, o, "cancel")
    /\ IsPending(orders[o])
    /\ UNCHANGED <<dbVars, now, providerVars, platformVars, abandoned>>

MarkCancelled(h) ==
    /\ At(h, "cancel")
    /\ IsPending(RowOf(h))
    /\ SetRow(h, WithStatus(RowOf(h), "CANCELLED", now))
    /\ Finish(h)
    /\ UNCHANGED <<sweep, now, providerVars, platformVars, abandoned>>

MarkCancelledRefused(h) ==
    /\ At(h, "cancel")
    /\ ~IsPending(RowOf(h))
    /\ Goto(h, "cancel_reread")
    /\ UNCHANGED <<dbVars, now, providerVars, platformVars, abandoned>>

\* The statuses at which a cancellation that came too late fulfils the order.
CancelFulfils(op) ==
    IF op = "admin_cancel" THEN {"PAID", "FAILED"}
    ELSE {"PAID", "FAILED", "RECHARGING", "COMPLETED", "REFUNDED"}

CancelReread(h) ==
    /\ At(h, "cancel_reread")
    /\ IF RowOf(h).status \in CancelFulfils(handler[h].op)
       THEN Goto(h, "exec_read") ELSE Finish(h)
    /\ UNCHANGED <<dbVars, now, providerVars, platformVars, abandoned>>

RetryAllowed(row) ==
    /\ row.paid_at # NULL
    /\ ~IsRefundStatus(row.status)
    /\ row.status \in {"FAILED", "PAID"}

BeginRetry(h, o) ==
    /\ Begin(h, "retry", o, "reset")
    /\ RetryAllowed(orders[o])
    /\ UNCHANGED <<dbVars, now, providerVars, platformVars, abandoned>>

ResetToPaid(h) ==
    /\ At(h, "reset")
    /\ IsResettable(RowOf(h))
    /\ SetRow(h, ResetRow(RowOf(h), now))
    /\ Goto(h, "exec_read")
    /\ UNCHANGED <<sweep, now, providerVars, platformVars, abandoned>>

\* Another read chooses the wording of the refusal.
ResetRefused(h) ==
    /\ At(h, "reset")
    /\ ~IsResettable(RowOf(h))
    /\ Finish(h)
    /\ UNCHANGED <<dbVars, now, providerVars, platformVars, abandoned>>

-----------------------------------------------------------------------------
(***************************************************************************)
(* execute_paid_fulfillment.                                               *)
(***************************************************************************)

ExecuteRead(h) ==
    /\ At(h, "exec_read")
    /\ LET status == RowOf(h).status IN
       IF status \in {"PAID", "FAILED"}
       THEN Goto(h, "lock") /\ UNCHANGED acked
       ELSE Reply(h, status # "RECHARGING")
    /\ UNCHANGED <<dbVars, now, collected, platformVars, abandoned>>

MarkRecharging(h) ==
    /\ At(h, "lock")
    /\ IsLockable(RowOf(h))
    /\ SetRow(h, RechargingRow(RowOf(h), now))
    /\ GotoAt(h, "prepare")
    /\ UNCHANGED <<sweep, now, providerVars, platformVars, abandoned>>

MarkRechargingRefused(h) ==
    /\ At(h, "lock")
    /\ ~IsLockable(RowOf(h))
    /\ Goto(h, "lock_reread")
    /\ UNCHANGED <<dbVars, now, providerVars, platformVars, abandoned>>

LockReread(h) ==
    /\ At(h, "lock_reread")
    /\ Reply(h, RowOf(h).status \in {"COMPLETED", "REFUNDED"})
    /\ UNCHANGED <<dbVars, now, collected, platformVars, abandoned>>

\* Mutant: an error before the request returns early and records nothing.
MutantForgetsLock(h) ==
    /\ At(h, "prepare")
    /\ Reply(h, FALSE)
    /\ UNCHANGED <<dbVars, now, collected, platformVars, abandoned>>

\* No API key, no platform, an unknown order type; for a subscription also a
\* group that is gone, inactive or of another type, a failed look-up of the
\* user's subscriptions, or a validity that cannot be computed.
PrepareFails(h) ==
    /\ At(h, "prepare")
    /\ Goto(h, "fail")
    /\ UNCHANGED <<dbVars, now, providerVars, platformVars, abandoned>>

RequestOf(h) == [key |-> RedeemKey(OrderOf(h), h), order |-> OrderOf(h)]

SendRedeem(h) ==
    /\ At(h, "prepare")
    /\ requests' = requests \cup {RequestOf(h)}
    /\ Goto(h, "answer")
    /\ UNCHANGED <<dbVars, now, providerVars, redeemed, credits, abandoned>>

\* The platform answers a key it has recorded with the recorded success.
AnswerOk(h) ==
    /\ At(h, "answer")
    /\ RequestOf(h).key \in redeemed
    /\ Goto(h, "complete")
    /\ UNCHANGED <<dbVars, now, providerVars, platformVars, abandoned>>

\* A refusal, a timeout or an answer that cannot be read.  The request may
\* still be on its way.
AnswerError(h) ==
    /\ At(h, "answer")
    /\ Goto(h, "fail")
    /\ UNCHANGED <<dbVars, now, providerVars, platformVars, abandoned>>

\* When the UPDATE touches no row the answer is what another read shows.
MarkCompleted(h) ==
    /\ At(h, "complete")
    /\ IF IsCompletable(RowOf(h))
       THEN SetRow(h, CompletedRow(RowOf(h), handler[h].at, now)) /\ Reply(h, TRUE)
       ELSE Reply(h, RowOf(h).status = "COMPLETED") /\ UNCHANGED orders
    /\ UNCHANGED <<sweep, now, collected, platformVars, abandoned>>

\* record_fulfillment_failure ignores whether the UPDATE touched the row.
RecordFailure(h) ==
    /\ At(h, "fail")
    /\ IF IsFailable(RowOf(h)) THEN SetRow(h, FailedRow(RowOf(h), now))
       ELSE UNCHANGED orders
    /\ Reply(h, FALSE)
    /\ UNCHANGED <<sweep, now, collected, platformVars, abandoned>>

-----------------------------------------------------------------------------
(***************************************************************************)
(* The platform: a redemption request takes effect at most once per key.   *)
(***************************************************************************)

PlatformRedeems(q) ==
    /\ requests' = requests \ {q}
    /\ redeemed' = redeemed \cup {q.key}
    /\ credits' = IF q.key \in redeemed THEN credits
                  ELSE [credits EXCEPT ![q.order] = @ + 1]
    /\ UNCHANGED <<dbVars, handler, now, providerVars, abandoned>>

-----------------------------------------------------------------------------
(***************************************************************************)
(* The expiry sweep: one query for a batch of the oldest overdue rows,     *)
(* then one UPDATE per row, which touches only a row still PENDING.        *)
(***************************************************************************)

Overdue == {o \in Orders : IsExpiredPending(orders[o], now)}

SweepList ==
    /\ sweep = {}
    /\ \E batch \in SUBSET Overdue \ {{}} :
         /\ Cardinality(batch) <= BatchSize
         /\ Cardinality(batch) = BatchSize \/ batch = Overdue
         /\ \A o \in batch, x \in Overdue \ batch :
              orders[o].expires_at <= orders[x].expires_at
         /\ sweep' = batch
    /\ UNCHANGED <<orders, handler, now, providerVars, platformVars, abandoned>>

SweepExpires(o) ==
    /\ o \in sweep
    /\ sweep' = sweep \ {o}
    /\ orders' = IF IsPending(orders[o])
                 THEN [orders EXCEPT ![o] = WithStatus(@, "EXPIRED", now)]
                 ELSE orders
    /\ UNCHANGED <<handler, now, providerVars, platformVars, abandoned>>

-----------------------------------------------------------------------------
(***************************************************************************)
(* The rest of the system.                                                 *)
(***************************************************************************)

\* Any write the refund handlers make to a row, whenever its WHERE allows it.
RefundWrites(o) ==
    LET row == orders[o] IN
    /\ o \in RefundableOrders
    /\ \/ /\ IsRefundRequestable(row, TRUE)
          /\ orders' = [orders EXCEPT ![o] = RefundRequestedRow(row, Due, now)]
       \/ /\ IsRefundable(row)
          /\ orders' = [orders EXCEPT ![o] = RefundingRow(row, now)]
       \/ /\ IsRefunding(row)
          /\ \/ \E s \in {"COMPLETED", "REFUND_REQUESTED"} :
                  orders' = [orders EXCEPT ![o] = RestoredRow(row, s, now)]
             \/ orders' = [orders EXCEPT ![o] = RefundFailedRow(row, now)]
             \/ \E s \in {"PARTIALLY_REFUNDED", "REFUNDED"} :
                  orders' = [orders EXCEPT ![o] = RefundedRow(row, s, Due, now)]
    /\ UNCHANGED <<handler, sweep, now, providerVars, platformVars, abandoned>>

Tick ==
    /\ now < MaxNow
    /\ now' = now + 1
    /\ UNCHANGED <<dbVars, handler, providerVars, platformVars, abandoned>>

\* A handler ends in the middle: its process dies, its connection closes, or
\* a database call returns an error that ? passes on.
Interrupt(h) ==
    /\ Interruptions
    /\ ~At(h, "idle")
    /\ Finish(h)
    /\ abandoned' = IF handler[h].pc \in LockedPCs
                    THEN abandoned \cup {OrderOf(h)} ELSE abandoned
    /\ UNCHANGED <<dbVars, now, providerVars, platformVars>>

\* An error on one row ends the whole sweep; the next tick lists again.
SweepInterrupt ==
    /\ Interruptions
    /\ sweep # {}
    /\ sweep' = {}
    /\ UNCHANGED <<orders, handler, now, providerVars, platformVars, abandoned>>

Progress(h) ==
    \/ ConfirmRead(h) \/ MarkPaid(h) \/ MarkPaidRefused(h) \/ ConfirmReread(h)
    \/ MarkCancelled(h) \/ MarkCancelledRefused(h) \/ CancelReread(h)
    \/ ResetToPaid(h) \/ ResetRefused(h)
    \/ ExecuteRead(h) \/ MarkRecharging(h) \/ MarkRechargingRefused(h)
    \/ LockReread(h) \/ PrepareFails(h) \/ SendRedeem(h)
    \/ AnswerOk(h) \/ AnswerError(h) \/ MarkCompleted(h) \/ RecordFailure(h)

Next ==
    \/ \E h \in Handlers :
         \/ Progress(h)
         \/ Interrupt(h)
         \/ \E o \in Orders : \/ DeliverNotification(h, o)
                              \/ BeginCancel(h, o)
                              \/ BeginRetry(h, o)
    \/ \E o \in Orders : CustomerPays(o) \/ SweepExpires(o) \/ RefundWrites(o)
    \/ \E q \in requests : PlatformRedeems(q)
    \/ SweepList
    \/ SweepInterrupt
    \/ Tick

Spec == Init /\ [][Next]_vars

-----------------------------------------------------------------------------
(***************************************************************************)
(* Safety.                                                                 *)
(***************************************************************************)

HoldsLock(h, o) == handler[h].pc \in LockedPCs /\ OrderOf(h) = o

Owed == {"PAID", "RECHARGING", "FAILED"}

\* The provider collected what the order asks for, up to the tolerance.
Funded(o) == collected[o] \in (Due - Tolerance)..(Due + Tolerance)

\* Whatever notifications, retries and cancellations race, and however many
\* redemption requests time out and arrive late, the platform credits an order
\* at most once: every request for it carries the same idempotency key.
CreditedAtMostOnce == \A o \in Orders : credits[o] <= 1

\* The platform never credits an order whose payment was not collected in
\* full (confirm_payment_at accepts a difference of one cent).
CreditsAreFunded == \A o \in Orders : credits[o] > 0 => Funded(o)

\* Two handlers never fulfil one order at the same time: the conditional
\* UPDATE to RECHARGING is a lock.
SingleFulfiller ==
    \A h1, h2 \in Handlers, o \in Orders :
        HoldsLock(h1, o) /\ HoldsLock(h2, o) => h1 = h2

\* A row in RECHARGING is in the hands of a running handler, unless that
\* handler was cut short: no path through the fulfilment forgets the lock.
LockHasHolder ==
    \A o \in Orders : orders[o].status = "RECHARGING" =>
        o \in abandoned \/ \E h \in Handlers : HoldsLock(h, o)

\* What a user or an administrator is shown about an order is true: it is
\* shown as paid only if its payment was collected, as recharged only if it
\* was credited, and as retryable only if it is paid and unfulfilled.
DerivedStateTruthful ==
    \A o \in Orders :
        /\ DeriveOrderState(orders[o]).payment_success => Funded(o)
        /\ DeriveOrderState(orders[o]).recharge_success => credits[o] = 1
        /\ DeriveOrderState(orders[o]).recharge_status = "PaidPending" =>
             orders[o].status = "PAID"
        /\ IsRechargeRetryable(orders[o]) =>
             RetryAllowed(orders[o]) /\ orders[o].completed_at = NULL

\* A notification of a good payment is acknowledged only when there is
\* nothing left to do: the order is credited, or it was cancelled, or the
\* handling began more than Grace after the order's deadline.  Otherwise the
\* provider would stop redelivering a payment that is still owed.
Acknowledges(h) ==
    /\ handler[h].op = "notify"
    /\ ~At(h, "idle")
    /\ handler'[h].pc = "idle"
    /\ OrderOf(h) \in acked' \ acked

AckOnlyWhenSettled ==
    [][\A h \in Handlers :
         Acknowledges(h) /\ Funded(OrderOf(h)) =>
            \/ credits[OrderOf(h)] = 1
            \/ RowOf(h).status = "CANCELLED"
            \/ handler[h].at > RowOf(h).expires_at + Grace]_vars

\* The detailed service implements OrderLifecycle.
PhaseOf(status) ==
    CASE status = "PENDING"              -> "open"
      [] status = "EXPIRED"              -> "lapsed"
      [] status = "CANCELLED"            -> "cancelled"
      [] status \in Owed                 -> "owed"
      [] status = "COMPLETED"            -> "delivered"
      [] status \in {"REFUND_REQUESTED", "REFUNDING", "REFUND_FAILED"}
                                         -> "reversing"
      [] status \in {"PARTIALLY_REFUNDED", "REFUNDED"} -> "reversed"

Lifecycle == INSTANCE OrderLifecycle WITH
    phase  <- [o \in Orders |-> PhaseOf(orders[o].status)],
    funded <- {o \in Orders : Funded(o)}

\* Every step of the service is a step the purchase contract allows, or none:
\* in particular a cancelled order stays cancelled, a credit comes only while
\* the order is owed, and delivery is recorded only after the credit.
ImplementsLifecycle == Lifecycle!LSpec

\* README.md: the service can recover an order that was paid and whose
\* fulfilment failed.  A paid order that no handler is fulfilling should then
\* be open to an administrator's retry.
PaidIsRecoverable ==
    \A o \in Orders :
        orders[o].status \in Owed /\ ~(\E h \in Handlers : HoldsLock(h, o))
          => RetryAllowed(orders[o])

-----------------------------------------------------------------------------
(***************************************************************************)
(* The inductive invariant behind the safety properties, in four parts.    *)
(***************************************************************************)

Settled == {"COMPLETED"} \cup RefundStatuses

\* The status RECHARGING and the handlers inside the fulfilment agree.
LockInv ==
    /\ \A h \in Handlers :
         handler[h].pc \in LockedPCs => RowOf(h).status = "RECHARGING"
    /\ SingleFulfiller
    /\ LockHasHolder

\* Where the credit of an order may be: a request not yet redeemed belongs to
\* an order still owed, and nothing is settled before it is redeemed.
CreditInv ==
    /\ \A q \in requests :
         /\ q.key = q.order
         /\ q.key \in redeemed \/ orders[q.order].status \in Owed
    /\ \A o \in Orders : credits[o] = IF o \in redeemed THEN 1 ELSE 0
    /\ \A h \in Handlers : At(h, "complete") => OrderOf(h) \in redeemed
    /\ \A o \in Orders : orders[o].status \in Settled => o \in redeemed
    /\ \A o \in redeemed : orders[o].status \in Owed \cup Settled

\* What the columns and the handlers know about the payment.
PaymentInv ==
    /\ \A o \in Orders :
         orders[o].paid_at # NULL <=> orders[o].status \in Owed \cup Settled
    /\ \A o \in Orders : orders[o].paid_at # NULL => Funded(o)
    /\ \A o \in Orders : orders[o].paid_at = NULL => orders[o].pay_amount = Due
    /\ \A o \in Orders :
         orders[o].completed_at # NULL => orders[o].status \in Settled
    /\ \A h \in Handlers : handler[h].pc \in {"confirm", "mark_paid"} =>
         handler[h].op = "notify"
    /\ \A h \in Handlers : At(h, "mark_paid") => Funded(OrderOf(h))
    /\ \A h \in Handlers :
         handler[h].pc \in {"exec_read", "lock", "lock_reread"} \cup LockedPCs =>
           RowOf(h).paid_at # NULL

\* When an order may count as too late for its payment.
DeadlineInv ==
    /\ \A o \in sweep : orders[o].expires_at < now
    /\ \A o \in Orders : orders[o].status = "EXPIRED" =>
         orders[o].updated_at > orders[o].expires_at
    /\ \A h \in Handlers : At(h, "confirm_reread") =>
         /\ RowOf(h).status # "PENDING"
         /\ RowOf(h).status = "EXPIRED" =>
              handler[h].at > RowOf(h).expires_at + Grace

IInv == TypeOK /\ LockInv /\ CreditInv /\ PaymentInv /\ DeadlineInv

-----------------------------------------------------------------------------
(***************************************************************************)
(* Liveness.  The runtime runs every task and the interval timer fires;    *)
(* the provider redelivers until it is acknowledged; the platform handles  *)
(* the requests that reach it, and it is not down at every attempt.        *)
(***************************************************************************)

Redeliver(o) == o \notin acked /\ \E h \in Handlers : DeliverNotification(h, o)

Fairness ==
    /\ WF_vars(Tick)
    /\ WF_vars(SweepList)
    /\ \A o \in Orders :
         /\ WF_vars(SweepExpires(o))
         /\ SF_vars(Redeliver(o))
         /\ SF_vars(\E h \in Handlers : OrderOf(h) = o /\ SendRedeem(h))
         /\ SF_vars(\E h \in Handlers : OrderOf(h) = o /\ AnswerOk(h))
    /\ \A h \in Handlers : WF_vars(Progress(h))
    /\ WF_vars(\E q \in requests : PlatformRedeems(q))

FairSpec == Spec /\ Fairness

\* A paid order is fulfilled in the end, whatever the platform answered to the
\* first attempts and whatever retries and cancellations intervene.
OwedIsDelivered ==
    \A o \in Orders :
        orders[o].status \in Owed ~> orders[o].status = "COMPLETED"

\* No order stays PENDING for ever: the sweep reaches every overdue row, also
\* when more rows are overdue than one batch holds.
PendingIsResolved ==
    \A o \in Orders : orders[o].status = "PENDING" ~> orders[o].status # "PENDING"

=============================================================================
