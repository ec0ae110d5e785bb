# A verification of opay's order service

opay sells balance recharges and subscriptions: it creates an order, sends the
customer to a payment provider (Stripe or EasyPay), waits for the provider's
notification, and then credits the customer's account on the *platform*, an
external service. This directory holds TLA+ models of the Rust backend
(`src/src/`), of the browser pages and of the TypeScript server library the
backend was ported from (`src/frontend/src/`), the TLC configurations that check
them, and TLAPS proofs.

## 1. Inventory

### Components, their state and their operations

| component | source | state | operations |
|---|---|---|---|
| order status | `order/status.rs` | none | `is_refund_status`, `is_recharge_retryable`, `derive_order_state` |
| order repository | `order/repository.rs` | table `orders` | `insert_pending`, eleven conditional `UPDATE`s, `set_payment_details`, `delete_by_id`, listings and counts |
| payment confirmation and fulfilment | `order/service.rs` | none of its own | `handle_verified_notification`, `confirm_payment_at`, `cancel_order`, `admin_cancel_order`, `retry_recharge`, `execute_paid_fulfillment` |
| expiry sweep | `order/timeout.rs` | a timer | every 30 s, `expire_pending_orders` for at most 50 rows |
| refund | `order/service.rs`, `http/admin/refund.rs` | none of its own | `request_refund`, `process_refund`: deduct on the platform, refund at the gateway, roll back |
| order creation | `order/service.rs`, `http/orders.rs` | none of its own | `create_pending_order`, provider call, `attach_payment_creation`, `delete_order` |
| payment selection | `payment.rs` | none | method, fee, limits, load balancing over provider instances |
| payment providers | `payment_provider.rs` | none | create, refund, verify a webhook |
| platform client | `platform.rs` | none | `create_and_redeem`, balance, subscriptions |
| system configuration | `system_config.rs` | table and an in-memory cache | `get`, `set_many`, `invalidate` |
| database layer | `db.rs` | connections | `BEGIN CONCURRENT` transactions, migrations |
| plans, channels, provider instances, audit log | `subscription_plan.rs`, `channel.rs`, `provider_instances.rs`, `order/audit.rs` | one table each | single-statement administration |
| HTTP layer | `http/**` | none | routes, access tokens, read-only views |
| customer's pages | `app/pay/page.tsx`, `components/PaymentQRCode.tsx`, `OrderStatus.tsx`, `app/pay/orders/page.tsx`, `OrderTable.tsx`, `app/pay/result/page.tsx`, `stripe-popup/page.tsx` | React state, timers, `postMessage` | submit, poll, cancel, go back, list, load more; turn pages, request a refund; poll and close; the popup's handshake |
| administrator's pages | `app/admin/**`, `components/admin/RefundDialog.tsx` | React state | lists with their forms, switches and imports; payment settings; orders, retries, refunds |
| order service in TypeScript | `lib/order/service.ts`, `status.ts`, `timeout.ts` | table `orders` (PostgreSQL) | the same operations as in Rust, in other steps: unconditional updates, audit rows that abort |
| selection and limits in TypeScript | `lib/order/limits.ts`, `fee.ts`, `lib/payment/**` | registered providers, round-robin counters | publish limits, choose an instance, charge a fee |
| gateway adapters | `lib/easy-pay`, `lib/stripe`, `lib/wxpay`, `lib/alipay`, `app/pay/[orderId]/route.ts` | none | create, query, cancel a trade; verify a notification; the payment entry page |
| settings in TypeScript | `lib/system-config.ts` | table and an in-memory cache | read, write, invalidate |

### How they interact

Every HTTP request is a task of the tokio runtime. Tasks share the database, the
configuration cache and the external services, and nothing else: the order
service keeps no lock in memory. Each repository method opens its own
transaction, so a handler is a sequence of atomic database or network calls
between which any other handler may run. The row's `status` is the only lock
(`RECHARGING` for a fulfilment, `REFUNDING` for a refund). Providers redeliver a
notification until it is answered with success; the platform is idempotent per
`Idempotency-Key`.

A page's handler runs up to its next `await`; what it awaits is answered in any
order, late, or not at all, while the customer and the page's timers go on. Pages
share only what is on the server; the Stripe popup and its opener exchange
messages. The TypeScript library is not reached by the router any more, but it
is in the repository, it is what the Rust service was ported from, and
`PaymentForm` and the pages still import parts of it.

### What is hard, and what makes each component correct

* *Confirmation and fulfilment*: duplicate and overlapping notifications,
  cancellations and retries race for a row; answers of the platform are lost; a
  request may end anywhere. Correct when no payment is credited twice, nothing
  unpaid is credited, nothing owed is acknowledged to the provider, and what is
  owed is delivered in the end.
* *Sweep*: races with payments; must leave paid rows alone and reach every
  overdue row.
* *Refund*: three systems change in turn (platform, gateway, row) and each step
  may fail or have an unknown outcome; a failed audit row ends a refund whose
  row is already released. Correct when the customer is never
  refunded twice and never loses balance without a refund or a visible failure.
* *Creation*: check-then-insert limits, an intent without an order, an order
  without an intent. Correct when limits are overrun by no more than what was on
  its way, and nobody can pay for an order the server does not know.
* *Offer*: published limits, the chosen instance and the charged fee are computed
  in different places at different times. Correct when what the page offers is
  not refused.
* *Trade*: four gateways with words of their own, a cancellation that asks the
  gateway and then acts, early and failed notifications. Correct when the order
  goes where the money is.
* *Pages*: stale and reordered answers, flags that disable buttons, a handshake
  between windows. Correct when no outcome is announced that the order asked
  about never had, a set flag means one submission under way, and nobody waits in
  vain.
* *Configuration cache*: a value that stays stale after an administrator's
  write.
* *Selection and validity*: pure functions with boundaries (limits, cents,
  calendar dates).

`PROJECT.json` lists the hazards line by line, with the properties that cover
them.

## 2. Plan

1. `OrderStatus`, `OrderRepository`: the shared vocabulary. *Done.*
2. `OrderFulfillment` (composes both), its abstract contract `OrderLifecycle`,
   its proofs. *Done: model, runs, theorems for every safety property and the
   refinement.*
3. `Refund`: `request_refund`, `process_refund`, deduction, gateway, rollback.
   *Done: model, runs, theorems for every safety property.*
4. `LibStatus`, `LibOrders`, `LibRefund`: the TypeScript order service.
   *Done: models, runs, theorems for every safety property.*
5. `OrderServer`, `PayPage`, `MyOrdersPage`, `ReturnPage`, `StripePopup`, `AdminLists`,
   `AdminOrders`, composed by `Pages`. *Done: models, run, theorems for every
   safety property.*
6. `PaymentLimits` (pure), `Shop`, `ProviderTrades`, `ConfigCache`,
   `CancelLimit`, `OrderCreation`, composed by `Checkout`. *Done: models, run,
   theorems for every safety property.*
7. *Left*: an abstract contract of the TypeScript service, and of the refund,
   like `OrderLifecycle`; the two hazards about limits of several instances and
   about the months of a plan, which no property covers.

## 3. The models

### OrderStatus, OrderRepository

`OrderStatus` translates `status.rs` one function to one operator.
`OrderRepository` gives each conditional `UPDATE` as two operators, the `WHERE`
as a predicate (`IsPayable`, `IsLockable`, ...) and the `SET` as the row written
(`PaidRow`, `RechargingRow`, ...); since every repository method is one
transaction, a model applies both in one action. A row keeps the columns that
some guard or property reads.

### OrderFulfillment

| state | meaning in the program |
|---|---|
| `orders` | table `orders` |
| `handler` | the requests in progress: where each is (`pc`), what it does (`op`), its order, and the timestamp it took (`at`) |
| `sweep` | the batch the timer task is walking through |
| `now` | the clock of the process and of the database |
| `collected`, `acked` | at the provider: amount collected, notification acknowledged |
| `requests`, `redeemed`, `credits` | on the platform: requests under way, keys recorded, credits made |
| `abandoned` | history: orders whose handler ended while it held the lock |

One action is one awaited call with the local decisions up to the next one:

| source | actions |
|---|---|
| `confirm_payment_at`, `handle_verified_notification` | `DeliverNotification`, `ConfirmRead`, `MarkPaid`, `MarkPaidRefused`, `ConfirmReread` |
| `cancel_order`, `admin_cancel_order` | `BeginCancel`, `MarkCancelled`, `MarkCancelledRefused`, `CancelReread` |
| `retry_recharge` | `BeginRetry`, `ResetToPaid`, `ResetRefused` |
| `execute_paid_fulfillment` and the two fulfilments | `ExecuteRead`, `MarkRecharging`, `MarkRechargingRefused`, `LockReread`, `PrepareFails`, `SendRedeem`, `AnswerOk`, `AnswerError`, `MarkCompleted`, `RecordFailure` |
| `expire_pending_orders_at` | `SweepList`, `SweepExpires`, `SweepInterrupt` |
| refund writes | `RefundWrites` (any write of a refund, whenever its `WHERE` allows) |
| environment | `CustomerPays`, `PlatformRedeems`, `Tick`, `Interrupt` |

A request to the platform is a message: `AnswerError` does not withdraw it, so a
timed-out redemption may still take effect later (`PlatformRedeems`).
`Interrupt` ends a handler anywhere: a crash, a dropped connection, or a
database error that `?` passes on (a conflict at COMMIT included).

Left out: audit rows (append-only, read by no handler; a failing append ends the
handler where it is, an `Interrupt`), the wording of errors, the columns nothing reads, missing rows
(creation and deletion are `OrderCreation`'s), and the amount and days of a
redemption.

### OrderLifecycle

The contract of one purchase without handlers, clock or database: open, lapsed,
cancelled, owed, delivered, reversing, reversed; a credit happens once, while
owed. `OrderFulfillment!ImplementsLifecycle` is this specification under the
refinement mapping that reads the phase off the status.

### Refund

The same rows seen from the refund, with the two external systems in detail
(`OrderFulfillment` has the refund's writes, at any time its `WHERE` allows).

| state | meaning in the program |
|---|---|
| `orders`, `handler`, `now` | as above; a handler keeps the status it read before the lock (`seen`), the `DeductionPlan` (`plan`) and the second of its last balance operation (`at`) |
| `calls`, `applied`, `taken` | on the platform: balance operations under way, keys recorded, balance taken net of what was given back |
| `asked`, `returned` | at the gateway: refunds under way, refunds made |
| `tries`, `history` | bound on attempts; history variables of the properties |

| source | actions |
|---|---|
| `request_refund` | `BeginRequest`, `MarkRefundRequested` |
| `process_refund`, `prepare_deduction` | `BeginRefund` (validation, amounts, plan), `MarkRefunding`, `MarkRefundingRefused`, `MarkRefundFailed` and `LateRefundFailed` (the `Err` arm, before and after the row was released) |
| `execute_deduction` | `SubtractBalance`, `NothingToDeduct`, `DeductionOk`, `DeductionError` |
| `process_refund_locked` | `AskGateway`, `GatewayOk`, `GatewayError`, `Restore`, `MarkRefunded`, `AuditRefund`, `DbError` |
| `rollback_deduction` | `AddBalance`, `RollbackOk`, `RollbackError` |
| environment | `PlatformApplies`, `GatewayRefunds`, `Tick`, `Interrupt` |

An answer that is an error does not withdraw the call: the deduction, the
rollback or the gateway's refund may still happen, also after the next attempt
has begun. An idempotency key names the order and the second, so a retry in
another second deducts again, and in the same second does nothing (the platform
answers success for a key it has recorded). Properties about amounts exempt
orders for which a key was used twice (`history.collided`); `RefundedOnce`
exempts those whose confirmed refund the database could not record
(`history.unrecorded`), since they end as REFUND_FAILED and may be refunded
again.

After `Restore` and `MarkRefunded` a handler still writes an audit row
(`AuditRefund`). If that fails, the `Err` arm (`service.rs:707`) runs
`mark_refund_failed`, whose `WHERE` asks only that the row is REFUNDING. After a
restore another administrator may have locked it: `LateRefundFailed` then ends
the refund of that one, who goes on without the lock, and a third may enter.
Such orders are in `history.overtaken`. `SingleRefunder`, `RefundedOnce` and the
gateway's half of `ReversedIsFinal` exempt them; `RefundingHasHolder`,
`ReversedIsBacked`, `NeverMinted` and the row's half of `ReversedIsFinal` do not,
and hold of them too. A failing `mark_refund_failed` is ignored by the code
(`service.rs:709`) and leaves the row as it is, which is an `Interrupt` at that
place.

Left out: the other audit rows (one that fails before the row is released ends in
the same arm as the call before it), the reason texts, `force` beyond its effect on the plan
(it may be nothing), subscription days (they follow the path of the balance),
and the branch that skips the gateway for an order without a
`payment_trade_no`, which no delivered order is.

### LibStatus, LibOrders, LibRefund

`LibOrders` is `lib/order/service.ts` with the sweep of `timeout.ts`: creation,
cancellation by user and administrator, confirmation, fulfilment and retry. A
handler is one request; an action is one awaited call with the local decisions
up to the next. It differs from the Rust service where the code does: the
outcome of a failure is written by an unconditional update, an order whose
creation failed is deleted, and an audit row that cannot be written aborts what
it was about to report, so audit writes are steps. `LibRefund` extends it with
`requestRefund` and `processRefund` by several administrators while
notifications are still redelivered. `faults` counts lost requests and failed
database calls, `outages` failures of the gateway and the platform; a call that
timed out may still be carried out (`inflight`, `unanswered`). The plan of a
refund is any part of the amount, nothing included: the code takes the smaller
of the amount and the balance (`service.ts:1301`).

### OrderCreation

`create_order` of `http/orders.rs` for one user and the orders of one provider
instance: `resolve_payment_selection` (the instance's daily limit counts what is
paid), `count_pending_by_user`, `insert_pending`, `create_payment_for_order`,
`attach_payment_creation`, and `delete_order` after a failed provider call. Each
is a transaction or a call of its own, so a slot (a request and the order it
makes) has a `pc`; `RequestEnds` cuts it short anywhere and also stands for an
audit entry that fails after its statement. Payment, expiry and cancellation
of the row happen at any time. `usedToday` is what counts: orders that are PAID,
RECHARGING or COMPLETED (`payment.rs:690`). A paid order ceases to count when it
fails or is being refunded (`PaidOrderFails`) and may count again after a retry
or a rolled-back refund (`PaidOrderReturns`); `setAside` holds those that may. Left out: the checks of the request before the
selection, which read and refuse, and the amount (one per order).

### Shop, ProviderTrades, ConfigCache, CancelLimit

* `PaymentLimits` gives the pure functions of `limits.ts`, `fee.ts`,
  `load-balancer.ts`, `lib/payment/index.ts` and the check of `PaymentForm` as
  operators (instances are rows of a table, and a choice among them is one of
  row numbers); `Shop` is a day of business around them: the page loads its offer,
  a customer submits, orders are paid or expire, settings are saved, the
  server restarts (and forgets registered providers and counters), the day ends.
  The order that was paid last is followed as it ceases to count
  (`PaidOrderDrops`) and counts again without a payment (`PaidOrderResumes`).
  What the form shows is not what is charged: `PaymentForm.tsx:100` computes the
  fee in floats, `fee.ts:42` in decimals, and where the fee is a whole number of
  cents the float may lie above it and be rounded up (7 at 1 % shows 0.08 and
  costs 0.07); `shownPayAmounts` has both outcomes.
* `ProviderTrades` is one order and its trade at each of the four gateways, in
  the gateway's words: `xxxQuery`, `xxxVerify` and `xxxWays` are the adapters,
  `BeginCancel`, `Query`, `Cancelled`, `CancelFails`, `CloseOrder` the steps of
  `cancelOrderCore` for two concurrent callers.
* `ConfigCache`: settings as versions; one reader between its query and its
  store, one writer between commit and invalidation, and other processes that
  write without invalidating.
* `CancelLimit`: the count of a user's cancellations in a rolling or fixed
  window, read before the transaction that inserts. The ORDER_CANCELLED entries
  of the audit log are a set of times with a number that tells equal times
  apart (`NewEntry`), which forgets what no window reaches any more. An order is
  CANCELLED first (`UserCancels`) and counted when its entry is written
  (`CancelIsLogged`); if that fails (`LogFails`) it never counts.

`Checkout` composes them with `OrderCreation`. They share no state, so a
behaviour follows one (`part`); what is composed is the set of questions, and
one run answers them.

### OrderServer, PayPage, MyOrdersPage, ReturnPage, StripePopup, AdminLists, AdminOrders

`OrderServer` is the order as pages see it: a status that takes any step of the
life cycle at any time, and the answers of the endpoints (a cancellation may
answer "cancelled" for an order that expired, `order/service.rs:487`). Each
page module has the React state it branches on and a set of outstanding requests
(`requests`, `loads`, `checks`, `calls`, `tasks`); a handler sends, `Receive`, `LoadEnds`,
`CheckReceived`, `AdminReceives` or `TaskEnds` consumes an answer, in any order, and a
failure is an answer like any other. A request carries the order it is about, so an
answer may be shown on the screen of another order (`late`: the orders that the
page was still asking about when a screen opened), and a refund may go on
without its dialog, which `onCancel` closes while the request runs. In `PayPage` every state change goes
through `Render`, which starts and cleans up the effects (polling, countdown,
refresh) that depend on it. Answers carry, for the properties, the status
the order had when the server gave them (`was`).

| source | actions |
|---|---|
| `pay/page.tsx` | `handleSubmit` (also the subscription's), `OrderCreated`, `handleStatusChange`, `handleBack`, `loadUserAndOrders`, `loadMoreOrders`, `ReturnToForm` |
| `PaymentQRCode.tsx` | `updateTimer`, `pollStatus`, `PollReceived`, `handleCancel`, `CancelRead`, `CancelReceived`, `handleOpenPopup`, `onReady` |
| `OrderStatus.tsx` | `refreshOrder`, `RefreshReceived`, `RefreshingEnds` |
| `pay/orders/page.tsx`, `OrderTable.tsx`, `PaginationBar.tsx` | `refreshOrders`, `handlePageChange`, `handlePageSizeChange`, `openRefundDialog`, `closeRefundDialog`, `handleRefundRequest`, `Loaded`, `LoadFails`, `RefundAccepted` |
| `result/page.tsx` | `checkOrder`, `CheckReceived`, `PollingEnds`, `closeCurrentWindow`, `goBack` |
| `stripe-popup/page.tsx` | `PopupLoaded`, `InitReceived`, `ConfirmPayment`, `PaymentConfirmed`, `ReloadPopup`, `ClosePopup` |
| `admin/channels`, `subscriptions`, `payment-config` | list, form, deletion, switch, import and settings of the three pages (`AdminLists`) |
| `admin/orders`, `RefundDialog.tsx` | `fetchOrders`, `handleRetry`, `handleRefund`, `handleConfirmRefund`, `onCancel` and the answers (`AdminOrders`) |

`Pages` composes the windows; they share nothing in the browser, so a behaviour
follows one (`window`).

## 4. The runs

| run | shows |
|---|---|
| `fulfillment` | one order, two handlers, every interleaving, interruptions, refunds, amounts 0, 98 and 99 of 100: all safety properties and the refinement |
| `delivery` | one order, two handlers, no interruption: a payment that is owed is delivered |
| `sweep` | two overdue orders, batch of one: the sweep reaches both |
| `recovery` (violation) | an interrupted handler leaves its order `RECHARGING`, and neither a redelivery nor a retry accepts it |
| `refund_races` | one order, two handlers (two administrators, or one and the user), two attempts, every failure and interruption, a failing audit row after the row was released included: one refund at a time, at most one confirmed, `REFUNDED` means backed by gateway and deduction, and is final; rollbacks give back at most what was taken |
| `refund_ends` | one order, two handlers, no interruption: `REFUNDING` always ends |
| `refund_cleared` (violation) | an unanswered deduction is forgotten by the next failed attempt |
| `lib_orders` | the TypeScript service: one order, two requests at a time, one lost request or failed database call and one failing outside service: exclusive fulfilment, credits only for payments, no closing of paid orders, every payment acknowledged in the end |
| `lib_refund` | the TypeScript refunds: two administrators beside a redelivered notification, one lost request, two failing outside calls: one refund at a time, paid back once, deductions backed |
| `lib_pending` (violation) | two creations of one user exceed the limit on pending orders |
| `pages` | the windows with late, reordered and failing answers: an outcome shown was true of the order that was asked about, lists shown are true, a flag is set exactly while its submission is under way, nobody waits in vain |
| `checkout` | the offer is honoured and costs what was shown or a cent less, an order follows its money, staleness and limits are bounded, nobody pays for an unknown order, a payment is noticed |

*Bounds.* Rows interact only through the sweep's batch, so one order is enough
for the races and two (with a batch of one) for starvation. Two handlers cover
every pairwise race for a lock; the theorems cover any number. The clock runs to
`MaxNow = 3` with `Ttl = 0` and `Grace = 1`: the deadline passes at 1, the sweep
may expire the row, and a payment may still be in time (2) or too late (3).
`Due = 100` with 98 and 99 puts an amount on each side of the one-cent
tolerance. Handlers are interchangeable and no safety property names one, so
symmetry over them is sound; the liveness runs use none. Deadlock is not
checked because the system may stop: with the clock at its bound, everything
settled and no request, nothing is left to do.

For refunds, rows do not interact at all. `Amount = 2` with `RefundAmounts = {1}`
allows a partial and a whole refund, each with every possible plan;
`PayAmount = 3` tells the fee apart. `MaxNow = 2` gives the two balance operations
of an attempt and the next attempt seconds of their own, and also equal ones.
Two attempts are what two handlers can hold at once, and enough for one of them
to overtake the other (`overtaken`); the third refund that may then enter takes
`MaxTries = 3`, which the theorems cover. `refund_ends` needs no clock (`MaxNow = 0`):
the second of a call only names its key.

`lib_orders` runs with `MaxFaults = 1` and `MaxOutages = 1`: a loss or failure
at every place, one per behaviour; `Ttl = 0`, `Grace = 0` and `MaxNow = 2` expire
the order and let a payment be in time or too late; amounts 1 and 3 of 3 are an
underpayment and an exact one; the daily limits are as large as the order.
`lib_refund` starts from a completed order of 2 with `RefundAmounts = {1, 2}`, part
and whole, each with every possible deduction, and needs two outages for a rollback that fails after a gateway that
failed.

`pages`: `MaxOrders = 2` (an answer about the first order while the second is
shown), `MaxPending = 1`, `MaxRequests = 2` outstanding when the user or a timer
starts another (a continuation may add to them), `ListPages = 3` (load more
beside a reload), `SmallPages = 2` and `MaxLoads = 3` (a page turned and a
changed page size beside a late refresh), `MaxChecks = 3` overlapping polls of the return page,
`MaxOpens = 3` openings of the popup (open, reuse, reopen after closing),
`MaxCalls = 2` and `MaxTasks = 2` requests of an administrator's page, one stale
beside a new one. Several identical outstanding requests are one member of the
set.

`checkout`: in `Shop` four catalogues (none, equal ranges with daily limits, a
gap between ranges, two providers) and two settings, with `MaxAmount = 3`, a rate
of 50 per cent for one provider, so that 2 has a whole fee and 1 and 3 do not,
`MaxTaken = 3` a day per method, `MaxPending = 1` and `CounterPeriod = 2`, a
multiple of every number of instances; in `ConfigCache` two keys, `Ttl = 2`,
`MaxLookup = 1` (a lookup that takes longer is not considered), `MaxTime = 4` and
`MaxWrites = 2`, enough for a value that is read before a write, stored after
it and still live; in `CancelLimit` a window of two units of two ticks,
`MaxCount = 2`, `MaxOpen = 1`, `MaxCreating = 2` (creations that overlap),
`MaxCancelling = 1` (closed and not yet counted) and `Horizon = 9`, so that a window passes twice; in `OrderCreation` three `Slots`
(orders not settled), `MaxInFlight = 2` between count and insert,
`MaxPendingOrders = 1` and `InstanceDailyLimit = 2`, with more slots than either
limit, and `MaxSetAside = 1` paid order that does not count.

*Fairness*, `OrderFulfillment!FairSpec`. Weak fairness of every handler's next step and of the
timer: the runtime polls every ready task. Strong fairness of redelivery of an
unacknowledged notification: providers retry what is not answered with success.
Strong fairness of `SendRedeem` and `AnswerOk` per order: the platform is not
down at every attempt. Nothing obliges a customer, an administrator or an
interruption to act. `Refund!FairSpec` is weak fairness of every handler's next
step and nothing else: an external call that is not answered times out, which is
its error action. `LibOrders` has weak fairness of every request's next step and strong
fairness of redelivery. `Pages!FairSpec`: a browser's timer keeps firing and an
answer keeps being given and used (strong fairness of `pollStatus`, `PollReplied`
and `Polled`, since the customer may make each impossible for a while), promises
settle (weak fairness), and messages between loaded windows arrive (weak
fairness of `PopupLoaded`, `onReady`, `InitReceived`). `Checkout!FairSpec`: the
gateway repeats a notification until it is acknowledged. Nobody is obliged to
click.

*What the liveness run does not claim.* It assumes that deliveries of one
notification do not overlap (`OverlapDeliveries = FALSE`). When they may
overlap, a second delivery that begins just after the end of the grace is
refused as too late and acknowledged, while the first, which began in time, has
yet to mark the row paid; if its fulfilment then fails, nothing is redelivered
and only an administrator's retry delivers the order. It also assumes that no
handler is cut short, which is what the run `recovery` is about.

### Findings

*recovery.* `README.md:43` promises recovery of a payment that succeeded and whose
fulfilment failed. An order left in `RECHARGING` by an interrupted request
cannot be recovered: `execute_paid_fulfillment` answers false for it
(`service.rs:761`), `assert_retry_allowed` refuses it (`service.rs:1475`), and
the sweep visits only PENDING rows.

*refund_cleared.* `README.md:44` promises that a failed refund is compensated
or left to manual handling. A deduction whose answer is lost marks the row
REFUND_FAILED without a rollback; a second attempt is accepted, and if the
gateway then fails, its own deduction is rolled back and the row becomes COMPLETED
with `failed_reason` cleared (`service.rs:1196`). The balance of the first
attempt is neither given back nor visible as a failure.

*lib_pending.* The comment at `lib/order/service.ts:259` says that the checks
of the limits and the insertion share a serializable transaction.
`prisma.$transaction` is called without an isolation level, on PostgreSQL, whose
default is READ COMMITTED: two creations both count before either inserts, and
two orders are pending where one is allowed.

*Behaviours without a property.* Where the code has no guard and no document
claims one, the model has the behaviour and no property is stated; `PROJECT.json`
names these hazards: a poll's or a cancellation's answer shown as the outcome of
the order that is paid by then, a second refund sent from a dialog that was
closed and opened again, a refund's answer applied to another order's dialog, a list
replaced by the answer to an older filter, instances created twice by the
switch that overrides the environment, and two overlapping deliveries around the
end of the grace. A confirmed refund that cannot be recorded, a gateway's
refund that was answered with an error, and a late `Err` arm may each be followed
by a second refund. A status that a rolled-back refund restores is the one read
before the lock (`service.rs:615`), so a request the user makes in between is
lost.

## 5. The proofs

`OrderFulfillment_proofs` proves, for any sets of orders and handlers, any clock
bound, time to live, grace, batch size and amounts (`FulfillmentAssumption`),
with interruptions and overlapping deliveries or without:

* `TypeCorrect`: `Spec => []TypeOK`. Lemmas about the rows that the UPDATEs
  write and about how a handler moves carry one case per action
  (`ProgressTypeOK`, `OtherTypeOK`).
* `LockIsExclusive`: `Spec => []SingleFulfiller`, and `LockIsReturned`:
  `Spec => []LockHasHolder`. Neither is inductive: that no two handlers hold a
  lock follows only if a handler that holds one has its row in `RECHARGING`
  (otherwise a second handler could lock it again). `LockInv` is the conjunction
  of the three; `LockQuiet` describes the steps that leave locks alone, and only
  `MarkRecharging`, `MarkCompleted`, `RecordFailure` and `Interrupt` need an
  argument of their own.

`ConfigCache_proofs` proves `CachedSettingsAreFresh`:
`ConfigSpec => []StalenessIsBounded`, for any set of keys, time to live and
lookup time (`CacheAssumption`). Staleness alone is not inductive: it says
nothing of what a reader holds and may store later. `CacheInv` adds three
facts: an entry expires at most a time to live from now, so a commit, which
notes the time, bounds what it makes stale; a value a reader is about to store
was current when it was read (`RowIsBounded`), at most a lookup ago; and neither
is newer than the row. `CommitPreserves`, `StorePreserves` and `DropPreserves`
carry the three kinds of step.

`OrderCredit_proofs` completes `OrderFulfillment`. `IInv` adds to types and lock
where a credit may be (a request not yet redeemed belongs to an order still
owed, nothing is settled before it is redeemed), what columns and handlers know
of the payment, and when an order counts as too late. The actions are gone
through twice, for what they do to a row (`RowStep`: nothing, or one of five ways
for a row to move) and to a handler (`HandlerStep`); every part of `IInv` follows from these
summaries. From it: `CreditIsSingle`, `CreditIsFunded`, `DerivedStateIsTrue`, the
action property `AcksAreSettled` (`Acknowledgement` lists the five replies that
acknowledge, and what each has read), and `ServiceImplementsLifecycle`:
`Spec => ImplementsLifecycle`, where each way a row moves is a step of
`OrderLifecycle` under the mapping and everything else a stutter.

`Refund_proofs` proves the safety properties of the refund from `RefundAssumption`,
for any orders, handlers, amounts and attempts. `IInv` has four layers, each
needing the ones before it: `LockInv`; `ConfirmedInv`, where the evidence of a
confirmed refund is (in the row, with the handler about to record it, or in a
row still locked), which makes a second one impossible. A late `Err` arm breaks
the claim that a handler past the lock has its row REFUNDING, so `LockInv` and
`ConfirmedInv` make it of all orders that were not overtaken, and say of the
others what is left: the row's evidence and the holder of a REFUNDING row; `CallInv`, that two
operations on their way never share a key unless their order is exempt; and
`LedgerInv`, that what was taken covers everything still to be given back. The
last is a sum over the calls on their way, which the provers cannot fold, so
`Covers` says it without one: there is a function over the seconds that grows by
each call's amount at its second and stays below what was taken. An operation
asked for or applied changes this function (`BackedAsk`, `BackedReturn`).
`ReversalIsFinal`, an action property, follows from `ConfirmedInv`.

`LibOrders_proofs` (`LibOrdersAssumption`) does the same for the TypeScript service:
`Summary` says once what a step does to a row, a handler and the outside world,
and `World` that what was asked of gateway and platform stays accounted for.
Rows here are written without a condition, so exclusivity needs `CreationInv` (a
handler that creates an order is alone with it until the row is inserted) and
`RowInv` (once paid, always paid or deleted) before `LockInv`; `AckInv` follows a
payment from its row to the request that works on it, as long as nothing was
lost.

`LibRefund_proofs` (`LibRefundAssumption`, and that of `LibOrders`) first shows that the
requests of `LibOrders` change nothing for orders that are fulfilled
(`QuietOrders`), so a step is one of an administrator: it waits, locks, calls
or ends (`AdminStep`). `TakenInv` says at each place of a refund what the user is
missing; `SingleRefund`, `PaidBackOnce` and `DeductionIsBacked` are proved together
with it, since none is inductive alone.

`Pages_proofs` proves the safety properties of the windows for any number of
orders, requests, calls and pages (`ServerAssumption`,
`TableAssumption`). Three ideas carry it. A submission is the only one of its kind
exactly while its flag is set (`Solo`), and every handler keeps both in step. An
order only advances, so what was true of it since the window began to ask stays
so (`SinceLasts`), and an answer on its way carries only what was so
(`RequestOK`); an outcome is shown from such an answer. Whose outcome it can be
is `AboutInv`: whatever the page still asks about is the order on the screen or
one that was asked about when the screen opened. A refund without its dialog
keeps its order and its number (`TaskOK`), so only the one that has its dialog
answers to a flag. `Renders` says once what
a render and its effects do to the outstanding requests. The windows share
nothing but the order, so `IInv` is a conjunction with one part for each.

`Checkout_proofs` proves the safety properties of `Checkout`, one part at a time,
since a step of the composition is a step of one part (`StepOfParts`):

* *Creation* (`CreationAssumption`). `OpenStaysBounded` is not inductive: requests
  that have counted may still insert. `CreationInv` gives each slot at most one
  share in each limit (`Claims`, `Unpaid`) and bounds the shares; an order set
  aside keeps its share of the instance's day.
* *Cancellations* (`CancelAssumption`). A window's count is bounded because an open
  order, a creation on its way and a cancellation without its entry are entries to
  come: `CancelInv` bounds the four together, and a window that moves forward only loses entries
  (`WindowMoves`).
* *Trade*. The gateway's word tells whether there is money (`MoneyInv`), and what
  a canceller heard was so when it heard it (`HeardTrue`).
* *Settings*, by `ConfigCache_proofs`.
* *Offer* (`ShopAssumption`). `ShopInv` says what a fresh offer still promises
  (`OfferTrue`): the rest of the method's day, an instance that is not shut, and
  their common range. It is kept because whatever raises the usage (a payment, a
  retry, a rolled-back refund) and changes of settings end the freshness, an
  order that ceases to count and a new day only free capacity, and a restart, which forgets
  registered providers, leaves no new limit (`LimitStays`). What
  `aggregateInstanceLimits` publishes is a fold over the instances; `FoldKeeps`
  shows that what every instance keeps the result has, and `RangeIsTheirs` what
  this says of limits. Both need an induction; the induction theorems of the
  library take an operator, so the least counterexample of `LeastNumber`, which
  rests on the well-foundedness of `<`, takes their place.

*Assumptions.* The theorems rest on the assumptions on constants that the
modules state, which say that sets and bounds are of the sizes the
configuration allows (a time to live is a natural number, a limit is positive,
the instances of a catalogue are rows), and TLC evaluates them on every run's
instance. Bounds of the models (clocks, outstanding requests, slots) are
constants like others: the theorems hold for each value of them.

*Checked by TLC as well.* Before they were proved, the inductive invariants were
checked as invariants on the instances of the runs: `IInv` of `OrderFulfillment`,
`Refund`, `LibOrders` and `Pages`, `RefundIInv` of `LibRefund`, and the seven parts for
`Checkout`.

*Only model-checked*: the liveness properties (`OwedIsDelivered`,
`PendingIsResolved`, `RefundEnds`, `PaymentIsAcknowledged`, `NobodyWaitsInVain`,
`PaymentIsNoticed`), since liveness under fairness and ENABLED are out of the
prover's reach, and the properties of the three runs that expect a violation.

## 6. Not modelled

* Signatures, access tokens, encryption and transport: a notification that is
  not signed is refused before anything is read.
* The Rust aggregation of limits (`payment.rs:539`), whose result depends on
  the order of the instances and can narrow an offer; the calendar
  arithmetic of a plan's validity (`subscription_plan.rs:194`).
* The administration endpoints: single-statement writes, which are the
  environment of the pages.
* In the pages: layout and texts, the dashboard, the order detail, the search for
  subscriptions, and `toggleInstanceRefundEnabled`, which has the shape of
  `toggleInstanceEnabled`.
* Migrations, configuration and start-up of the service; what the audit log of
  the Rust service holds (append-only; what a failing append does is modelled).
