------------------------- MODULE OrderCredit_proofs -------------------------
(***************************************************************************)
(* The rest of the inductive invariant of OrderFulfillment, and what       *)
(* follows from it: an order is credited once and only if it was paid for, *)
(* a notification is acknowledged only when nothing is owed, and the       *)
(* service implements OrderLifecycle.                                      *)
(*                                                                         *)
(* The steps are gone through twice, once for what they do to a row        *)
(* (RowStep) and once for what they do to a handler (HandlerStep).  The    *)
(* parts of the invariant are then proved from these two summaries.        *)
(***************************************************************************)
EXTENDS OrderFulfillment_proofs

USE NullIsNotATime, FulfillmentAssumption

-----------------------------------------------------------------------------
(***************************************************************************)
(* What a step does to a row.                                              *)
(***************************************************************************)

SameColumns(o) ==
    /\ orders'[o].pay_amount = orders[o].pay_amount
    /\ orders'[o].paid_at = orders[o].paid_at
    /\ orders'[o].completed_at = orders[o].completed_at
    /\ orders'[o].expires_at = orders[o].expires_at

Moves(o, from, to) == orders[o].status \in from /\ orders'[o].status \in to

RowCloses(o) ==
    /\ Moves(o, {"PENDING"}, {"CANCELLED", "EXPIRED"})
    /\ SameColumns(o)
    /\ orders'[o].updated_at = now
    /\ orders'[o].status = "EXPIRED" => o \in sweep

RowIsPaid(o) ==
    /\ Moves(o, {"PENDING", "EXPIRED"}, {"PAID"})
    /\ \E h \in Handlers : At(h, "mark_paid") /\ OrderOf(h) = o
    /\ orders'[o].paid_at \in Time
    /\ orders'[o].completed_at = orders[o].completed_at
    /\ orders'[o].expires_at = orders[o].expires_at

RowIsDelivered(o) ==
    /\ Moves(o, {"RECHARGING"}, {"COMPLETED"})
    /\ \E h \in Handlers : At(h, "complete") /\ OrderOf(h) = o
    /\ orders'[o].pay_amount = orders[o].pay_amount
    /\ orders'[o].paid_at = orders[o].paid_at
    /\ orders'[o].expires_at = orders[o].expires_at

\* The statuses of a refund that has begun and not ended.
Reversing == {"REFUND_REQUESTED", "REFUNDING", "REFUND_FAILED"}

RowIsRefunded(o) ==
    /\ Moves(o, Settled, Settled)
    /\ Moves(o, {"COMPLETED"}, Reversing) \/ Moves(o, Reversing, Settled)
    /\ SameColumns(o)

RowStep(o) ==
    \/ orders'[o] = orders[o]
    \/ RowCloses(o)
    \/ RowIsPaid(o)
    \/ Moves(o, Owed, Owed) /\ SameColumns(o)
    \/ RowIsDelivered(o)
    \/ RowIsRefunded(o)

\* Writing a row that differs in status and time alone.
LEMMA StatusWrite ==
    ASSUME TypeOK, NEW o \in Orders, NEW s \in Statuses,
           orders' = [orders EXCEPT ![o] = WithStatus(orders[o], s, now)]
    PROVE  /\ orders'[o].status = s
           /\ orders'[o].updated_at = now
           /\ SameColumns(o)
           /\ RowsSame(o)
  BY WithStatusRow DEF TypeOK, SameColumns, RowsSame

\* A handler writes its own row; the others stay.
LEMMA RowProgress ==
    ASSUME TypeOK, LockInv, NEW h \in Handlers, Progress(h)
    PROVE  \A o \in Orders : RowStep(o)
<1> USE DEF dbVars, providerVars, platformVars
<1>a. ASSUME UNCHANGED orders PROVE \A o \in Orders : RowStep(o)
  BY <1>a DEF RowStep
<1>b. ASSUME ~At(h, "idle"), RowsSame(OrderOf(h)), RowStep(OrderOf(h))
      PROVE  \A o \in Orders : RowStep(o)
  BY <1>b DEF RowStep, RowsSame
<1>c. ASSUME ~At(h, "idle"), NEW s \in Statuses,
             SetRow(h, WithStatus(RowOf(h), s, now))
      PROVE  /\ OrderOf(h) \in Orders
             /\ orders'[OrderOf(h)].status = s
             /\ orders'[OrderOf(h)].updated_at = now
             /\ SameColumns(OrderOf(h))
             /\ RowsSame(OrderOf(h))
  BY <1>c, HandlerFacts, StatusWrite DEF SetRow, RowOf
<1>1. CASE MarkPaid(h)
  <2> DEFINE o == OrderOf(h)
  <2>1. /\ ~At(h, "idle") /\ o \in Orders
        /\ RowOf(h) \in Row(Time, Int) /\ now \in Time /\ handler[h].at \in Time
    BY <1>1, HandlerFacts DEF MarkPaid, At
  <2>2. collected[o] \in Int
    BY <1>1, <2>1 DEF MarkPaid, TypeOK, At, OrderOf
  <2>3. /\ orders'[o] = PaidRow(RowOf(h), collected[o], handler[h].at, now)
        /\ RowsSame(o)
    BY <1>1, <2>1, RowEffect DEF MarkPaid
  <2>4. RowIsPaid(o)
    BY <1>1, <2>1, <2>2, <2>3, PaidRowRow
       DEF MarkPaid, IsPayable, RowIsPaid, Moves, RowOf
  <2>5. QED BY <2>1, <2>3, <2>4, <1>b DEF RowStep
<1>2. CASE MarkCancelled(h)
  <2>1. /\ ~At(h, "idle") /\ RowOf(h).status = "PENDING"
        /\ SetRow(h, WithStatus(RowOf(h), "CANCELLED", now))
    BY <1>2 DEF MarkCancelled, At, IsPending
  <2>2. RowCloses(OrderOf(h)) /\ RowsSame(OrderOf(h))
    BY <2>1, <1>c DEF RowCloses, Moves, Statuses, RowOf
  <2>3. QED BY <2>1, <2>2, <1>b DEF RowStep
<1>3. CASE ResetToPaid(h)
  <2>1. /\ ~At(h, "idle") /\ RowOf(h).status \in Owed
        /\ SetRow(h, WithStatus(RowOf(h), "PAID", now))
    BY <1>3 DEF ResetToPaid, At, IsResettable, ResetRow, Owed
  <2>2. /\ Moves(OrderOf(h), Owed, Owed) /\ SameColumns(OrderOf(h))
        /\ RowsSame(OrderOf(h))
    BY <2>1, <1>c DEF Moves, Statuses, Owed, RowOf
  <2>3. QED BY <2>1, <2>2, <1>b DEF RowStep
<1>4. CASE MarkRecharging(h)
  <2>1. /\ ~At(h, "idle") /\ RowOf(h).status \in Owed
        /\ SetRow(h, WithStatus(RowOf(h), "RECHARGING", now))
    BY <1>4 DEF MarkRecharging, At, IsLockable, RechargingRow, Owed
  <2>2. /\ Moves(OrderOf(h), Owed, Owed) /\ SameColumns(OrderOf(h))
        /\ RowsSame(OrderOf(h))
    BY <2>1, <1>c DEF Moves, Statuses, Owed, RowOf
  <2>3. QED BY <2>1, <2>2, <1>b DEF RowStep
<1>5. CASE MarkCompleted(h)
  <2> DEFINE o == OrderOf(h)
  <2>1. /\ ~At(h, "idle") /\ o \in Orders /\ RowOf(h).status = "RECHARGING"
        /\ RowOf(h) \in Row(Time, Int) /\ now \in Time /\ handler[h].at \in Time
    BY <1>5, HandlerFacts DEF MarkCompleted, At, LockInv, LockedPCs
  <2>2. SetRow(h, CompletedRow(RowOf(h), handler[h].at, now))
    BY <1>5, <2>1 DEF MarkCompleted, IsCompletable
  <2>3. /\ orders'[o] = CompletedRow(RowOf(h), handler[h].at, now)
        /\ RowsSame(o)
    BY <2>1, <2>2, RowEffect
  <2>4. RowIsDelivered(o)
    BY <1>5, <2>1, <2>3, CompletedRowRow DEF MarkCompleted, RowIsDelivered, Moves, RowOf
  <2>5. QED BY <2>1, <2>3, <2>4, <1>b DEF RowStep
<1>6. CASE RecordFailure(h)
  <2>1. /\ ~At(h, "idle") /\ RowOf(h).status = "RECHARGING"
    BY <1>6 DEF RecordFailure, At, LockInv, LockedPCs
  <2>2. SetRow(h, WithStatus(RowOf(h), "FAILED", now))
    BY <1>6, <2>1 DEF RecordFailure, IsFailable, FailedRow
  <2>3. /\ Moves(OrderOf(h), Owed, Owed) /\ SameColumns(OrderOf(h))
        /\ RowsSame(OrderOf(h))
    BY <2>1, <2>2, <1>c DEF Moves, Statuses, Owed, RowOf
  <2>4. QED BY <2>1, <2>3, <1>b DEF RowStep
<1>7. CASE /\ ~MarkPaid(h) /\ ~MarkCancelled(h) /\ ~ResetToPaid(h)
           /\ ~MarkRecharging(h) /\ ~MarkCompleted(h) /\ ~RecordFailure(h)
  <2>1. UNCHANGED orders
    BY <1>7 DEF Progress, ConfirmRead, MarkPaidRefused, ConfirmReread,
       MarkCancelledRefused, CancelReread, ResetRefused, ExecuteRead,
       MarkRechargingRefused, LockReread, PrepareFails, SendRedeem, AnswerOk,
       AnswerError
  <2>2. QED BY <2>1, <1>a
<1>8. QED BY <1>1, <1>2, <1>3, <1>4, <1>5, <1>6, <1>7

\* What the sweep and the refund handlers write.
LEMMA RowSteps ==
    ASSUME TypeOK, LockInv, [Next]_vars
    PROVE  \A o \in Orders : RowStep(o)
<1> USE DEF dbVars, providerVars, platformVars
<1>a. ASSUME UNCHANGED orders PROVE \A o \in Orders : RowStep(o)
  BY <1>a DEF RowStep
<1>1. ASSUME NEW x \in Orders, SweepExpires(x)
      PROVE  \A o \in Orders : RowStep(o)
  <2>1. CASE IsPending(orders[x])
    <3>1. RowCloses(x) /\ RowsSame(x)
      BY <1>1, <2>1, StatusWrite
         DEF SweepExpires, IsPending, RowCloses, Moves, Statuses
    <3>2. QED BY <3>1 DEF RowStep, RowsSame
  <2>2. CASE ~IsPending(orders[x])
    BY <1>1, <2>2, <1>a DEF SweepExpires
  <2>3. QED BY <2>1, <2>2
<1>2. ASSUME NEW x \in Orders, RefundWrites(x)
      PROVE  \A o \in Orders : RowStep(o)
  <2>0. orders[x] \in Row(Time, Int) /\ now \in Time /\ Due \in Int
    BY DEF TypeOK
  <2>1. PICK row : /\ orders' = [orders EXCEPT ![x] = row]
                   /\ \/ row = RefundRequestedRow(orders[x], Due, now)
                      \/ row = WithStatus(orders[x], "REFUNDING", now)
                      \/ /\ orders[x].status = "REFUNDING"
                         /\ \E s \in RefundStatuses \cup {"COMPLETED"} :
                              \/ row = WithStatus(orders[x], s, now)
                              \/ row = RefundedRow(orders[x], s, Due, now)
    BY <1>2 DEF RefundWrites, IsRefunding, RefundingRow, RestoredRow,
       RefundFailedRow, RefundStatuses
  <2>2. /\ row.status \in Settled
        /\ row.status \in Reversing \/ orders[x].status \in Reversing
        /\ row.pay_amount = orders[x].pay_amount
        /\ row.paid_at = orders[x].paid_at
        /\ row.completed_at = orders[x].completed_at
        /\ row.expires_at = orders[x].expires_at
    BY <2>0, <2>1 DEF WithStatus, RefundedRow, RefundRequestedRow, Row, Settled,
       RefundStatuses, Reversing
  <2>3. orders[x].status \in {"COMPLETED"} \cup Reversing
    BY <1>2 DEF RefundWrites, IsRefundRequestable, IsRefundable, IsRefunding,
       Reversing
  <2>4. orders'[x] = row /\ RowsSame(x)
    BY <2>1 DEF TypeOK, RowsSame
  <2>5. RowIsRefunded(x)
    BY <2>2, <2>3, <2>4
       DEF RowIsRefunded, Moves, SameColumns, Settled, RefundStatuses, Reversing
  <2>6. QED BY <2>4, <2>5 DEF RowStep, RowsSame
<1>3. CASE /\ ~\E h \in Handlers : Progress(h)
           /\ ~\E x \in Orders : SweepExpires(x) \/ RefundWrites(x)
  <2>1. UNCHANGED orders
    BY <1>3 DEF Next, vars, Interrupt, DeliverNotification, BeginCancel, BeginRetry,
       CustomerPays, PlatformRedeems, SweepList, SweepInterrupt, Tick
  <2>2. QED BY <2>1, <1>a
<1>4. QED BY <1>1, <1>2, <1>3, RowProgress

-----------------------------------------------------------------------------
(***************************************************************************)
(* What a step does to a handler.                                          *)
(***************************************************************************)

\* Inside the fulfilment, or on the way to it.
FulfilPCs == {"exec_read", "lock", "lock_reread"} \cup LockedPCs

\* The row turned out not to be payable.
IsRefused(h) ==
    /\ At(h, "mark_paid") /\ ~IsPayable(RowOf(h), GraceCutoff(h))
    /\ handler'[h].order = handler[h].order
    /\ handler'[h].at = handler[h].at
    /\ UNCHANGED orders

HandlerStep(h) ==
    \/ handler'[h] = handler[h]
    \/ handler'[h].pc \in {"idle", "cancel", "cancel_reread", "reset"}
    \/ handler'[h].pc = "confirm" /\ handler'[h].op = "notify"
    \/ /\ handler'[h].pc = "mark_paid" /\ At(h, "confirm")
       /\ handler'[h].op = handler[h].op
       /\ handler'[h].order = OrderOf(h) /\ Funded(OrderOf(h))
    \/ handler'[h].pc = "confirm_reread" /\ IsRefused(h)
    \/ /\ handler'[h].pc \in FulfilPCs
       /\ handler'[h].order = OrderOf(h) /\ ~At(h, "idle")
       /\ orders'[OrderOf(h)].paid_at # NULL
       /\ handler'[h].pc = "complete" => OrderOf(h) \in redeemed

\* The amount accepted is the amount due, but for the tolerance.
LEMMA AcceptedIsFunded ==
    ASSUME NEW o \in Orders, collected[o] \in Int, AmountAccepted(Due, collected[o])
    PROVE  Funded(o)
  BY DEF AmountAccepted, Funded, Tolerance

LEMMA HandlerProgress ==
    ASSUME TypeOK, LockInv, PaymentInv, NEW h \in Handlers, Progress(h)
    PROVE  \A x \in Handlers : HandlerStep(x)
<1> USE DEF dbVars, providerVars, platformVars
<1>a. SUFFICES HandlerStep(h) /\ OthersSame(h)
  BY DEF HandlerStep, OthersSame
<1>b. ~At(h, "idle")
  BY DEF Progress, At, ConfirmRead, MarkPaid, MarkPaidRefused, ConfirmReread,
     MarkCancelled, MarkCancelledRefused, CancelReread, ResetToPaid, ResetRefused,
     ExecuteRead, MarkRecharging, MarkRechargingRefused, LockReread, PrepareFails,
     SendRedeem, AnswerOk, AnswerError, MarkCompleted, RecordFailure
<1>c. /\ OrderOf(h) \in Orders /\ RowOf(h) \in Row(Time, Int)
      /\ now \in Time /\ handler[h].at \in Time
      /\ RowOf(h) = orders[OrderOf(h)]
  BY <1>b, HandlerFacts DEF RowOf
<1>d. ASSUME Finish(h) PROVE HandlerStep(h) /\ OthersSame(h)
  BY <1>d, HandlerEffect DEF HandlerStep, Idle
<1>e. ASSUME NEW pc \in PCs \cap FulfilPCs, Goto(h, pc) \/ GotoAt(h, pc),
             orders'[OrderOf(h)].paid_at # NULL,
             pc = "complete" => OrderOf(h) \in redeemed
      PROVE  HandlerStep(h) /\ OthersSame(h)
  BY <1>b, <1>e, HandlerEffect DEF HandlerStep, OrderOf
<1>f. {"cancel_reread", "mark_paid", "confirm_reread"} \subseteq PCs
      /\ FulfilPCs \subseteq PCs
  BY DEF PCs, FulfilPCs
<1>g. handler[h].pc \in FulfilPCs => RowOf(h).paid_at # NULL
  BY DEF PaymentInv, FulfilPCs
<1>h. ASSUME UNCHANGED orders, handler[h].pc \in FulfilPCs,
             NEW pc \in FulfilPCs \ {"complete"}, Goto(h, pc)
      PROVE  HandlerStep(h) /\ OthersSame(h)
  BY <1>c, <1>e, <1>f, <1>g, <1>h
<1>1. CASE ConfirmRead(h)
  <2>1. CASE Goto(h, "mark_paid") /\ AmountAccepted(RowOf(h).pay_amount, collected[OrderOf(h)])
    <3>1. At(h, "confirm") /\ collected[OrderOf(h)] \in Int
      BY <1>1, <1>c DEF ConfirmRead, TypeOK, At, OrderOf
    <3>2. Funded(OrderOf(h))
      <4>1. CASE RowOf(h).paid_at = NULL
        BY <1>c, <2>1, <3>1, <4>1, AcceptedIsFunded DEF PaymentInv
      <4>2. CASE RowOf(h).paid_at # NULL
        BY <1>c, <4>2 DEF PaymentInv
      <4>3. QED BY <4>1, <4>2
    <3>3. QED BY <2>1, <3>1, <3>2, <1>f, HandlerEffect DEF HandlerStep, OrderOf
  <2>2. CASE Finish(h)
    BY <2>2, <1>d
  <2>3. QED BY <1>1, <2>1, <2>2 DEF ConfirmRead, Reply
<1>2. CASE MarkPaid(h)
  <2>1. collected[OrderOf(h)] \in Int
    BY <1>2, <1>c DEF MarkPaid, TypeOK, At, OrderOf
  <2>2. orders'[OrderOf(h)].paid_at = handler[h].at
    BY <1>2, <1>b, <1>c, <2>1, RowEffect, PaidRowRow DEF MarkPaid
  <2>3. QED
    BY <1>2, <1>c, <2>2, <1>e, <1>f DEF MarkPaid, FulfilPCs, Time
<1>3. CASE MarkPaidRefused(h)
  BY <1>3, <1>f, HandlerEffect DEF MarkPaidRefused, HandlerStep, IsRefused
<1>4. CASE ConfirmReread(h)
  <2>1. CASE Goto(h, "exec_read") /\ RowOf(h).status \in Owed
    <3>1. UNCHANGED orders /\ RowOf(h).paid_at # NULL
      BY <1>4, <1>c, <2>1 DEF ConfirmReread, PaymentInv
    <3>2. QED BY <2>1, <3>1, <1>c, <1>e, <1>f DEF FulfilPCs
  <2>2. CASE Finish(h)
    BY <2>2, <1>d
  <2>3. QED BY <1>4, <2>1, <2>2 DEF ConfirmReread, Reply, Owed
<1>5. CASE MarkCancelled(h) \/ ResetRefused(h) \/ LockReread(h)
            \/ MarkCompleted(h) \/ RecordFailure(h)
  BY <1>5, <1>d DEF MarkCancelled, ResetRefused, LockReread, MarkCompleted,
     RecordFailure, Reply
<1>6. CASE MarkCancelledRefused(h)
  BY <1>6, <1>f, HandlerEffect DEF MarkCancelledRefused, HandlerStep
<1>7. CASE CancelReread(h)
  <2>1. CASE Goto(h, "exec_read") /\ RowOf(h).status \in Owed \cup Settled
    <3>1. UNCHANGED orders /\ RowOf(h).paid_at # NULL
      BY <1>7, <1>c, <2>1 DEF CancelReread, PaymentInv
    <3>2. QED BY <2>1, <3>1, <1>c, <1>e, <1>f DEF FulfilPCs
  <2>2. CASE Finish(h)
    BY <2>2, <1>d
  <2>3. QED
    BY <1>7, <2>1, <2>2 DEF CancelReread, CancelFulfils, Owed, Settled, RefundStatuses
<1>8. CASE ResetToPaid(h)
  <2>1. orders'[OrderOf(h)].paid_at # NULL
    BY <1>8, <1>b, <1>c, RowEffect, WithStatusRow
       DEF ResetToPaid, ResetRow, IsResettable, Statuses
  <2>2. QED BY <1>8, <2>1, <1>e, <1>f DEF ResetToPaid, FulfilPCs
<1>9. CASE ExecuteRead(h)
  <2>1. CASE Goto(h, "lock")
    BY <1>9, <2>1, <1>h DEF ExecuteRead, At, FulfilPCs, LockedPCs
  <2>2. CASE Finish(h)
    BY <2>2, <1>d
  <2>3. QED BY <1>9, <2>1, <2>2 DEF ExecuteRead, Reply
<1>10. CASE MarkRecharging(h)
  <2>1. orders'[OrderOf(h)].paid_at # NULL
    BY <1>10, <1>b, <1>c, <1>g, RowEffect, WithStatusRow
       DEF MarkRecharging, RechargingRow, At, FulfilPCs, Statuses
  <2>2. QED BY <1>10, <2>1, <1>e, <1>f DEF MarkRecharging, FulfilPCs, LockedPCs
<1>11. CASE MarkRechargingRefused(h)
  BY <1>11, <1>h DEF MarkRechargingRefused, At, FulfilPCs, LockedPCs
<1>12. CASE PrepareFails(h)
  BY <1>12, <1>h DEF PrepareFails, At, FulfilPCs, LockedPCs
<1>13. CASE SendRedeem(h)
  BY <1>13, <1>h DEF SendRedeem, At, FulfilPCs, LockedPCs
<1>14. CASE AnswerOk(h)
  <2>1. OrderOf(h) \in redeemed
    BY <1>14 DEF AnswerOk, RequestOf, RedeemKey
  <2>2. QED
    BY <1>14, <2>1, <1>c, <1>e, <1>f, <1>g DEF AnswerOk, At, FulfilPCs, LockedPCs
<1>15. CASE AnswerError(h)
  BY <1>15, <1>h DEF AnswerError, At, FulfilPCs, LockedPCs
<1>16. QED
  BY <1>1, <1>2, <1>3, <1>4, <1>5, <1>6, <1>7, <1>8, <1>9, <1>10, <1>11, <1>12,
     <1>13, <1>14, <1>15 DEF Progress

LEMMA HandlerSteps ==
    ASSUME TypeOK, LockInv, PaymentInv, [Next]_vars
    PROVE  \A x \in Handlers : HandlerStep(x)
<1> USE DEF dbVars, providerVars, platformVars
<1>a. ASSUME UNCHANGED handler PROVE \A x \in Handlers : HandlerStep(x)
  BY <1>a DEF HandlerStep
<1>b. ASSUME NEW h \in Handlers, OthersSame(h), HandlerStep(h)
      PROVE  \A x \in Handlers : HandlerStep(x)
  BY <1>b DEF HandlerStep, OthersSame
<1>1. ASSUME NEW h \in Handlers, Interrupt(h)
      PROVE  \A x \in Handlers : HandlerStep(x)
  <2>1. handler'[h].pc = "idle" /\ OthersSame(h)
    BY <1>1, HandlerEffect DEF Interrupt, Idle
  <2>2. QED BY <2>1, <1>b DEF HandlerStep
<1>2. ASSUME NEW h \in Handlers, NEW o \in Orders,
             DeliverNotification(h, o) \/ BeginCancel(h, o) \/ BeginRetry(h, o)
      PROVE  \A x \in Handlers : HandlerStep(x)
  <2>1. PICK op \in Operations, pc \in {"confirm", "cancel", "reset"} :
           Begin(h, op, o, pc) /\ (pc = "confirm" => op = "notify")
    BY <1>2 DEF DeliverNotification, BeginCancel, BeginRetry, Operations
  <2>2. handler'[h].pc = pc /\ handler'[h].op = op /\ OthersSame(h)
    BY <2>1, HandlerEffect DEF PCs
  <2>3. QED BY <2>1, <2>2, <1>b DEF HandlerStep
<1>3. CASE /\ ~\E h \in Handlers : Progress(h) \/ Interrupt(h)
           /\ ~\E h \in Handlers, o \in Orders :
                 DeliverNotification(h, o) \/ BeginCancel(h, o) \/ BeginRetry(h, o)
  <2>1. UNCHANGED handler
    BY <1>3 DEF Next, vars, CustomerPays, SweepExpires, RefundWrites,
       PlatformRedeems, SweepList, SweepInterrupt, Tick
  <2>2. QED BY <2>1, <1>a
<1>4. QED BY <1>1, <1>2, <1>3, HandlerProgress

-----------------------------------------------------------------------------
(***************************************************************************)
(* The payment.                                                            *)
(***************************************************************************)

\* What was collected for an order stays collected.
LEMMA FundedStays ==
    ASSUME TypeOK, [Next]_vars
    PROVE  \A o \in Orders : Funded(o) => Funded(o)'
<1> USE DEF dbVars, providerVars, platformVars
<1>1. ASSUME NEW x \in Orders, CustomerPays(x)
      PROVE  \A o \in Orders : Funded(o) => Funded(o)'
  BY <1>1 DEF CustomerPays, TypeOK, Funded, Tolerance
<1>2. CASE ~\E x \in Orders : CustomerPays(x)
  <2>1. UNCHANGED collected
    BY <1>2 DEF Next, vars, Progress, Interrupt, DeliverNotification, BeginCancel,
       BeginRetry, SweepExpires, RefundWrites, PlatformRedeems, SweepList,
       SweepInterrupt, Tick, ConfirmRead, MarkPaid, MarkPaidRefused, ConfirmReread,
       MarkCancelled, MarkCancelledRefused, CancelReread, ResetToPaid, ResetRefused,
       ExecuteRead, MarkRecharging, MarkRechargingRefused, LockReread, PrepareFails,
       SendRedeem, AnswerOk, AnswerError, MarkCompleted, RecordFailure
  <2>2. QED BY <2>1 DEF Funded
<1>3. QED BY <1>1, <1>2

LEMMA PaymentInit == Init => PaymentInv
  BY DEF Init, PaymentInv, PendingRow, Owed, Settled, RefundStatuses, Idle,
     LockedPCs, At

\* A row is marked paid by a handler that checked the amount, and stays paid.
LEMMA PaymentStep ==
    ASSUME TypeOK, LockInv, PaymentInv, [Next]_vars
    PROVE  PaymentInv'
<1>1. /\ \A o \in Orders : RowStep(o)
      /\ \A x \in Handlers : HandlerStep(x)
      /\ \A o \in Orders : Funded(o) => Funded(o)'
  BY RowSteps, HandlerSteps, FundedStays
<1>2. ASSUME NEW o \in Orders
      PROVE  /\ orders'[o].paid_at # NULL <=> orders'[o].status \in Owed \cup Settled
             /\ orders'[o].paid_at # NULL => Funded(o)'
             /\ orders'[o].paid_at = NULL => orders'[o].pay_amount = Due
             /\ orders'[o].completed_at # NULL => orders'[o].status \in Settled
             /\ orders[o].paid_at # NULL => orders'[o].paid_at # NULL
  <2>a. /\ orders[o].paid_at # NULL <=> orders[o].status \in Owed \cup Settled
        /\ orders[o].paid_at # NULL => Funded(o)
        /\ orders[o].paid_at = NULL => orders[o].pay_amount = Due
        /\ orders[o].completed_at # NULL => orders[o].status \in Settled
    BY DEF PaymentInv
  <2>b. Funded(o) => Funded(o)'
    BY <1>1
  <2>1. CASE orders'[o] = orders[o]
    BY <2>1, <2>a, <2>b
  <2>2. CASE RowCloses(o)
    BY <2>2, <2>a DEF RowCloses, Moves, SameColumns, Owed, Settled, RefundStatuses
  <2>3. CASE RowIsPaid(o)
    <3>1. Funded(o)' /\ orders'[o].paid_at # NULL
      BY <2>3, <2>b DEF RowIsPaid, PaymentInv, Time
    <3>2. QED
      BY <2>3, <2>a, <3>1 DEF RowIsPaid, Moves, Owed, Settled, RefundStatuses
  <2>4. CASE Moves(o, Owed, Owed) /\ SameColumns(o)
    BY <2>4, <2>a, <2>b DEF Moves, SameColumns, Owed, Settled, RefundStatuses
  <2>5. CASE RowIsDelivered(o)
    BY <2>5, <2>a, <2>b DEF RowIsDelivered, Moves, Owed, Settled
  <2>6. CASE RowIsRefunded(o)
    BY <2>6, <2>a, <2>b DEF RowIsRefunded, Moves, SameColumns
  <2>7. QED BY <1>1, <2>1, <2>2, <2>3, <2>4, <2>5, <2>6 DEF RowStep
<1>3. ASSUME NEW h \in Handlers
      PROVE  /\ handler'[h].pc \in {"confirm", "mark_paid"} => handler'[h].op = "notify"
             /\ handler'[h].pc = "mark_paid" => Funded(OrderOf(h))'
             /\ handler'[h].pc \in FulfilPCs =>
                  orders'[handler'[h].order].paid_at # NULL
  <2>0. handler[h].pc # "idle" => OrderOf(h) \in Orders
    BY DEF TypeOK, OrderOf
  <2>1. CASE handler'[h] = handler[h]
    <3>1. handler[h].pc \in FulfilPCs \cup {"mark_paid"} => OrderOf(h) \in Orders
      BY <2>0 DEF FulfilPCs, LockedPCs
    <3>2. QED
      BY <2>1, <3>1, <1>1, <1>2 DEF PaymentInv, At, FulfilPCs, RowOf, OrderOf, Funded
  <2>2. CASE handler'[h].pc \in {"idle", "cancel", "cancel_reread", "reset", "confirm"}
               /\ (handler'[h].pc = "confirm" => handler'[h].op = "notify")
    BY <2>2 DEF FulfilPCs, LockedPCs
  <2>3. CASE /\ handler'[h].pc = "mark_paid" /\ At(h, "confirm")
             /\ handler'[h].op = handler[h].op
             /\ handler'[h].order = OrderOf(h) /\ Funded(OrderOf(h))
    BY <2>0, <2>3, <1>1 DEF PaymentInv, At, FulfilPCs, LockedPCs, Funded, OrderOf
  <2>4. CASE handler'[h].pc = "confirm_reread"
    BY <2>4 DEF FulfilPCs, LockedPCs
  <2>5. CASE /\ handler'[h].pc \in FulfilPCs /\ handler'[h].order = OrderOf(h)
             /\ orders'[OrderOf(h)].paid_at # NULL
    BY <2>5 DEF FulfilPCs, LockedPCs
  <2>6. HandlerStep(h)
    BY <1>1
  <2>7. QED BY <2>1, <2>2, <2>3, <2>4, <2>5, <2>6 DEF HandlerStep
<1>4. QED
  BY <1>2, <1>3 DEF PaymentInv, At, FulfilPCs, RowOf, OrderOf, Funded

-----------------------------------------------------------------------------
(***************************************************************************)
(* The credit.                                                             *)
(***************************************************************************)

Redeems == \E q \in requests : PlatformRedeems(q)

\* Only a handler about to redeem its order sends a request, and only the
\* platform credits an order.
LEMMA PlatformSteps ==
    ASSUME TypeOK, [Next]_vars
    PROVE  /\ \A q \in requests' :
                q \in requests \/ \E h \in Handlers : At(h, "prepare") /\ q = RequestOf(h)
           /\ Redeems \/ UNCHANGED <<redeemed, credits>>
<1> USE DEF dbVars, providerVars, platformVars
<1>1. ASSUME NEW h \in Handlers, SendRedeem(h)
      PROVE  /\ \A q \in requests' : q \in requests \/ q = RequestOf(h)
             /\ At(h, "prepare") /\ UNCHANGED <<redeemed, credits>>
  BY <1>1 DEF SendRedeem
<1>2. CASE Redeems
  BY <1>2 DEF Redeems, PlatformRedeems
<1>3. CASE ~Redeems /\ ~\E h \in Handlers : SendRedeem(h)
  <2>1. UNCHANGED <<requests, redeemed, credits>>
    BY <1>3 DEF Redeems, Next, vars, Progress, Interrupt, DeliverNotification,
       BeginCancel, BeginRetry, CustomerPays, SweepExpires, RefundWrites, SweepList,
       SweepInterrupt, Tick, ConfirmRead, MarkPaid, MarkPaidRefused, ConfirmReread,
       MarkCancelled, MarkCancelledRefused, CancelReread, ResetToPaid, ResetRefused,
       ExecuteRead, MarkRecharging, MarkRechargingRefused, LockReread, PrepareFails,
       AnswerOk, AnswerError, MarkCompleted, RecordFailure
  <2>2. QED BY <2>1
<1>4. QED BY <1>1, <1>2, <1>3

LEMMA CreditInit == Init => CreditInv
  BY DEF Init, CreditInv, PendingRow, Settled, RefundStatuses, Idle, At

\* An order leaves Owed only for a status that says it was credited.
LEMMA CreditStep ==
    ASSUME TypeOK, LockInv, PaymentInv, CreditInv, [Next]_vars
    PROVE  CreditInv'
<1>1. /\ \A o \in Orders : RowStep(o)
      /\ \A h \in Handlers : HandlerStep(h)
      /\ \A q \in requests' :
           q \in requests \/ \E h \in Handlers : At(h, "prepare") /\ q = RequestOf(h)
      /\ Redeems \/ UNCHANGED <<redeemed, credits>>
  BY RowSteps, HandlerSteps, PlatformSteps
<1>2. /\ redeemed \subseteq Orders /\ redeemed \subseteq redeemed'
      /\ \A o \in redeemed' \ redeemed :
           \E q \in requests : o = q.key /\ q.order = o
      /\ \A o \in Orders : credits'[o] = IF o \in redeemed' THEN 1 ELSE 0
  <2>0. redeemed \subseteq Orders /\ \A o \in Orders : credits[o] \in Nat
    BY DEF TypeOK
  <2>1. CASE UNCHANGED <<redeemed, credits>>
    BY <2>0, <2>1 DEF CreditInv
  <2>2. ASSUME NEW q \in requests, PlatformRedeems(q)
        PROVE  /\ redeemed \subseteq redeemed'
               /\ \A o \in redeemed' \ redeemed : o = q.key /\ q.order = o
               /\ \A o \in Orders : credits'[o] = IF o \in redeemed' THEN 1 ELSE 0
    <3>1. q.key = q.order /\ q.key \in Orders /\ credits \in [Orders -> Nat]
      BY DEF TypeOK, CreditInv
    <3>2. \A o \in Orders : credits[o] = IF o \in redeemed THEN 1 ELSE 0
      BY DEF CreditInv
    <3>3. QED BY <2>2, <3>1, <3>2 DEF PlatformRedeems
  <2>3. QED BY <1>1, <2>0, <2>1, <2>2 DEF Redeems
<1>3. ASSUME NEW o \in Orders
      PROVE  /\ orders[o].status \in Owed =>
                  orders'[o].status \in Owed \/ o \in redeemed
             /\ orders'[o].status \in Settled => o \in redeemed
             /\ orders[o].status \in Owed \cup Settled =>
                  orders'[o].status \in Owed \cup Settled
  <2>a. /\ orders[o].status \in Settled => o \in redeemed
        /\ \A h \in Handlers : At(h, "complete") => OrderOf(h) \in redeemed
    BY DEF CreditInv
  <2>1. CASE orders'[o] = orders[o]
    BY <2>1, <2>a
  <2>2. CASE RowCloses(o) \/ RowIsPaid(o)
    BY <2>2 DEF RowCloses, RowIsPaid, Moves, Owed, Settled, RefundStatuses
  <2>3. CASE Moves(o, Owed, Owed)
    BY <2>3 DEF Moves, Owed, Settled, RefundStatuses
  <2>4. CASE RowIsDelivered(o)
    BY <2>4, <2>a DEF RowIsDelivered, Moves, Owed, Settled
  <2>5. CASE RowIsRefunded(o)
    BY <2>5, <2>a DEF RowIsRefunded, Moves
  <2>6. QED BY <1>1, <2>1, <2>2, <2>3, <2>4, <2>5 DEF RowStep
<1>4. ASSUME NEW q \in requests'
      PROVE  q.key = q.order /\ (q.key \in redeemed' \/ orders'[q.order].status \in Owed)
  <2>1. CASE q \in requests
    <3>1. q.key \in Orders /\ q.key = q.order
          /\ (q.key \in redeemed \/ orders[q.order].status \in Owed)
      BY <2>1 DEF CreditInv, TypeOK
    <3>2. QED BY <3>1, <1>2, <1>3
  <2>2. ASSUME NEW h \in Handlers, At(h, "prepare"), q = RequestOf(h)
        PROVE  q.key = q.order /\ (q.key \in redeemed' \/ orders'[q.order].status \in Owed)
    <3>1. q.key = OrderOf(h) /\ q.order = OrderOf(h) /\ OrderOf(h) \in Orders
      BY <2>2 DEF RequestOf, RedeemKey, TypeOK, At, OrderOf
    <3>2. orders[OrderOf(h)].status \in Owed
      BY <2>2 DEF LockInv, LockedPCs, At, RowOf, Owed
    <3>3. QED BY <3>1, <3>2, <1>2, <1>3
  <2>3. QED BY <1>1, <2>1, <2>2
<1>5. ASSUME NEW h \in Handlers, handler'[h].pc = "complete"
      PROVE  handler'[h].order \in redeemed'
  <2>1. CASE handler'[h] = handler[h]
    BY <1>2, <1>5, <2>1 DEF CreditInv, At, OrderOf
  <2>2. CASE handler'[h] # handler[h]
    BY <1>1, <1>2, <1>5, <2>2 DEF HandlerStep
  <2>3. QED BY <2>1, <2>2
<1>6. ASSUME NEW o \in redeemed'
      PROVE  orders'[o].status \in Owed \cup Settled
  <2>1. CASE o \in redeemed
    BY <1>2, <1>3, <2>1 DEF CreditInv
  <2>2. CASE o \notin redeemed
    <3>1. PICK q \in requests : o = q.key /\ q.order = o
      BY <1>2, <2>2
    <3>2. o \in Orders /\ orders[o].status \in Owed
      BY <2>2, <3>1 DEF CreditInv, TypeOK
    <3>3. QED BY <1>3, <3>2
  <2>3. QED BY <2>1, <2>2
<1>7. QED
  BY <1>2, <1>3, <1>4, <1>5, <1>6 DEF CreditInv, At, OrderOf

-----------------------------------------------------------------------------
(***************************************************************************)
(* The deadline.                                                           *)
(***************************************************************************)

\* The sweep lists overdue rows only, and time does not run back.
LEMMA SweepSteps ==
    ASSUME TypeOK, [Next]_vars
    PROVE  /\ now' \in Int /\ now' >= now
           /\ \A o \in sweep' : o \in sweep \/ orders[o].expires_at < now
<1> USE DEF dbVars, providerVars, platformVars
<1>0. now \in Int
  BY DEF TypeOK, Time
<1>1. CASE SweepList
  BY <1>0, <1>1 DEF SweepList, Overdue, IsExpiredPending
<1>2. CASE SweepInterrupt
  BY <1>0, <1>2 DEF SweepInterrupt
<1>3. CASE Tick
  BY <1>0, <1>3 DEF Tick
<1>4. CASE \E o \in Orders : SweepExpires(o)
  BY <1>0, <1>4 DEF SweepExpires
<1>5. CASE /\ ~SweepList /\ ~SweepInterrupt /\ ~Tick
           /\ ~\E o \in Orders : SweepExpires(o)
  <2>1. UNCHANGED <<sweep, now>>
    BY <1>5 DEF Next, vars, Progress, Interrupt, DeliverNotification,
       BeginCancel, BeginRetry, CustomerPays, RefundWrites, PlatformRedeems,
       ConfirmRead, MarkPaid, MarkPaidRefused, ConfirmReread,
       MarkCancelled, MarkCancelledRefused, CancelReread, ResetToPaid, ResetRefused,
       ExecuteRead, MarkRecharging, MarkRechargingRefused, LockReread, PrepareFails,
       SendRedeem, AnswerOk, AnswerError, MarkCompleted, RecordFailure
  <2>2. QED BY <1>0, <2>1
<1>6. QED BY <1>1, <1>2, <1>3, <1>4, <1>5

LEMMA DeadlineInit == Init => DeadlineInv
  BY DEF Init, DeadlineInv, PendingRow, Idle, At

\* A row expires past its deadline; a payment it then refuses was handled more
\* than Grace later still.
LEMMA DeadlineStep ==
    ASSUME TypeOK, LockInv, PaymentInv, DeadlineInv, [Next]_vars
    PROVE  DeadlineInv'
<1>1. /\ \A o \in Orders : RowStep(o)
      /\ \A h \in Handlers : HandlerStep(h)
      /\ now' \in Int /\ now' >= now
      /\ \A o \in sweep' : o \in sweep \/ orders[o].expires_at < now
  BY RowSteps, HandlerSteps, SweepSteps
<1>2. /\ now \in Int
      /\ \A o \in Orders : /\ orders[o].expires_at \in Int
                           /\ orders[o].updated_at \in Int
      /\ sweep' \subseteq Orders
  BY TypeStep DEF TypeOK, Row, Time
<1>3. ASSUME NEW o \in Orders
      PROVE  /\ orders'[o].expires_at = orders[o].expires_at
             /\ orders'[o].status = "EXPIRED" =>
                  orders'[o].updated_at > orders'[o].expires_at
             /\ orders[o].status # "PENDING" =>
                  /\ orders'[o].status # "PENDING"
                  /\ orders'[o].status = "EXPIRED" => orders[o].status = "EXPIRED"
  <2>a. /\ o \in sweep => orders[o].expires_at < now
        /\ orders[o].status = "EXPIRED" => orders[o].updated_at > orders[o].expires_at
    BY DEF DeadlineInv
  <2>1. CASE orders'[o] = orders[o]
    BY <2>1, <2>a
  <2>2. CASE RowCloses(o)
    BY <1>2, <2>2, <2>a DEF RowCloses, Moves, SameColumns
  <2>3. CASE RowIsPaid(o) \/ RowIsDelivered(o)
    BY <2>3 DEF RowIsPaid, RowIsDelivered, Moves
  <2>4. CASE (Moves(o, Owed, Owed) /\ SameColumns(o)) \/ RowIsRefunded(o)
    BY <2>4 DEF RowIsRefunded, Moves, SameColumns, Owed, Settled, RefundStatuses
  <2>5. QED BY <1>1, <2>1, <2>2, <2>3, <2>4 DEF RowStep
<1>4. ASSUME NEW o \in sweep' PROVE orders'[o].expires_at < now'
  <2>1. o \in Orders /\ orders[o].expires_at < now
    BY <1>1, <1>2 DEF DeadlineInv
  <2>2. QED BY <1>1, <1>2, <1>3, <2>1
<1>5. ASSUME NEW h \in Handlers, handler'[h].pc = "confirm_reread"
      PROVE  LET o == handler'[h].order IN
             /\ orders'[o].status # "PENDING"
             /\ orders'[o].status = "EXPIRED" =>
                  handler'[h].at > orders'[o].expires_at + Grace
  <2> DEFINE o == handler[h].order
  <2>1. CASE handler'[h] = handler[h]
    <3>1. o \in Orders
      BY <1>5, <2>1 DEF TypeOK
    <3>2. /\ orders[o].status # "PENDING"
          /\ orders[o].status = "EXPIRED" => handler[h].at > orders[o].expires_at + Grace
      BY <1>5, <2>1 DEF DeadlineInv, At, RowOf, OrderOf
    <3>3. QED BY <1>3, <2>1, <3>1, <3>2
  <2>2. CASE IsRefused(h)
    <3>1. /\ o \in Orders /\ handler[h].at \in Int
          /\ handler'[h].order = o /\ handler'[h].at = handler[h].at
      BY <2>2, HandlerFacts DEF IsRefused, At, OrderOf
    <3>2. /\ orders[o].status # "PENDING"
          /\ ~(orders[o].status = "EXPIRED" /\ orders[o].updated_at >= handler[h].at - Grace)
      BY <2>2 DEF IsRefused, IsPayable, GraceCutoff, RowOf, OrderOf
    <3>3. orders[o].status = "EXPIRED" => orders[o].updated_at > orders[o].expires_at
      BY <3>1 DEF DeadlineInv
    <3>4. orders[o].expires_at \in Int /\ orders[o].updated_at \in Int /\ Grace \in Int
      BY <1>2, <3>1
    <3>5. orders[o].status = "EXPIRED" => handler[h].at > orders[o].expires_at + Grace
      BY <3>1, <3>2, <3>3, <3>4
    <3>6. QED BY <1>3, <3>1, <3>2, <3>5
  <2>3. QED BY <1>1, <1>5, <2>1, <2>2 DEF HandlerStep, FulfilPCs, LockedPCs
<1>6. QED
  BY <1>3, <1>4, <1>5 DEF DeadlineInv, At, RowOf, OrderOf

-----------------------------------------------------------------------------
(***************************************************************************)
(* The inductive invariant, and the safety properties it implies.          *)
(***************************************************************************)

LEMMA IInvInit == Init => IInv
  BY TypeInit, LockInit, CreditInit, PaymentInit, DeadlineInit DEF IInv

LEMMA IInvStep == IInv /\ [Next]_vars => IInv'
  BY TypeStep, LockStep, CreditStep, PaymentStep, DeadlineStep DEF IInv

\* The columns of every row, the handlers, the requests on their way and the
\* platform's credits agree in every state the service reaches.
THEOREM InvariantHolds == Spec => []IInv
  BY IInvInit, IInvStep, PTL DEF Spec

\* However many notifications, retries and redemption requests race, time out
\* and arrive late, the platform credits an order at most once.
THEOREM CreditIsSingle == Spec => []CreditedAtMostOnce
<1>1. IInv => CreditedAtMostOnce
  BY DEF IInv, CreditInv, CreditedAtMostOnce
<1>2. QED BY <1>1, InvariantHolds, PTL

\* The platform credits no order whose payment was not collected in full: a
\* credited order is owed or settled, so its row has a payment date, and a
\* handler writes that date only after it accepted the amount.
THEOREM CreditIsFunded == Spec => []CreditsAreFunded
<1>1. IInv => CreditsAreFunded
  <2> SUFFICES ASSUME IInv, NEW o \in Orders, credits[o] > 0 PROVE Funded(o)
    BY DEF CreditsAreFunded
  <2>1. orders[o].status \in Owed \cup Settled
    BY DEF IInv, CreditInv
  <2>2. QED BY <2>1 DEF IInv, PaymentInv
<1>2. QED BY <1>1, InvariantHolds, PTL

\* The payment and recharge state derived from a row, which users and
\* administrators are shown, says what really happened to the order.
THEOREM DerivedStateIsTrue == Spec => []DerivedStateTruthful
<1>1. ASSUME IInv, NEW o \in Orders
      PROVE  /\ DeriveOrderState(orders[o]).payment_success => Funded(o)
             /\ DeriveOrderState(orders[o]).recharge_success => credits[o] = 1
             /\ DeriveOrderState(orders[o]).recharge_status = "PaidPending" =>
                  orders[o].status = "PAID"
             /\ IsRechargeRetryable(orders[o]) =>
                  RetryAllowed(orders[o]) /\ orders[o].completed_at = NULL
  <2>1. /\ orders[o].paid_at # NULL <=> orders[o].status \in Owed \cup Settled
        /\ orders[o].paid_at # NULL => Funded(o)
        /\ orders[o].completed_at # NULL => orders[o].status \in Settled
    BY <1>1 DEF IInv, PaymentInv
  <2>2. orders[o].status \in Settled => credits[o] = 1
    BY <1>1 DEF IInv, CreditInv
  <2>3. RechargeSuccess(orders[o]) => orders[o].status \in Settled
    BY <2>1 DEF RechargeSuccess, Settled
  <2>4. RechargeStatus(orders[o]) = "PaidPending" => orders[o].status = "PAID"
    <3> SUFFICES ASSUME RechargeStatus(orders[o]) = "PaidPending"
                 PROVE  orders[o].status = "PAID"
      OBVIOUS
    <3>1. /\ ~RechargeSuccess(orders[o])
          /\ orders[o].status \notin {"RECHARGING", "FAILED"} \cup RefundStatuses
          /\ PaymentSuccess(orders[o])
      BY DEF RechargeStatus
    <3>2. QED
      BY <2>1, <3>1 DEF PaymentSuccess, RechargeSuccess, Owed, Settled
  <2>5. IsRechargeRetryable(orders[o]) =>
          RetryAllowed(orders[o]) /\ orders[o].completed_at = NULL
    BY <2>1 DEF IsRechargeRetryable, RetryAllowed, IsRefundStatus, Settled,
       RefundStatuses
  <2>6. QED
    BY <2>1, <2>2, <2>3, <2>4, <2>5 DEF DeriveOrderState, PaymentSuccess
<1>2. IInv => DerivedStateTruthful
  BY <1>1 DEF DerivedStateTruthful
<1>3. QED BY <1>2, InvariantHolds, PTL

-----------------------------------------------------------------------------
(***************************************************************************)
(* Acknowledgements.                                                       *)
(***************************************************************************)

\* A step that acknowledges the notification of a handler is a reply of that
\* very handler, and says true.
LEMMA Acknowledgement ==
    ASSUME TypeOK, [Next]_vars, NEW h \in Handlers, Acknowledges(h)
    PROVE  \/ ConfirmRead(h) /\ collected[OrderOf(h)] <= 0
           \/ ConfirmReread(h) /\ RowOf(h).status \notin Owed
           \/ ExecuteRead(h) /\ RowOf(h).status \notin Owed
           \/ LockReread(h) /\ RowOf(h).status \in Settled
           \/ MarkCompleted(h)
<1> USE DEF dbVars, providerVars, platformVars
<1>1. acked' # acked /\ handler'[h] # handler[h]
  BY DEF Acknowledges, At
<1>2. PICK g \in Handlers : Progress(g)
  BY <1>1 DEF Next, vars, Interrupt, DeliverNotification, BeginCancel, BeginRetry,
     CustomerPays, SweepExpires, RefundWrites, PlatformRedeems, SweepList,
     SweepInterrupt, Tick
<1>3. \/ ConfirmRead(g) \/ ConfirmReread(g) \/ ExecuteRead(g) \/ LockReread(g)
      \/ MarkCompleted(g) \/ RecordFailure(g)
  BY <1>1, <1>2 DEF Progress, MarkPaid, MarkPaidRefused, MarkCancelled,
     MarkCancelledRefused, CancelReread, ResetToPaid, ResetRefused, MarkRecharging,
     MarkRechargingRefused, PrepareFails, SendRedeem, AnswerOk, AnswerError
<1>4. PICK ok \in BOOLEAN : Reply(g, ok)
  BY <1>1, <1>3 DEF ConfirmRead, ConfirmReread, ExecuteRead, LockReread,
     MarkCompleted, RecordFailure, Reply
<1>5. g = h
  BY <1>1, <1>4, HandlerEffect DEF OthersSame
<1>6. ~Reply(h, FALSE)
  BY <1>1 DEF Reply
<1>7. QED
  BY <1>1, <1>3, <1>5, <1>6 DEF ConfirmRead, ConfirmReread, ExecuteRead, LockReread,
     MarkCompleted, RecordFailure, Reply, Owed, Settled, RefundStatuses

LEMMA AckStep ==
    ASSUME IInv, [Next]_vars, NEW h \in Handlers,
           Acknowledges(h), Funded(OrderOf(h))
    PROVE  \/ credits[OrderOf(h)] = 1
           \/ RowOf(h).status = "CANCELLED"
           \/ handler[h].at > RowOf(h).expires_at + Grace
<1>1. /\ OrderOf(h) \in Orders /\ RowOf(h) = orders[OrderOf(h)]
      /\ RowOf(h).status \in Statuses
  BY HandlerFacts DEF IInv, Acknowledges, RowOf, Row
<1>2. RowOf(h).status \in Settled \/ OrderOf(h) \in redeemed => credits[OrderOf(h)] = 1
  BY <1>1 DEF IInv, CreditInv
<1>3. CASE ConfirmRead(h) /\ collected[OrderOf(h)] <= 0
  BY <1>3 DEF Funded, Tolerance
<1>4. CASE ConfirmReread(h) /\ RowOf(h).status \notin Owed
  <2>1. /\ RowOf(h).status # "PENDING"
        /\ RowOf(h).status = "EXPIRED" => handler[h].at > RowOf(h).expires_at + Grace
    BY <1>4 DEF ConfirmReread, IInv, DeadlineInv
  <2>2. RowOf(h).status \in Settled \cup {"EXPIRED", "CANCELLED"}
    BY <1>1, <1>4, <2>1 DEF Statuses, Owed, Settled
  <2>3. QED BY <1>2, <2>1, <2>2
<1>5. CASE ExecuteRead(h) /\ RowOf(h).status \notin Owed
  <2>1. RowOf(h).paid_at # NULL
    BY <1>5 DEF ExecuteRead, At, IInv, PaymentInv
  <2>2. RowOf(h).status \in Settled
    BY <1>1, <1>5, <2>1 DEF IInv, PaymentInv
  <2>3. QED BY <1>2, <2>2
<1>6. CASE LockReread(h) /\ RowOf(h).status \in Settled
  BY <1>2, <1>6
<1>7. CASE MarkCompleted(h)
  <2>1. OrderOf(h) \in redeemed
    BY <1>7 DEF MarkCompleted, IInv, CreditInv
  <2>2. QED BY <1>2, <2>1
<1>8. QED
  BY <1>3, <1>4, <1>5, <1>6, <1>7, Acknowledgement DEF IInv

\* A notification of a good payment is acknowledged, so that the provider
\* stops redelivering it, only when the order is credited or cancelled or the
\* handling began more than Grace after the deadline.
THEOREM AcksAreSettled == Spec => AckOnlyWhenSettled
<1>1. IInv /\ [Next]_vars =>
        [\A h \in Handlers :
           Acknowledges(h) /\ Funded(OrderOf(h)) =>
             \/ credits[OrderOf(h)] = 1
             \/ RowOf(h).status = "CANCELLED"
             \/ handler[h].at > RowOf(h).expires_at + Grace]_vars
  BY AckStep
<1>2. QED BY <1>1, InvariantHolds, PTL DEF Spec, AckOnlyWhenSettled

-----------------------------------------------------------------------------
(***************************************************************************)
(* The service implements OrderLifecycle.                                  *)
(***************************************************************************)

Phase == [o \in Orders |-> PhaseOf(orders[o].status)]

FundedOrders == {o \in Orders : Funded(o)}

\* The phase that a status stands for.
LEMMA Phases ==
    /\ PhaseOf("PENDING") = "open"
    /\ PhaseOf("EXPIRED") = "lapsed"
    /\ PhaseOf("CANCELLED") = "cancelled"
    /\ \A s \in Owed : PhaseOf(s) = "owed"
    /\ PhaseOf("COMPLETED") = "delivered"
    /\ \A s \in Reversing : PhaseOf(s) = "reversing"
    /\ \A s \in {"PARTIALLY_REFUNDED", "REFUNDED"} : PhaseOf(s) = "reversed"
  BY DEF PhaseOf, Owed, Reversing

LEMMA LifecycleInit == Init => Lifecycle!LInit
<1> SUFFICES ASSUME Init PROVE Lifecycle!LInit
  OBVIOUS
<1>1. Phase = [o \in Orders |-> "open"]
  BY Phases DEF Init, PendingRow, Phase
<1>2. FundedOrders = {}
  BY DEF Init, FundedOrders, Funded, Tolerance
<1>3. QED
  BY <1>1, <1>2 DEF Init, Lifecycle!LInit, Phase, FundedOrders

\* A step that writes rows writes one row, and meanwhile nobody pays and the
\* platform credits nothing.
LEMMA RowsAlone ==
    ASSUME TypeOK, [Next]_vars, orders' # orders
    PROVE  /\ \E o \in Orders : RowsSame(o)
           /\ UNCHANGED <<collected, credits>>
<1> USE DEF dbVars, providerVars, platformVars
<1>1. ASSUME NEW o \in Orders, SweepExpires(o) \/ RefundWrites(o)
      PROVE  RowsSame(o) /\ UNCHANGED <<collected, credits>>
  BY <1>1 DEF SweepExpires, RefundWrites, TypeOK, RowsSame
<1>2. ASSUME NEW h \in Handlers, Progress(h)
      PROVE  /\ \E o \in Orders : RowsSame(o)
             /\ UNCHANGED <<collected, credits>>
  <2>1. ~At(h, "idle") /\ \E row : SetRow(h, row)
    BY <1>2 DEF Progress, At, ConfirmRead, MarkPaid, MarkPaidRefused, ConfirmReread,
       MarkCancelled, MarkCancelledRefused, CancelReread, ResetToPaid, ResetRefused,
       ExecuteRead, MarkRecharging, MarkRechargingRefused, LockReread, PrepareFails,
       SendRedeem, AnswerOk, AnswerError, MarkCompleted, RecordFailure
  <2>2. OrderOf(h) \in Orders /\ RowsSame(OrderOf(h))
    BY <2>1, HandlerFacts, RowEffect
  <2>3. UNCHANGED <<collected, credits>>
    BY <1>2 DEF Progress, ConfirmRead, MarkPaid, MarkPaidRefused, ConfirmReread,
       MarkCancelled, MarkCancelledRefused, CancelReread, ResetToPaid, ResetRefused,
       ExecuteRead, MarkRecharging, MarkRechargingRefused, LockReread, PrepareFails,
       SendRedeem, AnswerOk, AnswerError, MarkCompleted, RecordFailure
  <2>4. QED BY <2>2, <2>3
<1>3. QED
  BY <1>1, <1>2 DEF Next, vars, Interrupt, DeliverNotification, BeginCancel,
     BeginRetry, CustomerPays, PlatformRedeems, SweepList, SweepInterrupt, Tick

\* A step that writes no row is a payment, a credit or none.
LEMMA RowsStay ==
    ASSUME IInv, [Next]_vars, UNCHANGED orders
    PROVE  [Lifecycle!LNext]_(Lifecycle!lvars)
<1> USE DEF dbVars, providerVars, platformVars
<1>0. UNCHANGED Phase
  BY DEF Phase
<1>1. ASSUME NEW o \in Orders, CustomerPays(o)
      PROVE  [Lifecycle!LNext]_(Lifecycle!lvars)
  <2>1. FundedOrders' = FundedOrders \/ FundedOrders' = FundedOrders \cup {o}
    BY <1>1 DEF CustomerPays, TypeOK, IInv, FundedOrders, Funded, Tolerance
  <2>2. UNCHANGED credits
    BY <1>1 DEF CustomerPays
  <2>3. QED
    BY <1>0, <2>1, <2>2
       DEF Lifecycle!LNext, Lifecycle!Fund, Lifecycle!lvars, Phase, FundedOrders
<1>2. ASSUME NEW q \in requests, PlatformRedeems(q)
      PROVE  [Lifecycle!LNext]_(Lifecycle!lvars)
  <2> DEFINE o == q.order
  <2>0. UNCHANGED FundedOrders
    BY <1>2 DEF PlatformRedeems, FundedOrders, Funded
  <2>1. CASE q.key \in redeemed
    BY <1>0, <1>2, <2>0, <2>1 DEF PlatformRedeems, Lifecycle!lvars, Phase, FundedOrders
  <2>2. CASE q.key \notin redeemed
    <3>1. o \in Orders /\ orders[o].status \in Owed /\ credits[o] = 0
      BY <2>2 DEF IInv, CreditInv, TypeOK
    <3>2. credits' = [credits EXCEPT ![o] = 1]
      BY <1>2, <2>2, <3>1 DEF PlatformRedeems
    <3>3. Phase[o] = "owed"
      BY <3>1, Phases DEF Phase
    <3>4. QED
      BY <1>0, <2>0, <3>1, <3>2, <3>3
         DEF Lifecycle!LNext, Lifecycle!Credit, Phase, FundedOrders
  <2>3. QED BY <2>1, <2>2
<1>3. CASE /\ ~\E o \in Orders : CustomerPays(o)
           /\ ~\E q \in requests : PlatformRedeems(q)
  <2>1. UNCHANGED <<collected, credits>>
    BY <1>3 DEF Next, vars, Progress, Interrupt, DeliverNotification, BeginCancel,
       BeginRetry, SweepExpires, RefundWrites, SweepList,
       SweepInterrupt, Tick, ConfirmRead, MarkPaid, MarkPaidRefused, ConfirmReread,
       MarkCancelled, MarkCancelledRefused, CancelReread, ResetToPaid, ResetRefused,
       ExecuteRead, MarkRecharging, MarkRechargingRefused, LockReread, PrepareFails,
       SendRedeem, AnswerOk, AnswerError, MarkCompleted, RecordFailure
  <2>2. UNCHANGED FundedOrders
    BY <2>1 DEF FundedOrders, Funded
  <2>3. QED BY <1>0, <2>1, <2>2 DEF Lifecycle!lvars, Phase, FundedOrders
<1>4. QED BY <1>1, <1>2, <1>3

\* A step that writes a row moves its order along the lifecycle.
LEMMA RowsMove ==
    ASSUME IInv, [Next]_vars, orders' # orders
    PROVE  [Lifecycle!LNext]_(Lifecycle!lvars)
<1>1. PICK o \in Orders : RowsSame(o)
  BY RowsAlone DEF IInv
<1>2. UNCHANGED <<collected, credits>> /\ UNCHANGED FundedOrders
  BY RowsAlone DEF IInv, FundedOrders, Funded
<1>3. RowStep(o) /\ (o \in redeemed => credits[o] = 1)
  BY RowSteps DEF IInv, CreditInv
<1>4. Phase' = [Phase EXCEPT ![o] = PhaseOf(orders'[o].status)]
  BY <1>1 DEF Phase, RowsSame
<1>5. Phase[o] = PhaseOf(orders[o].status)
  BY DEF Phase
<1>6. ASSUME PhaseOf(orders'[o].status) = Phase[o]
      PROVE  [Lifecycle!LNext]_(Lifecycle!lvars)
  <2>1. Phase' = Phase
    BY <1>4, <1>6 DEF Phase
  <2>2. QED BY <1>2, <2>1 DEF Lifecycle!lvars, Phase, FundedOrders
<1>7. ASSUME NEW from, NEW to, Phase[o] \in from, PhaseOf(orders'[o].status) = to
      PROVE  Lifecycle!Move(o, from, to)
  BY <1>2, <1>4, <1>7 DEF Lifecycle!Move, Phase, FundedOrders
<1>a. CASE orders'[o] = orders[o]
  BY <1>5, <1>6, <1>a
<1>b. CASE RowCloses(o)
  <2>1. /\ Phase[o] = "open"
        /\ PhaseOf(orders'[o].status) \in {"cancelled", "lapsed"}
    BY <1>5, <1>b, Phases DEF RowCloses, Moves
  <2>2. QED
    BY <1>7, <2>1 DEF Lifecycle!LNext, Lifecycle!Lapse, Lifecycle!Cancel
<1>c. CASE RowIsPaid(o)
  <2>1. /\ Phase[o] \in {"open", "lapsed"} /\ PhaseOf(orders'[o].status) = "owed"
    BY <1>5, <1>c, Phases DEF RowIsPaid, Moves, Owed
  <2>2. o \in FundedOrders
    BY <1>c DEF RowIsPaid, IInv, PaymentInv, FundedOrders
  <2>3. QED
    BY <1>7, <2>1, <2>2 DEF Lifecycle!LNext, Lifecycle!Settle, FundedOrders
<1>d. CASE Moves(o, Owed, Owed)
  BY <1>5, <1>6, <1>d, Phases DEF Moves
<1>e. CASE RowIsDelivered(o)
  <2>1. /\ Phase[o] = "owed" /\ PhaseOf(orders'[o].status) = "delivered"
    BY <1>5, <1>e, Phases DEF RowIsDelivered, Moves, Owed
  <2>2. credits[o] = 1
    BY <1>3, <1>e DEF RowIsDelivered, IInv, CreditInv
  <2>3. QED
    BY <1>7, <2>1, <2>2 DEF Lifecycle!LNext, Lifecycle!Deliver
<1>f. CASE RowIsRefunded(o)
  <2>1. CASE Moves(o, {"COMPLETED"}, Reversing)
    BY <1>5, <1>7, <2>1, Phases DEF Moves, Lifecycle!LNext, Lifecycle!Reverse
  <2>2. CASE Moves(o, Reversing, Reversing)
    BY <1>5, <1>6, <2>2, Phases DEF Moves
  <2>3. CASE Moves(o, Reversing, {"COMPLETED"})
    BY <1>5, <1>7, <2>3, Phases DEF Moves, Lifecycle!LNext, Lifecycle!Restore
  <2>4. CASE Moves(o, Reversing, {"PARTIALLY_REFUNDED", "REFUNDED"})
    BY <1>5, <1>7, <2>4, Phases DEF Moves, Lifecycle!LNext, Lifecycle!Finish
  <2>5. QED
    BY <1>f, <2>1, <2>2, <2>3, <2>4
       DEF RowIsRefunded, Moves, Settled, Reversing, RefundStatuses
<1>8. QED BY <1>3, <1>a, <1>b, <1>c, <1>d, <1>e, <1>f DEF RowStep

\* Every step of the service is a step of the purchase's life or none: a
\* cancelled order stays cancelled, a credit comes only while the order is
\* owed and only once, and delivery is recorded only after the credit.
THEOREM ServiceImplementsLifecycle == Spec => ImplementsLifecycle
<1>1. IInv /\ [Next]_vars => [Lifecycle!LNext]_(Lifecycle!lvars)
  BY RowsStay, RowsMove
<1>2. QED
  BY <1>1, LifecycleInit, InvariantHolds, PTL
     DEF Spec, ImplementsLifecycle, Lifecycle!LSpec

=============================================================================
