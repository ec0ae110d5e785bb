--------------------------- MODULE LibRefund_proofs ---------------------------
(***************************************************************************)
(* Proofs about LibRefund, for any sets of orders, requests and            *)
(* administrators and any amounts: without lost database calls one refund  *)
(* at a time works on an order, an order is paid back once, and what was   *)
(* taken from the user is accounted for.                                   *)
(*                                                                         *)
(* The requests of LibOrders change nothing here (QuietOrders), so a step  *)
(* is one of a refund.  AdminStep says once what each comes to; the parts  *)
(* of the inductive invariant are proved from it.                          *)
(***************************************************************************)
EXTENDS LibRefund, TLAPS

USE LibOrdersAssumption, LibRefundAssumption

-----------------------------------------------------------------------------
(***************************************************************************)
(* The requests of LibOrders.                                              *)
(***************************************************************************)

LEMMA IdleFacts == Idle.pc = "idle" /\ Idle.order = NULL
  BY DEF Idle

\* A handler is idle or redelivers a notification.
LEMMA HandlerFacts ==
    ASSUME FulfilledInv, NEW h \in Handlers
    PROVE  /\ handler[h] \in {Idle} \cup Redeliveries
           /\ handler[h].pc \in {"idle", "find", "mark_paid", "reread"}
           /\ ~At(h, "idle") => /\ handler[h] \in Redeliveries
                                /\ OrderOf(h) \in Orders
                                /\ handler[h].op = "notify"
<1>1. handler[h] \in {Idle} \cup Redeliveries
  BY DEF FulfilledInv
<1>2. \A r \in Redeliveries : /\ r.pc \in {"find", "mark_paid", "reread"}
                               /\ r.op = "notify" /\ r.order \in Orders
  BY DEF Redeliveries
<1>3. QED BY <1>1, <1>2, IdleFacts DEF At, OrderOf

\* A fulfilled row cannot be paid, locked, retried or closed.
LEMMA RowFacts ==
    ASSUME FulfilledInv, NEW o \in Orders
    PROVE  /\ orders[o] \in Row /\ orders[o].tradeNo /\ Exists(orders[o])
           /\ orders[o].status \in {"COMPLETED"} \cup REFUND_STATUSES
           /\ ~IsPayable(orders[o]) /\ ~IsRetryable(orders[o])
           /\ orders[o].status \notin {"PENDING", "FAILED"}
<1>1. /\ orders[o] \in Row /\ orders[o].tradeNo
      /\ orders[o].status \in {"COMPLETED"} \cup REFUND_STATUSES
  BY DEF FulfilledInv, FulfilledRows
<1>2. Exists(orders[o])
  BY <1>1 DEF Exists, Absent
<1>3. QED
  BY <1>1, <1>2 DEF REFUND_STATUSES, IsPayable, IsRetryable

LEMMA GotoEffect ==
    ASSUME FulfilledInv, NEW h \in Handlers, ~At(h, "idle"),
           NEW pc \in {"find", "mark_paid", "reread"}, Goto(h, pc)
    PROVE  handler' \in [Handlers -> {Idle} \cup Redeliveries]
<1>1. handler[h] \in Redeliveries
  BY HandlerFacts
<1>2. [handler[h] EXCEPT !.pc = pc] \in Redeliveries
  BY <1>1 DEF Redeliveries
<1>3. handler' = [handler EXCEPT ![h] = [handler[h] EXCEPT !.pc = pc]]
  BY DEF Goto, FulfilledInv
<1>4. QED BY <1>2, <1>3 DEF FulfilledInv

LEMMA FinishEffect ==
    ASSUME FulfilledInv, NEW h \in Handlers, Finish(h)
    PROVE  handler' \in [Handlers -> {Idle} \cup Redeliveries]
  BY DEF FulfilledInv, Finish

\* What the requests leave to the refunds.
Quiet ==
    /\ UNCHANGED <<orders, begun, inflight, gateway, collected>>
    /\ handler' \in [Handlers -> {Idle} \cup Redeliveries]
    /\ Faultless' => Faultless
    /\ faults' \in Nat

LEMMA QuietSteps ==
    ASSUME FulfilledInv, faults \in Nat, NEW h \in Handlers, Steps(h)
    PROVE  Quiet
<1>1. handler[h].pc \in {"find", "mark_paid", "reread"} /\ ~At(h, "idle")
  <2>1. handler[h].pc \in {"idle", "find", "mark_paid", "reread"}
    BY HandlerFacts
  <2>2. ~At(h, "idle")
    BY DEF Steps, CountPending, SumUser, SumMethod, Admit, InsertOrder,
           CreatePayment, AttachPayment, AuditCreated, DeleteOrder, QueryOrder,
           CancelPayment, CloseOrder, CloseOrderRefused, AuditClosed, FindOrder,
           MarkPaid, MarkPaidRefused, RereadOrder, AuditPaid, ReadForFulfilment,
           LockOrder, Redeem, CompleteOrder, AuditSuccess, FailOrder,
           FailOrderMissing, AuditFailed, ResetOrder, AuditRetry, At
  <2>3. QED BY <2>1, <2>2 DEF At
<1>2. FindOrder(h) \/ MarkPaid(h) \/ MarkPaidRefused(h) \/ RereadOrder(h)
  BY <1>1
     DEF Steps, CountPending, SumUser, SumMethod, Admit, InsertOrder,
         CreatePayment, AttachPayment, AuditCreated, DeleteOrder, QueryOrder,
         CancelPayment, CloseOrder, CloseOrderRefused, AuditClosed, AuditPaid,
         ReadForFulfilment, LockOrder, Redeem, CompleteOrder, AuditSuccess,
         FailOrder, FailOrderMissing, AuditFailed, ResetOrder, AuditRetry, At
<1>3. /\ ~IsPayable(RowOf(h)) /\ RowOf(h).status # "FAILED"
  BY <1>1, HandlerFacts, RowFacts DEF RowOf
<1>4. UNCHANGED <<orders, outside>> /\ (Finish(h) \/ Goto(h, "mark_paid") \/ Goto(h, "reread"))
  BY <1>2, <1>3 DEF FindOrder, MarkPaid, MarkPaidRefused, RereadOrder, Answer
<1>5. handler' \in [Handlers -> {Idle} \cup Redeliveries]
  BY <1>1, <1>4, FinishEffect, GotoEffect
<1>6. QED BY <1>4, <1>5 DEF Quiet, outside, Faultless

LEMMA QuietFailures ==
    ASSUME FulfilledInv, faults \in Nat, NEW h \in Handlers, Failures(h)
    PROVE  Quiet
<1>1. handler[h].pc \in {"idle", "find", "mark_paid", "reread"}
      /\ (~At(h, "idle") => handler[h].op = "notify")
  BY HandlerFacts
<1>2. Interrupt(h)
  BY <1>1
     DEF Failures, CreatePaymentFails, QueryOrderFails, RedeemFails, ThrowInTry, At,
         ConfirmPCs
<1>3. QED
  BY <1>2, FinishEffect DEF Interrupt, Fault, Quiet, Faultless

LEMMA QuietOrders ==
    ASSUME FulfilledInv, faults \in Nat, Next PROVE Quiet
<1>1. ASSUME NEW h \in Handlers, NEW o \in Orders, Requests(h, o) \/ BeginNotify(h, o)
      PROVE  Quiet
  <2>1. BeginNotify(h, o)
    <3>1. orders[o].status # "PENDING" /\ ~IsRetryable(orders[o]) /\ o \in begun
      BY RowFacts DEF FulfilledInv
    <3>2. QED
      BY <1>1, <3>1 DEF Requests, BeginCreate, BeginCancel, BeginExpire, BeginRetry
  <2>2. orders[o].tradeNo \in BOOLEAN
    BY RowFacts DEF Row
  <2>3. [pc |-> "find", op |-> "notify", order |-> o, tradeNo |-> orders[o].tradeNo]
          \in Redeliveries
    BY <2>2 DEF Redeliveries
  <2>4. handler' \in [Handlers -> {Idle} \cup Redeliveries]
    BY <2>1, <2>3 DEF BeginNotify, Begin, FulfilledInv
  <2>5. QED BY <2>1, <2>4 DEF BeginNotify, outside, Quiet, Faultless
<1>2. ASSUME NEW o \in Orders PROVE ~RedemptionLands(o) /\ ~CustomerPays(o)
  BY DEF RedemptionLands, CustomerPays, FulfilledInv
<1>3. CASE Tick
  BY <1>3 DEF Tick, Quiet, FulfilledInv, Faultless
<1>4. QED BY <1>1, <1>2, <1>3, QuietSteps, QuietFailures DEF Next

-----------------------------------------------------------------------------
(***************************************************************************)
(* The refunds.                                                            *)
(***************************************************************************)

RefundPCs == {"idle", "lock", "mark_failed", "audit", "audit_failed"} \cup WorkingPCs

AdminState ==
    [pc : RefundPCs, order : Orders \cup {NULL}, prior : ORDER_STATUS,
     amount : RefundAmounts \cup {0}, plan : 0..Due]

\* A refund that is not idle has an order and an amount.
RefundOK(r) ==
    /\ r \in AdminState
    /\ IF r.pc = "idle" THEN r.order = NULL
       ELSE r.order # NULL /\ r.amount \in RefundAmounts

OthersWait(a) == \A b \in Admins \ {a} : refund'[b] = refund[b]

RefundsOK == refund \in [Admins -> AdminState] /\ \A a \in Admins : RefundOK(refund[a])

LEMMA RefundParts ==
    /\ RefundTypes <=> /\ RefundsOK /\ faults \in Nat
                       /\ deducted \in [Orders -> Int] /\ refunded \in [Orders -> Nat]
    /\ RefundsOK <=> /\ refund \in [Admins -> AdminState]
                     /\ \A a \in Admins : IF RefundAt(a, "idle") THEN Target(a) = NULL
                          ELSE Target(a) # NULL /\ refund[a].amount \in RefundAmounts
<1>1. RefundsOK <=> /\ refund \in [Admins -> AdminState]
                    /\ \A a \in Admins : IF RefundAt(a, "idle") THEN Target(a) = NULL
                         ELSE Target(a) # NULL /\ refund[a].amount \in RefundAmounts
  BY DEF RefundsOK, RefundOK, RefundAt, Target
<1>2. RefundTypes <=> /\ refund \in [Admins -> AdminState]
                      /\ \A a \in Admins : IF RefundAt(a, "idle") THEN Target(a) = NULL
                           ELSE Target(a) # NULL /\ refund[a].amount \in RefundAmounts
                      /\ deducted \in [Orders -> Int] /\ refunded \in [Orders -> Nat]
                      /\ faults \in Nat
  BY Zenon DEF RefundTypes, AdminState, RefundPCs
<1>3. QED BY <1>1, <1>2

LEMMA NoRefundOK == RefundOK(NoRefund) /\ NoRefund.pc = "idle"
  BY DEF NoRefund, RefundOK, AdminState, RefundPCs, ORDER_STATUS

LEMMA AdminFacts ==
    ASSUME RefundsOK, NEW a \in Admins, ~RefundAt(a, "idle")
    PROVE  /\ Target(a) \in Orders /\ refund[a].amount \in RefundAmounts
           /\ refund[a].plan \in Nat
           /\ refund[a].amount \in Nat \ {0}
<1>1. RefundOK(refund[a])
  BY DEF RefundsOK
<1>2. refund[a].order \in Orders \cup {NULL} /\ refund[a].plan \in 0..Due
  BY <1>1 DEF RefundOK, AdminState
<1>3. refund[a].order # NULL /\ refund[a].amount \in RefundAmounts
  BY <1>1 DEF RefundOK, RefundAt
<1>4. \A n \in RefundAmounts : n \in Nat \ {0}
  OBVIOUS
<1>5. refund[a].amount \in Nat \ {0}
  BY <1>3, <1>4, Zenon
<1>6. refund[a].plan \in Nat
  BY <1>2
<1>7. QED BY <1>2, <1>3, <1>5, <1>6 DEF Target

\* A refund that goes on keeps its order and amounts.
Goes(a, to) ==
    /\ refund'[a].pc = to /\ refund'[a].order = Target(a)
    /\ refund'[a].amount = refund[a].amount /\ refund'[a].plan = refund[a].plan

LEMMA RefundGotoEffect ==
    ASSUME RefundsOK, NEW a \in Admins, ~RefundAt(a, "idle"),
           NEW pc \in RefundPCs \ {"idle"}, RefundGoto(a, pc)
    PROVE  Goes(a, pc) /\ OthersWait(a) /\ RefundsOK'
<1> DEFINE r == [refund[a] EXCEPT !.pc = pc]
<1>1. /\ r.pc = pc /\ r.order = refund[a].order /\ r.amount = refund[a].amount
      /\ r.plan = refund[a].plan /\ r \in AdminState
  BY DEF RefundsOK, AdminState
<1>2. RefundOK(r)
  BY <1>1 DEF RefundsOK, RefundOK, RefundAt
<1>3. refund' = [refund EXCEPT ![a] = r]
  BY DEF RefundGoto, RefundsOK
<1> HIDE DEF r
<1>4. refund'[a] = r /\ OthersWait(a) /\ refund' \in [Admins -> AdminState]
  BY <1>1, <1>3 DEF RefundsOK, OthersWait
<1>5. \A b \in Admins : RefundOK(refund'[b])
  BY <1>2, <1>4 DEF RefundsOK, OthersWait
<1>6. QED BY <1>1, <1>4, <1>5 DEF Goes, RefundsOK, Target, RefundOK

LEMMA RefundSetEffect ==
    ASSUME RefundsOK, NEW a \in Admins, NEW r, RefundOK(r),
           refund' = [refund EXCEPT ![a] = r]
    PROVE  refund'[a] = r /\ OthersWait(a) /\ RefundsOK'
<1>1. refund'[a] = r /\ OthersWait(a) /\ refund' \in [Admins -> AdminState]
  BY DEF RefundsOK, OthersWait, RefundOK
<1>2. \A b \in Admins : RefundOK(refund'[b])
  BY <1>1 DEF RefundsOK, OthersWait
<1>3. QED BY <1>1, <1>2 DEF RefundsOK, RefundOK

\* A write of a refund changes the status of one row.
RowTo(o, status) ==
    /\ orders'[o].status = status
    /\ \A x \in Orders \ {o} : orders'[x] = orders[x]
    /\ orders' \in [Orders -> FulfilledRows]

LEMMA WriteEffect ==
    ASSUME FulfilledInv, NEW o \in Orders, NEW status \in {"COMPLETED"} \cup REFUND_STATUSES,
           Write(o, [orders[o] EXCEPT !.status = status])
    PROVE  RowTo(o, status)
<1> DEFINE row == [orders[o] EXCEPT !.status = status]
<1>1. orders[o] \in Row /\ orders[o].tradeNo
  BY RowFacts
<1>2. row \in Row /\ row.status = status /\ row.tradeNo = orders[o].tradeNo
  BY <1>1 DEF Row, ORDER_STATUS
<1>3. row \in FulfilledRows
  BY <1>1, <1>2 DEF FulfilledRows
<1>4. Write(o, row)
  OBVIOUS
<1> HIDE DEF row
<1>5. QED BY <1>2, <1>3, <1>4 DEF Write, RowTo, FulfilledInv

LEMMA OverwriteEffect ==
    ASSUME FulfilledInv, RefundsOK, NEW a \in Admins, ~RefundAt(a, "idle"),
           NEW status \in {"COMPLETED"} \cup REFUND_STATUSES,
           NEW pc \in RefundPCs \ {"idle"}, Overwrite(a, status, pc)
    PROVE  /\ RowTo(Target(a), status)
           /\ Goes(a, pc) /\ OthersWait(a) /\ RefundsOK'
<1>1. Target(a) \in Orders /\ Exists(orders[Target(a)])
  BY AdminFacts, RowFacts
<1>2. /\ Write(Target(a), [orders[Target(a)] EXCEPT !.status = status])
      /\ RefundGoto(a, pc)
  BY <1>1 DEF Overwrite
<1>3. QED BY <1>1, <1>2, WriteEffect, RefundGotoEffect

\* Where a refund has an order to itself.
OnOrderPCs == WorkingPCs \cup {"mark_failed"}

Hops(a, from, to) == RefundAt(a, from) /\ Goes(a, to)

\* It begins, is refused, or is done.
Waits(a) ==
    /\ refund[a].pc \notin OnOrderPCs /\ refund'[a].pc \notin OnOrderPCs
    /\ UNCHANGED <<orders, deducted, refunded, unanswered, failedOnce>>

Locks(a) ==
    /\ Hops(a, "lock", "deduct") /\ IsRefundable(orders[Target(a)])
    /\ RowTo(Target(a), "REFUNDING")
    /\ UNCHANGED <<deducted, refunded, unanswered, failedOnce>>

\* A call to the platform or the gateway, and what it moved.
Calls(a) ==
    LET o == Target(a) IN
    /\ UNCHANGED <<orders, failedOnce>> /\ unanswered \subseteq unanswered'
    /\ \A x \in Orders \ {o} : deducted'[x] = deducted[x] /\ refunded'[x] = refunded[x]
    /\ \/ Hops(a, "deduct", "gateway") /\ deducted'[o] = deducted[o] + refund[a].plan
       \/ Hops(a, "deduct", "mark_failed")
          /\ (deducted'[o] = deducted[o] \/ o \in unanswered')
       \/ Hops(a, "gateway", "finish") /\ deducted'[o] = deducted[o]
       \/ Hops(a, "gateway", "rollback") /\ deducted'[o] = deducted[o]
       \/ Hops(a, "rollback", "restore") /\ deducted'[o] = deducted[o] - refund[a].plan
       \/ Hops(a, "rollback", "rollback_failed")
          /\ (deducted'[o] = deducted[o] \/ o \in unanswered')
    /\ \/ refunded'[o] = refunded[o] \/ o \in unanswered'
       \/ Hops(a, "gateway", "finish") /\ refunded'[o] = refunded[o] + refund[a].amount

Ends(a) ==
    LET o == Target(a) IN
    /\ \E to \in {"audit", "audit_failed"} : Goes(a, to)
    /\ \/ RefundAt(a, "restore") /\ RowTo(o, RestoreStatus(a))
       \/ RefundAt(a, "finish") /\ RowTo(o, FinalRefundStatus(a))
       \/ /\ refund[a].pc \in {"rollback_failed", "mark_failed"}
          /\ RowTo(o, "REFUND_FAILED") /\ o \in failedOnce'
    /\ failedOnce \subseteq failedOnce'
    /\ UNCHANGED <<deducted, refunded, unanswered>>

AdminStep(a) ==
    OthersWait(a) /\ (~Faultless' \/ Waits(a) \/ Locks(a) \/ Calls(a) \/ Ends(a))

\* A step of a refund: what it comes to, and that the types are kept.
Moved(a) ==
    /\ AdminStep(a) /\ (Faultless' => Faultless)
    /\ FulfilledInv' /\ RefundTypes'

LEMMA KeepsOrders ==
    ASSUME FulfilledInv, UNCHANGED unchangedOrders,
           \/ UNCHANGED orders
           \/ orders' \in [Orders -> FulfilledRows]
    PROVE  FulfilledInv'
  BY DEF FulfilledInv, unchangedOrders

LEMMA KeepsTypes ==
    ASSUME RefundTypes, RefundsOK', faults' \in Nat,
           deducted' \in [Orders -> Int], refunded' \in [Orders -> Nat]
    PROVE  RefundTypes'
<1>1. /\ refund' \in [Admins -> AdminState]
      /\ \A a \in Admins : RefundOK(refund'[a])
  BY DEF RefundsOK, RefundOK
<1>2. \A a \in Admins :
        IF refund'[a].pc = "idle" THEN refund'[a].order = NULL
        ELSE refund'[a].order # NULL /\ refund'[a].amount \in RefundAmounts
  BY <1>1 DEF RefundOK
<1>3. refund' \in [Admins ->
         [pc : {"idle", "lock", "mark_failed", "audit", "audit_failed"} \cup WorkingPCs,
          order : Orders \cup {NULL}, prior : ORDER_STATUS,
          amount : RefundAmounts \cup {0}, plan : 0..Due]]
  BY <1>1, Zenon DEF AdminState, RefundPCs
<1>4. QED BY <1>2, <1>3 DEF RefundTypes, RefundAt, Target

LEMMA WaitMoves ==
    ASSUME FulfilledInv, RefundTypes, NEW a \in Admins,
           \/ \E o \in Orders : BeginRefund(a, o)
           \/ LockRefund(a) \/ AuditRefund(a)
    PROVE  Moved(a)
<1>0. /\ RefundsOK /\ faults \in Nat /\ deducted \in [Orders -> Int]
      /\ refunded \in [Orders -> Nat]
  BY RefundParts
<1>1. UNCHANGED <<unchangedOrders, faults, deducted, refunded, unanswered, failedOnce>>
  BY DEF BeginRefund, LockRefund, AuditRefund
<1>2. CASE \E o \in Orders : BeginRefund(a, o)
  <2>1. PICK o \in Orders : BeginRefund(a, o)
    BY <1>2
  <2>a. PICK amount \in RefundAmounts : \E plan \in 0..amount :
          refund' = [refund EXCEPT ![a] =
             [pc |-> "lock", order |-> o, prior |-> orders[o].status,
              amount |-> amount, plan |-> plan]]
    BY <2>1 DEF BeginRefund
  <2>2. PICK plan \in 0..amount :
          refund' = [refund EXCEPT ![a] =
             [pc |-> "lock", order |-> o, prior |-> orders[o].status,
              amount |-> amount, plan |-> plan]]
    BY <2>a
  <2> DEFINE r == [pc |-> "lock", order |-> o, prior |-> orders[o].status,
                   amount |-> amount, plan |-> plan]
  <2>3. RefundOK(r) /\ r.pc = "lock"
    BY RowFacts DEF RefundOK, AdminState, RefundPCs, ORDER_STATUS
  <2> HIDE DEF r
  <2>4. refund'[a] = r /\ OthersWait(a) /\ RefundsOK'
    BY <1>0, <2>2, <2>3, RefundSetEffect DEF r
  <2>5. UNCHANGED orders /\ RefundAt(a, "idle")
    BY <2>1 DEF BeginRefund
  <2>6. Waits(a)
    BY <1>1, <2>3, <2>4, <2>5 DEF Waits, OnOrderPCs, WorkingPCs, RefundAt
  <2>7. QED
    BY <1>0, <1>1, <2>4, <2>5, <2>6, KeepsOrders, KeepsTypes
       DEF Moved, AdminStep, Faultless
<1>3. CASE AuditRefund(a) \/ (LockRefund(a) /\ ~IsRefundable(orders[Target(a)]))
  <2>1. /\ refund' = [refund EXCEPT ![a] = NoRefund] /\ UNCHANGED orders
        /\ refund[a].pc \in {"audit", "audit_failed", "lock"}
    BY <1>3 DEF AuditRefund, LockRefund, RefundAt
  <2>2. refund'[a] = NoRefund /\ OthersWait(a) /\ RefundsOK'
    BY <1>0, <2>1, NoRefundOK, RefundSetEffect
  <2>3. Waits(a)
    BY <1>1, <2>1, <2>2, NoRefundOK DEF Waits, OnOrderPCs, WorkingPCs
  <2>4. QED
    BY <1>0, <1>1, <2>1, <2>2, <2>3, KeepsOrders, KeepsTypes
       DEF Moved, AdminStep, Faultless
<1>4. CASE LockRefund(a) /\ IsRefundable(orders[Target(a)])
  <2>1. RefundAt(a, "lock") /\ ~RefundAt(a, "idle") /\ Overwrite(a, "REFUNDING", "deduct")
    BY <1>4 DEF LockRefund, RefundAt
  <2>2. /\ RowTo(Target(a), "REFUNDING") /\ Goes(a, "deduct") /\ OthersWait(a)
        /\ RefundsOK'
    BY <1>0, <2>1, OverwriteEffect DEF RefundPCs, WorkingPCs, REFUND_STATUSES
  <2>3. Locks(a)
    BY <1>1, <1>4, <2>1, <2>2 DEF Locks, Hops
  <2>4. orders' \in [Orders -> FulfilledRows]
    BY <2>2 DEF RowTo
  <2>5. QED
    BY <1>0, <1>1, <2>2, <2>3, <2>4, KeepsOrders, KeepsTypes
       DEF Moved, AdminStep, Faultless
<1>5. QED BY <1>2, <1>3, <1>4

LEMMA EndMoves ==
    ASSUME FulfilledInv, RefundTypes, NEW a \in Admins,
           RestoreOrder(a) \/ FinishRefund(a) \/ MarkRefundFailed(a)
    PROVE  Moved(a)
<1>0. /\ RefundsOK /\ faults \in Nat /\ deducted \in [Orders -> Int]
      /\ refunded \in [Orders -> Nat]
  BY RefundParts
<1>1. /\ UNCHANGED <<unchangedOrders, faults, deducted, refunded, unanswered>>
      /\ ~RefundAt(a, "idle")
  BY DEF RestoreOrder, FinishRefund, MarkRefundFailed, RefundAt
<1>2. ASSUME NEW status \in {"COMPLETED"} \cup REFUND_STATUSES,
             NEW to \in {"audit", "audit_failed"}, Overwrite(a, status, to)
      PROVE  RowTo(Target(a), status) /\ Goes(a, to) /\ OthersWait(a) /\ RefundsOK'
  BY <1>0, <1>1, <1>2, OverwriteEffect DEF RefundPCs
<1>3. /\ RestoreStatus(a) \in {"COMPLETED"} \cup REFUND_STATUSES
      /\ FinalRefundStatus(a) \in {"COMPLETED"} \cup REFUND_STATUSES
      /\ "REFUND_FAILED" \in {"COMPLETED"} \cup REFUND_STATUSES
  BY DEF RestoreStatus, FinalRefundStatus, REFUND_STATUSES
<1>4. /\ Ends(a) /\ OthersWait(a) /\ RefundsOK'
      /\ orders' \in [Orders -> FulfilledRows]
  <2>1. CASE RestoreOrder(a)
    BY <1>1, <1>2, <1>3, <2>1 DEF RestoreOrder, Ends, RowTo
  <2>2. CASE FinishRefund(a)
    BY <1>1, <1>2, <1>3, <2>2 DEF FinishRefund, Ends, RowTo
  <2>3. CASE MarkRefundFailed(a)
    <3>1. /\ failedOnce' = failedOnce \cup {Target(a)}
          /\ refund[a].pc \in {"rollback_failed", "mark_failed"}
          /\ \E to \in {"audit", "audit_failed"} : Overwrite(a, "REFUND_FAILED", to)
      BY <2>3 DEF MarkRefundFailed, RefundAt
    <3>2. QED BY <1>1, <1>2, <1>3, <3>1 DEF Ends, RowTo
  <2>4. QED BY <2>1, <2>2, <2>3
<1>5. QED
  BY <1>0, <1>1, <1>4, KeepsOrders, KeepsTypes DEF Moved, AdminStep, Faultless

LEMMA CallMoves ==
    ASSUME FulfilledInv, RefundTypes, NEW a \in Admins,
           \/ Deduct(a) \/ CallGateway(a) \/ Rollback(a)
           \/ DeductFails(a) \/ CallGatewayFails(a) \/ RollbackFails(a)
    PROVE  Moved(a)
<1> DEFINE o == Target(a)
<1>0. /\ RefundsOK /\ faults \in Nat /\ deducted \in [Orders -> Int]
      /\ refunded \in [Orders -> Nat]
  BY RefundParts
<1>1. /\ UNCHANGED <<orders, unchangedOrders, faults, failedOnce>>
      /\ ~RefundAt(a, "idle")
  BY DEF Deduct, CallGateway, Rollback, DeductFails, CallGatewayFails, RollbackFails,
         RefundAt
<1>2. /\ o \in Orders /\ refund[a].plan \in Nat /\ refund[a].amount \in Nat
      /\ orders[o].tradeNo
  BY <1>0, <1>1, AdminFacts, RowFacts
<1>3. ASSUME NEW to \in {"gateway", "mark_failed", "finish", "rollback", "restore",
                         "rollback_failed"},
             RefundGoto(a, to)
      PROVE  Goes(a, to) /\ OthersWait(a) /\ RefundsOK'
  BY <1>0, <1>1, <1>3, RefundGotoEffect DEF RefundPCs, WorkingPCs
<1>4. /\ Calls(a) /\ OthersWait(a) /\ RefundsOK'
      /\ deducted' \in [Orders -> Int] /\ refunded' \in [Orders -> Nat]
  <2>1. CASE Deduct(a)
    <3>1. /\ RefundGoto(a, "gateway") /\ UNCHANGED <<refunded, unanswered>>
          /\ deducted' = [deducted EXCEPT ![o] = @ + refund[a].plan]
          /\ RefundAt(a, "deduct")
      BY <2>1 DEF Deduct
    <3>2. QED BY <1>0, <1>1, <1>2, <1>3, <3>1 DEF Calls, Hops
  <2>2. CASE CallGateway(a)
    <3>1. /\ RefundGoto(a, "finish") /\ UNCHANGED <<deducted, unanswered>>
          /\ refunded' = [refunded EXCEPT ![o] = @ + refund[a].amount]
          /\ RefundAt(a, "gateway")
      BY <1>2, <2>2 DEF CallGateway
    <3>2. QED BY <1>0, <1>1, <1>2, <1>3, <3>1 DEF Calls, Hops
  <2>3. CASE Rollback(a)
    <3>1. /\ RefundGoto(a, "restore") /\ UNCHANGED <<refunded, unanswered>>
          /\ deducted' = [deducted EXCEPT ![o] = @ - refund[a].plan]
          /\ RefundAt(a, "rollback")
      BY <2>3 DEF Rollback
    <3>2. QED BY <1>0, <1>1, <1>2, <1>3, <3>1 DEF Calls, Hops
  <2>4. CASE DeductFails(a)
    <3>1. /\ RefundGoto(a, "mark_failed") /\ UNCHANGED refunded
          /\ RefundAt(a, "deduct")
          /\ \/ UNCHANGED <<deducted, unanswered>>
             \/ /\ deducted' = [deducted EXCEPT ![o] = @ + refund[a].plan]
                /\ unanswered' = unanswered \cup {o}
      BY <2>4 DEF DeductFails
    <3>2. QED BY <1>0, <1>1, <1>2, <1>3, <3>1 DEF Calls, Hops
  <2>5. CASE CallGatewayFails(a)
    <3>1. /\ RefundGoto(a, "rollback") /\ UNCHANGED deducted
          /\ RefundAt(a, "gateway")
          /\ \/ UNCHANGED <<refunded, unanswered>>
             \/ /\ refunded' = [refunded EXCEPT ![o] = @ + refund[a].amount]
                /\ unanswered' = unanswered \cup {o}
      BY <2>5 DEF CallGatewayFails
    <3>2. QED BY <1>0, <1>1, <1>2, <1>3, <3>1 DEF Calls, Hops
  <2>6. CASE RollbackFails(a)
    <3>1. /\ RefundGoto(a, "rollback_failed") /\ UNCHANGED refunded
          /\ RefundAt(a, "rollback")
          /\ \/ UNCHANGED <<deducted, unanswered>>
             \/ /\ deducted' = [deducted EXCEPT ![o] = @ - refund[a].plan]
                /\ unanswered' = unanswered \cup {o}
      BY <2>6 DEF RollbackFails
    <3>2. QED BY <1>0, <1>1, <1>2, <1>3, <3>1 DEF Calls, Hops
  <2>7. QED BY <2>1, <2>2, <2>3, <2>4, <2>5, <2>6
<1>5. QED
  BY <1>0, <1>1, <1>4, KeepsOrders, KeepsTypes DEF Moved, AdminStep, Faultless

LEMMA FaultMoves ==
    ASSUME FulfilledInv, RefundTypes, NEW a \in Admins,
           ThrowInRefund(a) \/ InterruptRefund(a)
    PROVE  Moved(a)
<1>0. /\ RefundsOK /\ faults \in Nat /\ deducted \in [Orders -> Int]
      /\ refunded \in [Orders -> Nat]
  BY RefundParts
<1>1. /\ UNCHANGED <<orders, unchangedOrders, deducted, refunded>>
      /\ ~RefundAt(a, "idle") /\ faults' = faults + 1
      /\ \/ RefundGoto(a, "mark_failed")
         \/ refund' = [refund EXCEPT ![a] = NoRefund]
  BY DEF ThrowInRefund, InterruptRefund, Fault, RefundAt, WorkingPCs
<1>2. OthersWait(a) /\ RefundsOK'
  BY <1>0, <1>1, NoRefundOK, RefundGotoEffect, RefundSetEffect DEF RefundPCs
<1>3. faults' \in Nat /\ ~Faultless'
  BY <1>0, <1>1 DEF Faultless
<1>4. QED
  BY <1>0, <1>1, <1>2, <1>3, KeepsOrders, KeepsTypes DEF Moved, AdminStep

\* The user asks for a refund, or a request of LibOrders goes on.
RequestStep ==
    /\ UNCHANGED refundVars
    /\ \A o \in Orders :
         \/ orders'[o] = orders[o]
         \/ orders[o].status = "COMPLETED" /\ orders'[o].status = "REFUND_REQUESTED"

RefundStep ==
    /\ FulfilledInv' /\ RefundTypes' /\ (Faultless' => Faultless)
    /\ RequestStep \/ \E a \in Admins : AdminStep(a)

LEMMA StepSummary == FulfilledInv /\ RefundTypes /\ [RefundNext]_allVars => RefundStep
<1> SUFFICES ASSUME FulfilledInv, RefundTypes, [RefundNext]_allVars PROVE RefundStep
  OBVIOUS
<1>0. /\ RefundsOK /\ faults \in Nat /\ deducted \in [Orders -> Int]
      /\ refunded \in [Orders -> Nat]
  BY RefundParts
<1>1. ASSUME NEW a \in Admins, Moved(a) PROVE RefundStep
  BY <1>1 DEF Moved, RefundStep
<1>2. ASSUME UNCHANGED refundVars, faults' \in Nat PROVE RefundTypes'
  <2>1. RefundsOK'
    BY <1>0, <1>2 DEF refundVars, RefundsOK, RefundOK
  <2>2. QED BY <1>0, <1>2, <2>1, KeepsTypes DEF refundVars
<1>3. CASE (Next /\ UNCHANGED refundVars) \/ UNCHANGED allVars
  <2>1. Quiet /\ UNCHANGED refundVars
    BY <1>0, <1>3, QuietOrders DEF allVars, vars, Quiet, FulfilledInv, Faultless
  <2>2. FulfilledInv'
    BY <2>1 DEF Quiet, FulfilledInv
  <2>3. QED BY <1>2, <2>1, <2>2 DEF Quiet, RefundStep, RequestStep
<1>4. ASSUME NEW o \in Orders, RequestRefund(o) PROVE RefundStep
  <2>1. /\ orders[o].status = "COMPLETED" /\ UNCHANGED <<unchangedOrders, faults, refundVars>>
        /\ Write(o, [orders[o] EXCEPT !.status = "REFUND_REQUESTED"])
    BY <1>4 DEF RequestRefund
  <2>2. RowTo(o, "REFUND_REQUESTED")
    BY <2>1, WriteEffect DEF REFUND_STATUSES
  <2>3. FulfilledInv'
    BY <2>1, <2>2, KeepsOrders DEF RowTo
  <2>4. QED
    BY <1>0, <1>2, <2>1, <2>2, <2>3 DEF RefundStep, RequestStep, RowTo, Faultless
<1>5. QED
  BY <1>1, <1>3, <1>4, WaitMoves, EndMoves, CallMoves, FaultMoves
     DEF RefundNext, RefundSteps, RefundFailures

-----------------------------------------------------------------------------
(***************************************************************************)
(* One refund at a time.                                                   *)
(***************************************************************************)

OnOrder(a) == refund[a].pc \in OnOrderPCs

LEMMA OnOrderFacts ==
    ASSUME FulfilledInv, RefundTypes, SingleRefund, Faultless,
           NEW a \in Admins, OnOrder(a)
    PROVE  /\ Target(a) \in Orders /\ orders[Target(a)].status = "REFUNDING"
           /\ ~IsRefundable(orders[Target(a)])
           /\ \A b \in Admins : OnOrder(b) /\ Target(b) = Target(a) => b = a
<1>1. Target(a) \in Orders
  BY RefundParts, AdminFacts DEF OnOrder, OnOrderPCs, WorkingPCs, RefundAt
<1>2. /\ orders[Target(a)].status \in {"REFUNDING", "ABSENT"}
      /\ \A b \in Admins : OnOrder(b) /\ Target(b) = Target(a) => b = a
  BY DEF SingleRefund, OnOrder, OnOrderPCs
<1>3. orders[Target(a)].status # "ABSENT"
  BY <1>1, RowFacts DEF REFUND_STATUSES
<1>4. QED BY <1>1, <1>2, <1>3 DEF IsRefundable

LEMMA SingleStep ==
    ASSUME FulfilledInv, RefundTypes, SingleRefund, RefundStep PROVE SingleRefund'
<1> SUFFICES ASSUME Faultless', NEW b \in Admins, refund'[b].pc \in OnOrderPCs
             PROVE  /\ orders'[refund'[b].order].status \in {"REFUNDING", "ABSENT"}
                    /\ \A c \in Admins : refund'[c].pc \in OnOrderPCs /\ b # c
                         => refund'[b].order # refund'[c].order
  BY DEF SingleRefund, OnOrderPCs, Target
<1>1. Faultless
  BY DEF RefundStep
<1>2. CASE RequestStep
  <2>1. OnOrder(b) /\ refund' = refund
    BY <1>2 DEF RequestStep, refundVars, OnOrder
  <2>2. orders'[Target(b)] = orders[Target(b)]
    BY <1>1, <1>2, <2>1, OnOrderFacts DEF RequestStep
  <2>3. QED BY <1>1, <2>1, <2>2, OnOrderFacts DEF OnOrder, Target
<1>3. ASSUME NEW a \in Admins, AdminStep(a)
      PROVE  /\ orders'[refund'[b].order].status \in {"REFUNDING", "ABSENT"}
             /\ \A c \in Admins : refund'[c].pc \in OnOrderPCs /\ b # c
                  => refund'[b].order # refund'[c].order
  <2>1. \A x \in Admins \ {a} : refund'[x] = refund[x]
    BY <1>3 DEF AdminStep, OthersWait
  <2>2. \A x \in Admins : OnOrder(x) =>
          /\ Target(x) \in Orders /\ orders[Target(x)].status = "REFUNDING"
          /\ ~IsRefundable(orders[Target(x)])
          /\ \A y \in Admins : OnOrder(y) /\ Target(y) = Target(x) => y = x
    BY <1>1, OnOrderFacts
  <2>3. CASE Waits(a)
    BY <2>1, <2>2, <2>3 DEF Waits, OnOrder, Target
  <2>4. CASE Locks(a)
    BY <2>1, <2>2, <2>4 DEF Locks, Hops, Goes, RowTo, OnOrder, Target
  <2>5. CASE Calls(a)
    <3>1. OnOrder(a) /\ refund'[a].order = Target(a) /\ UNCHANGED orders
      BY <2>5 DEF Calls, Hops, Goes, RefundAt, OnOrder, OnOrderPCs, WorkingPCs
    <3>2. QED BY <2>1, <2>2, <3>1 DEF OnOrder, Target
  <2>6. CASE Ends(a)
    <3>1. OnOrder(a) /\ refund'[a].pc \notin OnOrderPCs
      BY <2>6 DEF Ends, Goes, RefundAt, OnOrder, OnOrderPCs, WorkingPCs
    <3>2. \A x \in Orders \ {Target(a)} : orders'[x] = orders[x]
      BY <2>6 DEF Ends, RowTo
    <3>3. QED BY <2>1, <2>2, <3>1, <3>2 DEF OnOrder, Target
  <2>7. QED BY <1>3, <2>3, <2>4, <2>5, <2>6 DEF AdminStep
<1>4. QED BY <1>2, <1>3 DEF RefundStep

-----------------------------------------------------------------------------
(***************************************************************************)
(* What the gateway paid back.                                             *)
(***************************************************************************)

PaidBackFor(o) ==
    /\ refunded[o] \in RefundAmounts
    /\ \/ orders[o].status \in {"PARTIALLY_REFUNDED", "REFUNDED", "ABSENT"}
       \/ \E a \in Admins : RefundAt(a, "finish") /\ Target(a) = o

\* Somebody else's order is left as it is.
LEMMA OthersPaidBack ==
    ASSUME FulfilledInv, RefundTypes, SingleRefund, Faultless,
           NEW a \in Admins, AdminStep(a), Faultless',
           NEW o \in Orders, Target(a) # o \/ ~OnOrder(a), PaidBackFor(o)
    PROVE  refunded'[o] = refunded[o] /\ PaidBackFor(o)'
<1>1. \A x \in Admins \ {a} : refund'[x] = refund[x]
  BY DEF AdminStep, OthersWait
<1>2. refunded'[o] = refunded[o]
  BY DEF AdminStep, Waits, Locks, Calls, Ends, Hops, RefundAt, OnOrder, OnOrderPCs, WorkingPCs
<1>3. ASSUME NEW b \in Admins, RefundAt(b, "finish"), Target(b) = o
      PROVE  refund'[b] = refund[b] /\ ~IsRefundable(orders[o])
  <2>1. b # a
    BY <1>3 DEF RefundAt, OnOrder, OnOrderPCs, WorkingPCs
  <2>2. OnOrder(b)
    BY <1>3 DEF RefundAt, OnOrder, OnOrderPCs, WorkingPCs
  <2>3. QED BY <1>1, <1>3, <2>1, <2>2, OnOrderFacts
<1>4. orders[o].status \in {"PARTIALLY_REFUNDED", "REFUNDED", "ABSENT"} =>
        ~IsRefundable(orders[o])
  BY DEF IsRefundable
<1>5. ~IsRefundable(orders[o])
  BY <1>3, <1>4 DEF PaidBackFor
<1>6. orders'[o] = orders[o]
  BY <1>5
     DEF AdminStep, Waits, Locks, Calls, Ends, Hops, RowTo, RefundAt, OnOrder,
         OnOrderPCs, WorkingPCs
<1>7. QED
  BY <1>2, <1>3, <1>6 DEF PaidBackFor, RefundAt, Target

LEMMA PaidBackStep ==
    ASSUME FulfilledInv, RefundTypes, SingleRefund, PaidBackOnce, RefundStep
    PROVE  PaidBackOnce'
<1> SUFFICES ASSUME Faultless', NEW o \in Orders, o \notin unanswered', refunded'[o] > 0
             PROVE  PaidBackFor(o)'
  BY DEF PaidBackOnce, PaidBackFor
<1>1. Faultless
  BY DEF RefundStep
<1>2. refunded[o] \in Nat /\ refunded'[o] \in Nat
  BY RefundParts DEF RefundStep, RefundTypes
<1>3. o \notin unanswered /\ refunded[o] > 0 => PaidBackFor(o)
  BY <1>1 DEF PaidBackOnce, PaidBackFor
<1>4. CASE RequestStep
  <2>1. UNCHANGED <<refund, refunded, unanswered>>
    BY <1>4 DEF RequestStep, refundVars
  <2>2. PaidBackFor(o)
    BY <1>3, <2>1
  <2>3. QED BY <1>4, <2>1, <2>2 DEF RequestStep, PaidBackFor, RefundAt, Target
<1>5. ASSUME NEW a \in Admins, AdminStep(a) PROVE PaidBackFor(o)'
  <2>1. o \notin unanswered
    BY <1>5 DEF AdminStep, Waits, Locks, Calls, Ends
  <2>2. CASE Target(a) # o \/ ~OnOrder(a)
    <3>1. refunded'[o] = refunded[o]
      BY <1>5, <2>2
         DEF AdminStep, Waits, Locks, Calls, Ends, Hops, RefundAt, OnOrder,
             OnOrderPCs, WorkingPCs
    <3>2. QED BY <1>1, <1>3, <1>5, <2>1, <2>2, <3>1, OthersPaidBack
  <2>3. CASE Target(a) = o /\ OnOrder(a)
    <3>1. PaidBackFor(o) => RefundAt(a, "finish")
      <4>1. /\ orders[o].status = "REFUNDING"
            /\ \A b \in Admins : OnOrder(b) /\ Target(b) = o => b = a
        BY <1>1, <2>3, OnOrderFacts
      <4>2. QED
        BY <4>1 DEF PaidBackFor, RefundAt, OnOrder, OnOrderPCs, WorkingPCs
    <3>2. CASE Calls(a)
      <4>1. ~RefundAt(a, "finish")
        BY <3>2 DEF Calls, Hops, RefundAt
      <4>2. refunded[o] = 0
        BY <1>2, <1>3, <2>1, <3>1, <4>1
      <4>3. Goes(a, "finish") /\ refunded'[o] = refund[a].amount
        BY <1>2, <2>3, <3>2, <4>2, RefundParts, AdminFacts
           DEF Calls, Hops, RefundAt, OnOrder, OnOrderPCs, WorkingPCs
      <4>4. refund[a].amount \in RefundAmounts
        BY <2>3, RefundParts, AdminFacts DEF RefundAt, OnOrder, OnOrderPCs, WorkingPCs
      <4>5. QED BY <2>3, <4>3, <4>4 DEF PaidBackFor, Goes, RefundAt, Target
    <3>3. CASE Ends(a)
      <4>1. PaidBackFor(o) /\ refunded'[o] = refunded[o]
        BY <1>3, <2>1, <3>3 DEF Ends
      <4>2. orders'[o].status = FinalRefundStatus(a)
        BY <2>3, <3>1, <3>3, <4>1 DEF Ends, RowTo, RefundAt
      <4>3. QED BY <4>1, <4>2 DEF PaidBackFor, FinalRefundStatus
    <3>4. ~Waits(a) /\ ~Locks(a)
      BY <2>3 DEF Waits, Locks, Hops, RefundAt, OnOrder, OnOrderPCs, WorkingPCs
    <3>5. QED BY <1>5, <3>2, <3>3, <3>4 DEF AdminStep
  <2>4. QED BY <2>2, <2>3
<1>6. QED BY <1>4, <1>5 DEF RefundStep

-----------------------------------------------------------------------------
(***************************************************************************)
(* What was taken from the user.                                           *)
(***************************************************************************)

\* Nothing is known of the deductions of an order once an answer about it was
\* lost or a refund of it was given up.
Accounted == Orders \ (unanswered \cup failedOnce)

FinalStatuses == {"REFUNDED", "PARTIALLY_REFUNDED", "ABSENT"}

BackedFor(o) ==
    deducted[o] # 0 =>
      \/ orders[o].status \in FinalStatuses
      \/ \E a \in Admins : refund[a].pc \in WorkingPCs /\ Target(a) = o

\* An order that can be refunded has nothing taken for it.
LEMMA RefundableIsWhole ==
    ASSUME FulfilledInv, RefundTypes, SingleRefund, DeductionIsBacked, Faultless,
           NEW o \in Accounted, IsRefundable(orders[o])
    PROVE  deducted[o] = 0
<1>1. o \in Orders /\ BackedFor(o)
  BY DEF Accounted, DeductionIsBacked, BackedFor, FinalStatuses
<1>2. orders[o].status \notin FinalStatuses
  BY DEF IsRefundable, FinalStatuses
<1>3. ASSUME NEW a \in Admins, refund[a].pc \in WorkingPCs, Target(a) = o PROVE FALSE
  BY <1>3, OnOrderFacts DEF OnOrder, OnOrderPCs
<1>4. QED BY <1>1, <1>2, <1>3 DEF BackedFor

\* What the refund of an order took, after a step.
LEMMA TakenStep ==
    ASSUME FulfilledInv, RefundTypes, SingleRefund, TakenInv, DeductionIsBacked,
           RefundStep
    PROVE  TakenInv'
<1> SUFFICES ASSUME Faultless', NEW b \in Admins, refund'[b].order \in Accounted'
             PROVE  /\ refund'[b].pc \in {"gateway", "rollback", "rollback_failed", "finish"} =>
                         deducted'[refund'[b].order] = refund'[b].plan
                    /\ refund'[b].pc \in {"deduct", "restore", "mark_failed"} =>
                         deducted'[refund'[b].order] = 0
  BY DEF TakenInv, Accounted, Target
<1>1. Faultless
  BY DEF RefundStep
<1>2. \A x \in Admins : Target(x) \in Accounted =>
        /\ refund[x].pc \in {"gateway", "rollback", "rollback_failed", "finish"} =>
             deducted[Target(x)] = refund[x].plan
        /\ refund[x].pc \in {"deduct", "restore", "mark_failed"} =>
             deducted[Target(x)] = 0
  BY <1>1 DEF TakenInv, Accounted
<1>3. CASE RequestStep
  BY <1>2, <1>3 DEF RequestStep, refundVars, Accounted, Target
<1>4. ASSUME NEW a \in Admins, AdminStep(a)
      PROVE  /\ refund'[b].pc \in {"gateway", "rollback", "rollback_failed", "finish"} =>
                  deducted'[refund'[b].order] = refund'[b].plan
             /\ refund'[b].pc \in {"deduct", "restore", "mark_failed"} =>
                  deducted'[refund'[b].order] = 0
  <2>1. Accounted' \subseteq Accounted
    BY <1>4 DEF AdminStep, Waits, Locks, Calls, Ends, Accounted
  <2>2. CASE b # a
    <3>1. refund'[b] = refund[b] /\ Target(b) \in Accounted
      BY <1>4, <2>1, <2>2 DEF AdminStep, OthersWait, Target
    <3>2. OnOrder(b) => deducted'[Target(b)] = deducted[Target(b)]
      <4>1. CASE Calls(a)
        <5>1. OnOrder(a)
          BY <4>1 DEF Calls, Hops, RefundAt, OnOrder, OnOrderPCs, WorkingPCs
        <5>2. OnOrder(b) => Target(a) # Target(b)
          BY <1>1, <2>2, <5>1, OnOrderFacts
        <5>3. QED BY <3>1, <4>1, <5>2 DEF Calls, Accounted
      <4>2. CASE ~Calls(a)
        BY <1>4, <4>2 DEF AdminStep, Waits, Locks, Ends
      <4>3. QED BY <4>1, <4>2
    <3>3. QED
      BY <1>2, <3>1, <3>2 DEF OnOrder, OnOrderPCs, WorkingPCs, Target
  <2>3. CASE b = a
    <3>1. CASE Waits(a) \/ Ends(a)
      BY <2>3, <3>1 DEF Waits, Ends, Goes, OnOrderPCs, WorkingPCs
    <3>2. CASE Locks(a)
      <4>1. /\ refund'[a].pc = "deduct" /\ refund'[a].order = Target(a)
            /\ IsRefundable(orders[Target(a)]) /\ UNCHANGED deducted
        BY <3>2 DEF Locks, Hops, Goes
      <4>2. Target(a) \in Accounted
        BY <2>1, <2>3, <4>1
      <4>3. QED BY <1>1, <2>3, <4>1, <4>2, RefundableIsWhole
    <3>3. CASE Calls(a)
      <4>1. /\ refund'[a].order = Target(a) /\ refund'[a].plan = refund[a].plan
            /\ ~RefundAt(a, "idle")
        BY <3>3 DEF Calls, Hops, Goes, RefundAt
      <4>2. Target(a) \in Accounted /\ Target(a) \notin unanswered'
        BY <2>1, <2>3, <4>1 DEF Accounted
      <4>3. refund[a].plan \in Nat /\ deducted[Target(a)] \in Int
        BY <4>1, RefundParts, AdminFacts DEF RefundTypes
      <4>4. QED
        BY <1>2, <2>3, <3>3, <4>1, <4>2, <4>3 DEF Calls, Hops, Goes, RefundAt
    <3>4. QED BY <1>4, <3>1, <3>2, <3>3 DEF AdminStep
  <2>4. QED BY <2>2, <2>3
<1>5. QED BY <1>3, <1>4 DEF RefundStep

LEMMA BackedStep ==
    ASSUME FulfilledInv, RefundTypes, SingleRefund, TakenInv, DeductionIsBacked,
           RefundStep
    PROVE  DeductionIsBacked'
<1> SUFFICES ASSUME Faultless', NEW o \in Accounted' PROVE BackedFor(o)'
  BY DEF DeductionIsBacked, BackedFor, FinalStatuses, Accounted
<1>1. Faultless /\ o \in Orders
  BY DEF RefundStep, Accounted
<1>2. o \in Accounted => BackedFor(o)
  BY <1>1 DEF DeductionIsBacked, BackedFor, FinalStatuses, Accounted
<1>3. CASE RequestStep
  <2>1. UNCHANGED refundVars /\ BackedFor(o)
    BY <1>2, <1>3 DEF RequestStep, refundVars, Accounted
  <2>2. QED
    BY <1>1, <1>3, <2>1 DEF RequestStep, refundVars, BackedFor, FinalStatuses, Target
<1>4. ASSUME NEW a \in Admins, AdminStep(a) PROVE BackedFor(o)'
  <2>1. o \in Accounted
    BY <1>4 DEF AdminStep, Waits, Locks, Calls, Ends, Accounted
  <2>2. BackedFor(o)
    BY <1>2, <2>1
  <2>3. CASE Waits(a)
    <3>1. UNCHANGED <<orders, deducted>> /\ refund[a].pc \notin WorkingPCs
          /\ OthersWait(a)
      BY <1>4, <2>3 DEF Waits, OnOrderPCs, AdminStep
    <3>2. QED BY <2>2, <3>1 DEF BackedFor, OthersWait, Target
  <2>4. CASE Target(a) # o /\ ~Waits(a)
    <3>1. orders'[o] = orders[o] /\ deducted'[o] = deducted[o] /\ OthersWait(a)
      BY <1>1, <1>4, <2>4 DEF AdminStep, Locks, Calls, Ends, RowTo
    <3>2. QED BY <2>2, <2>4, <3>1 DEF BackedFor, OthersWait, Target
  <2>5. CASE Target(a) = o /\ Locks(a)
    BY <2>5 DEF Locks, Hops, Goes, BackedFor, WorkingPCs, Target
  <2>6. CASE Target(a) = o /\ Calls(a)
    <3>1. CASE refund'[a].pc \in WorkingPCs
      BY <2>6, <3>1 DEF Calls, Hops, Goes, BackedFor, Target
    <3>2. CASE refund'[a].pc \notin WorkingPCs
      <4>1. RefundAt(a, "deduct") /\ (deducted'[o] = deducted[o] \/ o \in unanswered')
        BY <2>6, <3>2 DEF Calls, Hops, Goes, WorkingPCs
      <4>2. deducted[o] = 0 /\ deducted'[o] = deducted[o]
        BY <1>1, <2>1, <2>6, <4>1 DEF TakenInv, Accounted, RefundAt
      <4>3. QED BY <4>2 DEF BackedFor
    <3>3. QED BY <3>1, <3>2
  <2>7. CASE Target(a) = o /\ Ends(a)
    <3>1. UNCHANGED deducted /\ o \notin failedOnce'
      BY <2>7 DEF Ends, Accounted
    <3>2. CASE RefundAt(a, "restore")
      <4>1. deducted[o] = 0
        BY <1>1, <2>1, <2>7, <3>2 DEF TakenInv, Accounted, RefundAt
      <4>2. QED BY <3>1, <4>1 DEF BackedFor
    <3>3. CASE RefundAt(a, "finish") /\ RowTo(o, FinalRefundStatus(a))
      BY <3>3 DEF RowTo, FinalRefundStatus, BackedFor, FinalStatuses
    <3>4. QED BY <2>7, <3>1, <3>2, <3>3 DEF Ends
  <2>8. QED BY <1>4, <2>3, <2>4, <2>5, <2>6, <2>7 DEF AdminStep
<1>5. QED BY <1>3, <1>4 DEF RefundStep

-----------------------------------------------------------------------------
(***************************************************************************)
(* The theorems.                                                           *)
(***************************************************************************)

LEMMA InitIInv == RefundInit => RefundIInv
<1> SUFFICES ASSUME RefundInit PROVE RefundIInv
  OBVIOUS
<1>1. CompletedOrder \in FulfilledRows
  <2> DEFINE Any == [status : ORDER_STATUS \cup {"ABSENT"}, paidAt : BOOLEAN,
                     completedAt : BOOLEAN, tradeNo : BOOLEAN, updatedAt : Time,
                     expiresAt : Nat]
             u == [Absent EXCEPT !.status = "COMPLETED", !.paidAt = TRUE]
             v == [u EXCEPT !.completedAt = TRUE, !.tradeNo = TRUE]
  <2>1. Absent \in Any /\ "COMPLETED" \in ORDER_STATUS
    BY DEF Absent, Time, ORDER_STATUS
  <2>2. u \in Any /\ u.status = "COMPLETED"
    BY <2>1
  <2>3. v = CompletedOrder
    BY <2>1 DEF CompletedOrder
  <2> HIDE DEF u
  <2>4. /\ v \in Any /\ v.status = "COMPLETED"
        /\ v.tradeNo = TRUE
    BY <2>2
  <2> HIDE DEF v
  <2>5. v \in FulfilledRows
    BY <2>1, <2>4 DEF FulfilledRows, Row
  <2>6. QED BY <2>3, <2>5
<1>2. FulfilledInv
  BY <1>1 DEF RefundInit, FulfilledInv
<1>3. RefundTypes
  <2>1. RefundsOK
    BY NoRefundOK DEF RefundInit, RefundsOK, RefundOK
  <2>2. QED BY <2>1, RefundParts DEF RefundInit
<1>4. \A a \in Admins : refund[a].pc = "idle"
  BY NoRefundOK DEF RefundInit
<1>5. SingleRefund /\ PaidBackOnce /\ TakenInv /\ DeductionIsBacked
  BY <1>4 DEF RefundInit, SingleRefund, PaidBackOnce, TakenInv, DeductionIsBacked, WorkingPCs
<1>6. QED BY <1>2, <1>3, <1>5 DEF RefundIInv

LEMMA NextIInv == RefundIInv /\ [RefundNext]_allVars => RefundIInv'
<1> SUFFICES ASSUME RefundIInv, [RefundNext]_allVars PROVE RefundIInv'
  OBVIOUS
<1>1. /\ FulfilledInv /\ RefundTypes /\ SingleRefund /\ PaidBackOnce /\ TakenInv
      /\ DeductionIsBacked /\ RefundStep
  BY StepSummary DEF RefundIInv
<1>2. FulfilledInv' /\ RefundTypes'
  BY <1>1 DEF RefundStep
<1>3. QED
  BY <1>1, <1>2, SingleStep, PaidBackStep, TakenStep, BackedStep DEF RefundIInv

\* Rows, refunds, what was taken and what was paid back agree.
THEOREM InvariantHolds == RefundSpec => []RefundIInv
  BY InitIInv, NextIInv, PTL DEF RefundSpec

\* However many administrators refund one order at once, one of them works on it,
\* and its row says so.
THEOREM RefundIsExclusive == RefundSpec => []SingleRefund
<1>1. RefundIInv => SingleRefund
  BY DEF RefundIInv
<1>2. QED BY <1>1, InvariantHolds, PTL

\* The gateway pays an order back once.
THEOREM PaymentReturnsOnce == RefundSpec => []PaidBackOnce
<1>1. RefundIInv => PaidBackOnce
  BY DEF RefundIInv
<1>2. QED BY <1>1, InvariantHolds, PTL

\* What was taken from the user belongs to a refund that is under way, was made,
\* or was given up for an administrator to look at.
THEOREM DeductionsAreBacked == RefundSpec => []DeductionIsBacked
<1>1. RefundIInv => DeductionIsBacked
  BY DEF RefundIInv
<1>2. QED BY <1>1, InvariantHolds, PTL

=============================================================================
