----------------------- MODULE OrderFulfillment_proofs -----------------------
(***************************************************************************)
(* Proofs about OrderFulfillment, for any sets of orders and handlers.     *)
(***************************************************************************)
EXTENDS OrderFulfillment, TLAPS

USE NullIsNotATime, FulfillmentAssumption

-----------------------------------------------------------------------------
(***************************************************************************)
(* The rows that the UPDATEs write.                                        *)
(***************************************************************************)

\* A change of status keeps a row a row and keeps its other columns.
LEMMA WithStatusRow ==
    ASSUME NEW row \in Row(Time, Int), NEW s \in Statuses, NEW t \in Time
    PROVE  /\ WithStatus(row, s, t) \in Row(Time, Int)
           /\ WithStatus(row, s, t).status = s
           /\ WithStatus(row, s, t).updated_at = t
           /\ WithStatus(row, s, t).pay_amount = row.pay_amount
           /\ WithStatus(row, s, t).paid_at = row.paid_at
           /\ WithStatus(row, s, t).completed_at = row.completed_at
           /\ WithStatus(row, s, t).expires_at = row.expires_at
  BY DEF WithStatus, Row

\* Marking a row paid stores the amount that was collected.
LEMMA PaidRowRow ==
    ASSUME NEW row \in Row(Time, Int), NEW a \in Int,
           NEW p \in Time, NEW t \in Time
    PROVE  /\ PaidRow(row, a, p, t) \in Row(Time, Int)
           /\ PaidRow(row, a, p, t).status = "PAID"
           /\ PaidRow(row, a, p, t).paid_at = p
           /\ PaidRow(row, a, p, t).completed_at = row.completed_at
           /\ PaidRow(row, a, p, t).expires_at = row.expires_at
  BY DEF PaidRow, Row, Statuses

\* Completing a row leaves its payment alone.
LEMMA CompletedRowRow ==
    ASSUME NEW row \in Row(Time, Int), NEW c \in Time, NEW t \in Time
    PROVE  /\ CompletedRow(row, c, t) \in Row(Time, Int)
           /\ CompletedRow(row, c, t).status = "COMPLETED"
           /\ CompletedRow(row, c, t).paid_at = row.paid_at
           /\ CompletedRow(row, c, t).pay_amount = row.pay_amount
           /\ CompletedRow(row, c, t).expires_at = row.expires_at
  BY DEF CompletedRow, Row, Statuses

\* A refund's writes that carry an amount change status and amount only.
LEMMA RefundAmountRow ==
    ASSUME NEW row \in Row(Time, Int), NEW s \in Statuses, NEW a \in Int,
           NEW t \in Time
    PROVE  /\ RefundedRow(row, s, a, t) \in Row(Time, Int)
           /\ RefundedRow(row, s, a, t).status = s
           /\ RefundedRow(row, s, a, t).paid_at = row.paid_at
           /\ RefundedRow(row, s, a, t).pay_amount = row.pay_amount
           /\ RefundedRow(row, s, a, t).completed_at = row.completed_at
           /\ RefundedRow(row, s, a, t).expires_at = row.expires_at
           /\ RefundRequestedRow(row, a, t) = RefundedRow(row, "REFUND_REQUESTED", a, t)
  BY DEF RefundedRow, RefundRequestedRow, Row, Statuses

-----------------------------------------------------------------------------
(***************************************************************************)
(* Type correctness.  The conjuncts of TypeOK fall into four groups: the   *)
(* orders table, the handlers, the clock and the sweep, and the sets and   *)
(* counters outside the service.                                           *)
(***************************************************************************)

OrdersOK  == orders \in [Orders -> Row(Time, Int)]
HandlerOK ==
    /\ handler \in [Handlers -> HandlerState]
    /\ \A h \in Handlers : handler[h].pc # "idle" => handler[h].order \in Orders
    /\ \A h \in Handlers : handler[h].pc \in {"confirm", "mark_paid"} =>
         collected[handler[h].order] # NULL

\* Moving a handler on and giving it the time changes nothing else of it.
LEMMA HandlerClock ==
    ASSUME NEW state \in HandlerState, NEW pc \in PCs, NEW t \in Time
    PROVE  LET next == [state EXCEPT !.pc = pc, !.at = t] IN
           /\ next \in HandlerState
           /\ next.pc = pc
           /\ next.order = state.order
           /\ next.op = state.op
  BY DEF HandlerState

\* A handler that goes on, ends or replies is still a handler.
LEMMA HandlerMoves ==
    ASSUME TypeOK, NEW h \in Handlers, UNCHANGED collected
    PROVE  /\ Finish(h) => HandlerOK'
           /\ \A ok \in BOOLEAN : ~At(h, "idle") /\ Reply(h, ok) =>
                HandlerOK' /\ acked' \subseteq Orders
           /\ \A pc \in PCs : ~At(h, "idle") /\ Goto(h, pc)
                /\ (pc \in {"confirm", "mark_paid"} => collected[OrderOf(h)] # NULL)
                => HandlerOK'
           /\ \A pc \in PCs : ~At(h, "idle") /\ GotoAt(h, pc)
                /\ pc \notin {"confirm", "mark_paid"} => HandlerOK'
           /\ \A op \in Operations, o \in Orders, pc \in PCs :
                Begin(h, op, o, pc)
                /\ (pc \in {"confirm", "mark_paid"} => collected[o] # NULL)
                => HandlerOK'
<1> USE DEF TypeOK, HandlerOK, HandlerState, At
<1>0. Idle \in HandlerState /\ Idle.pc = "idle"
  BY DEF Idle, PCs, Operations, Time
<1>1. Finish(h) => HandlerOK'
  BY <1>0 DEF Finish
<1>2. ASSUME NEW ok \in BOOLEAN, ~At(h, "idle"), Reply(h, ok)
      PROVE  HandlerOK' /\ acked' \subseteq Orders
  <2>1. HandlerOK'
    BY <1>1, <1>2 DEF Reply
  <2>2. acked' \subseteq Orders
    BY <1>2 DEF Reply, OrderOf
  <2>3. QED BY <2>1, <2>2
<1>3. ASSUME NEW pc \in PCs, ~At(h, "idle"), Goto(h, pc),
             pc \in {"confirm", "mark_paid"} => collected[OrderOf(h)] # NULL
      PROVE  HandlerOK'
  BY <1>3 DEF Goto, OrderOf
<1>4. ASSUME NEW pc \in PCs, ~At(h, "idle"), GotoAt(h, pc),
             pc \notin {"confirm", "mark_paid"}
      PROVE  HandlerOK'
  <2> DEFINE rec == [handler[h] EXCEPT !.pc = pc, !.at = now]
  <2>0. handler[h] \in HandlerState /\ now \in Time
    OBVIOUS
  <2>1. rec \in HandlerState /\ rec.pc = pc /\ rec.order = handler[h].order
    BY <2>0, HandlerClock, Zenon
  <2>2. handler' = [handler EXCEPT ![h] = rec]
    BY <1>4 DEF GotoAt
  <2>3. QED BY <1>4, <2>1, <2>2
<1>5. ASSUME NEW op \in Operations, NEW o \in Orders, NEW pc \in PCs,
             Begin(h, op, o, pc),
             pc \in {"confirm", "mark_paid"} => collected[o] # NULL
      PROVE  HandlerOK'
  <2> DEFINE rec == [pc |-> pc, op |-> op, order |-> o, at |-> now]
  <2>1. rec \in HandlerState /\ rec.pc = pc /\ rec.order = o
    OBVIOUS
  <2>2. handler' = [handler EXCEPT ![h] = rec]
    BY <1>5 DEF Begin
  <2>3. QED BY <1>5, <2>1, <2>2
<1>6. QED BY <1>1, <1>2, <1>3, <1>4, <1>5

\* Writing a row that is a row keeps the table a table.
LEMMA TableWrite ==
    ASSUME TypeOK, NEW h \in Handlers, ~At(h, "idle"),
           NEW row \in Row(Time, Int), SetRow(h, row)
    PROVE  OrdersOK'
  BY DEF TypeOK, OrdersOK, SetRow, OrderOf, At

\* A handler that has begun has a row, and knows the time it began.
LEMMA HandlerFacts ==
    ASSUME TypeOK, NEW h \in Handlers, ~At(h, "idle")
    PROVE  /\ OrderOf(h) \in Orders
           /\ RowOf(h) \in Row(Time, Int)
           /\ handler[h].at \in Time
           /\ now \in Time /\ now \in Int /\ handler[h].at \in Int
  BY DEF TypeOK, OrderOf, RowOf, HandlerState, At, Time

\* Every step of a handler keeps the types.
LEMMA ProgressTypeOK ==
    ASSUME TypeOK, NEW h \in Handlers, Progress(h)
    PROVE  TypeOK'
<1> USE DEF dbVars, providerVars, platformVars
<1>a. ~At(h, "idle")
  BY DEF Progress, At, ConfirmRead, MarkPaid, MarkPaidRefused, ConfirmReread,
     MarkCancelled, MarkCancelledRefused, CancelReread, ResetToPaid, ResetRefused,
     ExecuteRead, MarkRecharging, MarkRechargingRefused, LockReread, PrepareFails,
     SendRedeem, AnswerOk, AnswerError, MarkCompleted, RecordFailure
<1>b. SUFFICES /\ OrdersOK' /\ HandlerOK' /\ acked' \subseteq Orders
               /\ requests' \subseteq [key : Orders, order : Orders]
               /\ UNCHANGED <<sweep, now, collected, redeemed, credits, abandoned>>
  BY DEF TypeOK, OrdersOK, HandlerOK
<1>c. /\ TypeOK => OrdersOK /\ HandlerOK /\ acked \subseteq Orders
      /\ TypeOK => requests \subseteq [key : Orders, order : Orders]
      /\ UNCHANGED orders /\ OrdersOK => OrdersOK'
  BY DEF TypeOK, OrdersOK, HandlerOK
<1>d. /\ RowOf(h) \in Row(Time, Int) /\ OrderOf(h) \in Orders
      /\ now \in Time /\ handler[h].at \in Time
  BY <1>a, HandlerFacts
<1>1. CASE ConfirmRead(h)
  <2>1. Reply(h, TRUE) \/ Reply(h, FALSE) \/ (Goto(h, "mark_paid") /\ UNCHANGED acked)
    BY <1>1 DEF ConfirmRead
  <2>2. collected[OrderOf(h)] # NULL
    BY <1>1 DEF ConfirmRead, TypeOK, At, OrderOf
  <2>3. HandlerOK' /\ acked' \subseteq Orders
    BY <1>1, <1>a, <1>c, <2>1, <2>2, HandlerMoves DEF ConfirmRead, PCs
  <2>4. QED
    BY <1>1, <1>c, <2>3 DEF ConfirmRead
<1>2. CASE MarkPaid(h)
  <2>1. collected[OrderOf(h)] \in Int
    BY <1>2, <1>d DEF MarkPaid, TypeOK, At, OrderOf
  <2>2. OrdersOK'
    BY <1>2, <1>a, <1>d, <2>1, TableWrite, PaidRowRow DEF MarkPaid
  <2>3. QED
    BY <1>2, <1>a, <1>c, <2>2, HandlerMoves DEF MarkPaid, PCs
<1>3. CASE MarkPaidRefused(h)
  BY <1>3, <1>a, <1>c, HandlerMoves DEF MarkPaidRefused, PCs
<1>4. CASE ConfirmReread(h)
  BY <1>4, <1>a, <1>c, HandlerMoves DEF ConfirmReread, PCs
<1>5. CASE MarkCancelled(h)
  <2>1. OrdersOK'
    BY <1>5, <1>a, <1>d, TableWrite, WithStatusRow DEF MarkCancelled, Statuses
  <2>2. QED
    BY <1>5, <1>c, <2>1, HandlerMoves DEF MarkCancelled
<1>6. CASE MarkCancelledRefused(h)
  BY <1>6, <1>a, <1>c, HandlerMoves DEF MarkCancelledRefused, PCs
<1>7. CASE CancelReread(h)
  BY <1>7, <1>a, <1>c, HandlerMoves DEF CancelReread, PCs
<1>8. CASE ResetToPaid(h)
  <2>1. OrdersOK'
    BY <1>8, <1>a, <1>d, TableWrite, WithStatusRow DEF ResetToPaid, ResetRow, Statuses
  <2>2. QED
    BY <1>8, <1>a, <1>c, <2>1, HandlerMoves DEF ResetToPaid, PCs
<1>9. CASE ResetRefused(h)
  BY <1>9, <1>c, HandlerMoves DEF ResetRefused
<1>10. CASE ExecuteRead(h)
  BY <1>10, <1>a, <1>c, HandlerMoves DEF ExecuteRead, PCs
<1>11. CASE MarkRecharging(h)
  <2>1. OrdersOK'
    BY <1>11, <1>a, <1>d, TableWrite, WithStatusRow
       DEF MarkRecharging, RechargingRow, Statuses
  <2>2. QED
    BY <1>11, <1>a, <1>c, <2>1, HandlerMoves DEF MarkRecharging, PCs, LockedPCs
<1>12. CASE MarkRechargingRefused(h)
  BY <1>12, <1>a, <1>c, HandlerMoves DEF MarkRechargingRefused, PCs
<1>13. CASE LockReread(h)
  <2>1. Reply(h, TRUE) \/ Reply(h, FALSE)
    BY <1>13 DEF LockReread, Reply
  <2>2. HandlerOK' /\ acked' \subseteq Orders
    BY <1>13, <1>a, <2>1, HandlerMoves DEF LockReread
  <2>3. QED
    BY <1>13, <1>c, <2>2 DEF LockReread
<1>14. CASE PrepareFails(h)
  BY <1>14, <1>a, <1>c, HandlerMoves DEF PrepareFails, PCs, LockedPCs
<1>15. CASE SendRedeem(h)
  BY <1>15, <1>a, <1>c, <1>d, HandlerMoves
     DEF SendRedeem, RequestOf, RedeemKey, PCs, LockedPCs
<1>16. CASE AnswerOk(h)
  BY <1>16, <1>a, <1>c, HandlerMoves DEF AnswerOk, PCs, LockedPCs
<1>17. CASE AnswerError(h)
  BY <1>17, <1>a, <1>c, HandlerMoves DEF AnswerError, PCs, LockedPCs
<1>18. CASE MarkCompleted(h)
  <2>1. OrdersOK'
    BY <1>18, <1>a, <1>c, <1>d, TableWrite, CompletedRowRow DEF MarkCompleted
  <2>2. QED
    BY <1>18, <1>a, <1>c, <2>1, HandlerMoves DEF MarkCompleted
<1>19. CASE RecordFailure(h)
  <2>1. OrdersOK'
    BY <1>19, <1>a, <1>c, <1>d, TableWrite, WithStatusRow
       DEF RecordFailure, FailedRow, Statuses
  <2>2. QED
    BY <1>19, <1>a, <1>c, <2>1, HandlerMoves DEF RecordFailure
<1>20. QED
  BY <1>1, <1>2, <1>3, <1>4, <1>5, <1>6, <1>7, <1>8, <1>9, <1>10, <1>11, <1>12,
     <1>13, <1>14, <1>15, <1>16, <1>17, <1>18, <1>19 DEF Progress

\* The steps of everyone but a running handler keep the types.
LEMMA OtherTypeOK ==
    ASSUME TypeOK, Next, ~\E h \in Handlers : Progress(h)
    PROVE  TypeOK'
<1> USE DEF dbVars, providerVars, platformVars
<1>a. \A o \in Orders : orders[o] \in Row(Time, Int)
  BY DEF TypeOK
<1>b. now \in Time /\ Due \in Int
  BY DEF TypeOK
<1>1. ASSUME NEW h \in Handlers, Interrupt(h) PROVE TypeOK'
  <2>1. HandlerOK'
    BY <1>1, HandlerMoves DEF Interrupt
  <2>2. OrderOf(h) \in Orders
    BY <1>1, HandlerFacts DEF Interrupt
  <2>3. QED
    BY <1>1, <2>1, <2>2 DEF Interrupt, TypeOK, HandlerOK
<1>2. ASSUME NEW h \in Handlers, NEW o \in Orders, DeliverNotification(h, o)
      PROVE  TypeOK'
  <2>1. HandlerOK'
    BY <1>2, HandlerMoves DEF DeliverNotification, Operations, PCs
  <2>2. QED
    BY <1>2, <2>1 DEF DeliverNotification, TypeOK, HandlerOK
<1>3. ASSUME NEW h \in Handlers, NEW o \in Orders, BeginCancel(h, o)
      PROVE  TypeOK'
  <2>1. HandlerOK'
    BY <1>3, HandlerMoves DEF BeginCancel, Operations, PCs
  <2>2. QED
    BY <1>3, <2>1 DEF BeginCancel, TypeOK, HandlerOK
<1>4. ASSUME NEW h \in Handlers, NEW o \in Orders, BeginRetry(h, o)
      PROVE  TypeOK'
  <2>1. HandlerOK'
    BY <1>4, HandlerMoves DEF BeginRetry, Operations, PCs
  <2>2. QED
    BY <1>4, <2>1 DEF BeginRetry, TypeOK, HandlerOK
<1>5. ASSUME NEW o \in Orders, CustomerPays(o) PROVE TypeOK'
  BY <1>5 DEF CustomerPays, TypeOK
<1>6. ASSUME NEW o \in Orders, SweepExpires(o) PROVE TypeOK'
  <2>1. WithStatus(orders[o], "EXPIRED", now) \in Row(Time, Int)
    BY <1>a, <1>b, WithStatusRow DEF Statuses
  <2>2. QED
    BY <1>6, <2>1 DEF SweepExpires, TypeOK
<1>7. ASSUME NEW o \in Orders, RefundWrites(o) PROVE TypeOK'
  <2>0. orders[o] \in Row(Time, Int)
    BY <1>a
  <2>a. \A s \in Statuses : WithStatus(orders[o], s, now) \in Row(Time, Int)
    BY <2>0, <1>b, WithStatusRow
  <2>b. \A s \in Statuses : RefundedRow(orders[o], s, Due, now) \in Row(Time, Int)
    BY <2>0, <1>b, RefundAmountRow
  <2>c. RefundRequestedRow(orders[o], Due, now) \in Row(Time, Int)
    BY <2>0, <1>b DEF RefundRequestedRow, Row, Statuses, RefundStatuses
  <2>1. PICK row \in Row(Time, Int) : orders' = [orders EXCEPT ![o] = row]
    BY <1>7, <2>a, <2>b, <2>c
       DEF RefundWrites, RefundingRow, RestoredRow, RefundFailedRow, Statuses,
           RefundStatuses
  <2>2. QED
    BY <1>7, <2>1 DEF RefundWrites, TypeOK
<1>8. ASSUME NEW q \in requests, PlatformRedeems(q) PROVE TypeOK'
  <2>1. q.key \in Orders /\ q.order \in Orders
    BY DEF TypeOK
  <2>2. credits' \in [Orders -> Nat]
    BY <1>8, <2>1 DEF PlatformRedeems, TypeOK
  <2>3. QED
    BY <1>8, <2>1, <2>2 DEF PlatformRedeems, TypeOK
<1>9. CASE SweepList
  BY <1>9 DEF SweepList, Overdue, TypeOK
<1>10. CASE SweepInterrupt
  BY <1>10 DEF SweepInterrupt, TypeOK
<1>11. CASE Tick
  BY <1>11 DEF Tick, TypeOK, Time
<1>12. QED
  BY <1>1, <1>2, <1>3, <1>4, <1>5, <1>6, <1>7, <1>8, <1>9, <1>10, <1>11 DEF Next

LEMMA TypeStep == TypeOK /\ [Next]_vars => TypeOK'
<1>1. CASE UNCHANGED vars
  BY <1>1 DEF vars, TypeOK
<1>2. QED
  BY <1>1, ProgressTypeOK, OtherTypeOK

LEMMA TypeInit == Init => TypeOK
<1> SUFFICES ASSUME Init PROVE TypeOK
  OBVIOUS
<1>1. PendingRow(Due, Ttl, 0) \in Row(Time, Int)
  BY DEF PendingRow, Row, Time, Statuses
<1>2. Idle \in HandlerState /\ Idle.pc = "idle"
  BY DEF Idle, HandlerState, PCs, Operations, Time
<1>3. QED
  BY <1>1, <1>2 DEF Init, TypeOK, Time

\* Type correctness of the fulfilment model.
THEOREM TypeCorrect == Spec => []TypeOK
  BY TypeInit, TypeStep, PTL DEF Spec

-----------------------------------------------------------------------------
(***************************************************************************)
(* What a step does to one handler and to one row, pointwise.              *)
(***************************************************************************)

OthersSame(h) == \A x \in Handlers \ {h} : handler'[x] = handler[x]

RowsSame(o) == \A x \in Orders \ {o} : orders'[x] = orders[x]

\* A handler moves alone, and keeps its order, operation and time unless it
\* ends, begins or takes the time.
LEMMA HandlerEffect ==
    ASSUME TypeOK, NEW h \in Handlers
    PROVE  /\ Finish(h) => handler'[h] = Idle /\ OthersSame(h)
           /\ \A ok \in BOOLEAN : Reply(h, ok) => handler'[h] = Idle /\ OthersSame(h)
           /\ \A pc \in PCs : Goto(h, pc) =>
                /\ handler'[h].pc = pc
                /\ handler'[h].order = handler[h].order
                /\ handler'[h].op = handler[h].op
                /\ handler'[h].at = handler[h].at
                /\ OthersSame(h)
           /\ \A pc \in PCs : GotoAt(h, pc) =>
                /\ handler'[h].pc = pc
                /\ handler'[h].order = handler[h].order
                /\ handler'[h].op = handler[h].op
                /\ OthersSame(h)
           /\ \A op \in Operations, o \in Orders, pc \in PCs : Begin(h, op, o, pc) =>
                /\ handler[h].pc = "idle"
                /\ handler'[h].pc = pc
                /\ handler'[h].order = o
                /\ handler'[h].op = op
                /\ OthersSame(h)
<1> USE DEF OthersSame
<1>0. handler \in [Handlers -> HandlerState]
  BY DEF TypeOK
<1>1. Finish(h) => handler'[h] = Idle /\ OthersSame(h)
  BY <1>0 DEF Finish
<1>2. \A ok \in BOOLEAN : Reply(h, ok) => handler'[h] = Idle /\ OthersSame(h)
  BY <1>1 DEF Reply
<1>3. ASSUME NEW pc \in PCs, Goto(h, pc)
      PROVE  /\ handler'[h].pc = pc
             /\ handler'[h].order = handler[h].order
             /\ handler'[h].op = handler[h].op
             /\ handler'[h].at = handler[h].at
             /\ OthersSame(h)
  BY <1>0, <1>3 DEF Goto, HandlerState
<1>4. ASSUME NEW pc \in PCs, GotoAt(h, pc)
      PROVE  /\ handler'[h].pc = pc
             /\ handler'[h].order = handler[h].order
             /\ handler'[h].op = handler[h].op
             /\ OthersSame(h)
  <2> DEFINE rec == [handler[h] EXCEPT !.pc = pc, !.at = now]
  <2>1. handler[h] \in HandlerState /\ now \in Time
    BY <1>0 DEF TypeOK
  <2>2. /\ rec \in HandlerState /\ rec.pc = pc
        /\ rec.order = handler[h].order /\ rec.op = handler[h].op
    BY <2>1 DEF HandlerState
  <2>3. handler' = [handler EXCEPT ![h] = rec]
    BY <1>4 DEF GotoAt
  <2>4. QED BY <1>0, <2>2, <2>3
<1>5. ASSUME NEW op \in Operations, NEW o \in Orders, NEW pc \in PCs,
             Begin(h, op, o, pc)
      PROVE  /\ handler[h].pc = "idle"
             /\ handler'[h].pc = pc
             /\ handler'[h].order = o
             /\ handler'[h].op = op
             /\ OthersSame(h)
  BY <1>0, <1>5 DEF Begin, At
<1>6. QED BY <1>1, <1>2, <1>3, <1>4, <1>5

\* An UPDATE by a handler writes its own row alone.
LEMMA RowEffect ==
    ASSUME TypeOK, NEW h \in Handlers, ~At(h, "idle"), NEW row, SetRow(h, row)
    PROVE  orders'[OrderOf(h)] = row /\ RowsSame(OrderOf(h))
  BY HandlerFacts DEF TypeOK, SetRow, RowsSame

-----------------------------------------------------------------------------
(***************************************************************************)
(* The fulfilment lock.                                                    *)
(***************************************************************************)

\* A step that neither takes nor gives up a lock, and moves no row into or
\* out of RECHARGING.
LockQuiet ==
    /\ \A o \in Orders :
         orders'[o].status = "RECHARGING" <=> orders[o].status = "RECHARGING"
    /\ \A x \in Handlers :
         /\ handler'[x].pc \in LockedPCs <=> handler[x].pc \in LockedPCs
         /\ handler[x].pc \in LockedPCs => handler'[x].order = handler[x].order
    /\ abandoned \subseteq abandoned'

LEMMA LockQuietStep ==
    ASSUME TypeOK, LockInv, LockQuiet
    PROVE  LockInv'
<1> USE DEF HoldsLock, OrderOf, RowOf
<1>0. \A x \in Handlers : handler[x].pc \in LockedPCs => handler[x].order \in Orders
  BY DEF TypeOK, LockedPCs
<1>1. (\A h \in Handlers :
          handler[h].pc \in LockedPCs => RowOf(h).status = "RECHARGING")'
  BY <1>0 DEF LockInv, LockQuiet
<1>2. SingleFulfiller'
  BY DEF LockInv, LockQuiet, SingleFulfiller
<1>3. LockHasHolder'
  <2> SUFFICES ASSUME NEW o \in Orders, orders'[o].status = "RECHARGING",
                      o \notin abandoned'
               PROVE  \E x \in Handlers : HoldsLock(x, o)'
    BY DEF LockHasHolder
  <2>1. PICK x \in Handlers : HoldsLock(x, o)
    BY DEF LockInv, LockHasHolder, LockQuiet
  <2>2. HoldsLock(x, o)'
    BY <2>1 DEF LockQuiet
  <2>3. QED BY <2>2
<1>4. QED BY <1>1, <1>2, <1>3 DEF LockInv

\* Every step of a handler keeps the lock and its holder in agreement.
LEMMA LockProgress ==
    ASSUME TypeOK, LockInv, NEW h \in Handlers, Progress(h)
    PROVE  LockInv'
<1> DEFINE Keeps == /\ OthersSame(h)
                    /\ handler'[h].pc \in LockedPCs <=> handler[h].pc \in LockedPCs
                    /\ handler[h].pc \in LockedPCs =>
                         handler'[h].order = handler[h].order
<1> USE DEF dbVars, providerVars, platformVars
<1>a. Idle.pc = "idle" /\ "idle" \notin LockedPCs
  BY DEF Idle, LockedPCs
<1>b. ASSUME ~At(h, "idle")
      PROVE  /\ RowOf(h) \in Row(Time, Int) /\ OrderOf(h) \in Orders
             /\ now \in Time /\ handler[h].at \in Time
             /\ RowOf(h) = orders[OrderOf(h)]
  BY <1>b, HandlerFacts DEF RowOf
<1>c. ASSUME UNCHANGED <<orders, abandoned>>, Keeps PROVE LockInv'
  BY <1>c, LockQuietStep DEF LockQuiet, OthersSame
<1>d. ASSUME NEW row, ~At(h, "idle"), SetRow(h, row), UNCHANGED abandoned, Keeps,
             row.status = "RECHARGING" <=> RowOf(h).status = "RECHARGING"
      PROVE  LockInv'
  BY <1>d, <1>b, RowEffect, LockQuietStep DEF LockQuiet, OthersSame, RowsSame
<1>f. ASSUME handler[h].pc \notin LockedPCs,
             Finish(h) \/ \E pc \in PCs \ LockedPCs : Goto(h, pc)
      PROVE  Keeps
  <2>1. CASE Finish(h)
    BY <1>f, <2>1, <1>a, HandlerEffect
  <2>2. ASSUME NEW pc \in PCs \ LockedPCs, Goto(h, pc) PROVE Keeps
    BY <1>f, <2>2, HandlerEffect
  <2>3. QED BY <1>f, <2>1, <2>2
<1>1. CASE ConfirmRead(h)
  <2>1. Finish(h) \/ Goto(h, "mark_paid")
    BY <1>1 DEF ConfirmRead, Reply
  <2>2. handler[h].pc \notin LockedPCs /\ UNCHANGED <<orders, abandoned>>
    BY <1>1 DEF ConfirmRead, At, LockedPCs
  <2>3. Keeps
    BY <2>1, <2>2, <1>f DEF PCs, LockedPCs
  <2>4. QED BY <2>2, <2>3, <1>c
<1>2. CASE MarkPaid(h)
  <2>1. Keeps
    BY <1>2, HandlerEffect DEF MarkPaid, At, PCs, LockedPCs
  <2>2. collected[OrderOf(h)] \in Int
    BY <1>2, <1>b DEF MarkPaid, TypeOK, At, OrderOf
  <2>3. QED
    BY <1>2, <2>1, <2>2, <1>b, <1>d, PaidRowRow DEF MarkPaid, IsPayable, At
<1>3. CASE MarkPaidRefused(h)
  BY <1>3, <1>c, HandlerEffect DEF MarkPaidRefused, At, PCs, LockedPCs
<1>4. CASE ConfirmReread(h)
  <2>1. Finish(h) \/ Goto(h, "exec_read")
    BY <1>4 DEF ConfirmReread, Reply
  <2>2. handler[h].pc \notin LockedPCs /\ UNCHANGED <<orders, abandoned>>
    BY <1>4 DEF ConfirmReread, At, LockedPCs
  <2>3. Keeps
    BY <2>1, <2>2, <1>f DEF PCs, LockedPCs
  <2>4. QED BY <2>2, <2>3, <1>c
<1>5. CASE MarkCancelled(h)
  <2>1. Keeps
    BY <1>5, <1>a, HandlerEffect DEF MarkCancelled, At, LockedPCs
  <2>2. ~At(h, "idle") /\ RowOf(h).status # "RECHARGING"
    BY <1>5 DEF MarkCancelled, IsPending, At
  <2>3. WithStatus(RowOf(h), "CANCELLED", now).status # "RECHARGING"
    BY <2>2, <1>b, WithStatusRow DEF Statuses
  <2>4. QED
    BY <1>5, <2>1, <2>2, <2>3, <1>d DEF MarkCancelled
<1>6. CASE MarkCancelledRefused(h)
  BY <1>6, <1>c, HandlerEffect DEF MarkCancelledRefused, At, PCs, LockedPCs
<1>7. CASE CancelReread(h)
  <2>1. Finish(h) \/ Goto(h, "exec_read")
    BY <1>7 DEF CancelReread
  <2>2. handler[h].pc \notin LockedPCs /\ UNCHANGED <<orders, abandoned>>
    BY <1>7 DEF CancelReread, At, LockedPCs
  <2>3. Keeps
    BY <2>1, <2>2, <1>f DEF PCs, LockedPCs
  <2>4. QED BY <2>2, <2>3, <1>c
<1>8. CASE ResetToPaid(h)
  <2>1. Keeps
    BY <1>8, HandlerEffect DEF ResetToPaid, At, PCs, LockedPCs
  <2>2. QED
    BY <1>8, <2>1, <1>b, <1>d, WithStatusRow
       DEF ResetToPaid, ResetRow, IsResettable, At, Statuses
<1>9. CASE ResetRefused(h)
  BY <1>9, <1>a, <1>c, HandlerEffect DEF ResetRefused, At, LockedPCs
<1>10. CASE ExecuteRead(h)
  <2>1. Finish(h) \/ Goto(h, "lock")
    BY <1>10 DEF ExecuteRead, Reply
  <2>2. handler[h].pc \notin LockedPCs /\ UNCHANGED <<orders, abandoned>>
    BY <1>10 DEF ExecuteRead, At, LockedPCs
  <2>3. Keeps
    BY <2>1, <2>2, <1>f DEF PCs, LockedPCs
  <2>4. QED BY <2>2, <2>3, <1>c
<1>11. CASE MarkRecharging(h)
  <2>1. /\ handler'[h].pc = "prepare" /\ handler'[h].order = handler[h].order
        /\ OthersSame(h)
    BY <1>11, HandlerEffect DEF MarkRecharging, PCs, LockedPCs
  <2>2. /\ orders'[OrderOf(h)].status = "RECHARGING"
        /\ RowsSame(OrderOf(h))
    BY <1>11, <1>b, RowEffect, WithStatusRow
       DEF MarkRecharging, RechargingRow, At, Statuses
  <2>3. \A x \in Handlers : ~HoldsLock(x, OrderOf(h))
    BY <1>11 DEF MarkRecharging, IsLockable, LockInv, HoldsLock, RowOf, OrderOf
  <2>4. handler[h].pc \notin LockedPCs
    BY <1>11 DEF MarkRecharging, At, LockedPCs
  <2>5. \A x \in Handlers : handler[x].pc \in LockedPCs => handler[x].order \in Orders
    BY DEF TypeOK, LockedPCs
  <2>6. (\A x \in Handlers :
           handler[x].pc \in LockedPCs => RowOf(x).status = "RECHARGING")'
    BY <2>1, <2>2, <2>5 DEF LockInv, OthersSame, RowsSame, RowOf, OrderOf
  <2>7. SingleFulfiller'
    BY <2>1, <2>3, <2>4 DEF LockInv, SingleFulfiller, HoldsLock, OthersSame, OrderOf
  <2>8. LockHasHolder'
    <3> SUFFICES ASSUME NEW o \in Orders, orders'[o].status = "RECHARGING",
                        o \notin abandoned'
                 PROVE  \E x \in Handlers : HoldsLock(x, o)'
      BY DEF LockHasHolder
    <3>1. CASE o = OrderOf(h)
      BY <3>1, <2>1 DEF HoldsLock, OrderOf, LockedPCs
    <3>2. CASE o # OrderOf(h)
      <4>1. PICK x \in Handlers : HoldsLock(x, o)
        BY <3>2, <2>2, <1>11 DEF LockInv, LockHasHolder, RowsSame, MarkRecharging
      <4>2. HoldsLock(x, o)'
        BY <4>1, <2>1, <2>4 DEF HoldsLock, OthersSame, OrderOf
      <4>3. QED BY <4>2
    <3>3. QED BY <3>1, <3>2
  <2>9. QED BY <2>6, <2>7, <2>8 DEF LockInv
<1>12. CASE MarkRechargingRefused(h)
  BY <1>12, <1>c, HandlerEffect DEF MarkRechargingRefused, At, PCs, LockedPCs
<1>13. CASE LockReread(h)
  <2>1. Finish(h)
    BY <1>13 DEF LockReread, Reply
  <2>2. QED
    BY <1>13, <2>1, <1>a, <1>c, HandlerEffect DEF LockReread, At, LockedPCs
<1>14. CASE PrepareFails(h)
  BY <1>14, <1>c, HandlerEffect DEF PrepareFails, At, PCs, LockedPCs
<1>15. CASE SendRedeem(h)
  BY <1>15, <1>c, HandlerEffect DEF SendRedeem, At, PCs, LockedPCs
<1>16. CASE AnswerOk(h)
  BY <1>16, <1>c, HandlerEffect DEF AnswerOk, At, PCs, LockedPCs
<1>17. CASE AnswerError(h)
  BY <1>17, <1>c, HandlerEffect DEF AnswerError, At, PCs, LockedPCs
<1>e. ASSUME handler[h].pc \in LockedPCs, handler'[h] = Idle, OthersSame(h),
             orders'[OrderOf(h)].status # "RECHARGING", RowsSame(OrderOf(h)),
             UNCHANGED abandoned
      PROVE  LockInv'
  <2>1. \A x \in Handlers : handler[x].pc \in LockedPCs => handler[x].order \in Orders
    BY DEF TypeOK, LockedPCs
  <2>0. OrderOf(h) \in Orders /\ HoldsLock(h, OrderOf(h))
    BY <1>e, <2>1 DEF OrderOf, HoldsLock
  <2>2. \A x \in Handlers \ {h} : ~HoldsLock(x, OrderOf(h))
    BY <2>0 DEF LockInv, SingleFulfiller
  <2>3. (\A x \in Handlers :
           handler[x].pc \in LockedPCs => RowOf(x).status = "RECHARGING")'
    BY <1>a, <1>e, <2>1, <2>2
       DEF LockInv, OthersSame, RowsSame, RowOf, OrderOf, HoldsLock
  <2>4. SingleFulfiller'
    BY <1>a, <1>e DEF LockInv, SingleFulfiller, HoldsLock, OthersSame, OrderOf
  <2>5. LockHasHolder'
    <3> SUFFICES ASSUME NEW o \in Orders, orders'[o].status = "RECHARGING",
                        o \notin abandoned'
                 PROVE  \E x \in Handlers : HoldsLock(x, o)'
      BY DEF LockHasHolder
    <3>1. o # OrderOf(h) /\ orders[o].status = "RECHARGING"
      BY <1>e DEF RowsSame
    <3>2. PICK x \in Handlers : HoldsLock(x, o)
      BY <3>1, <1>e DEF LockInv, LockHasHolder
    <3>3. HoldsLock(x, o)'
      BY <3>1, <3>2, <1>e DEF HoldsLock, OthersSame, OrderOf
    <3>4. QED BY <3>3
  <2>6. QED BY <2>3, <2>4, <2>5 DEF LockInv
<1>18. CASE MarkCompleted(h)
  <2>1. /\ handler[h].pc \in LockedPCs /\ ~At(h, "idle")
        /\ RowOf(h).status = "RECHARGING"
    BY <1>18 DEF MarkCompleted, At, LockedPCs, LockInv
  <2>2. /\ SetRow(h, CompletedRow(RowOf(h), handler[h].at, now)) /\ Reply(h, TRUE)
        /\ UNCHANGED abandoned
    BY <1>18, <2>1 DEF MarkCompleted, IsCompletable
  <2>3. orders'[OrderOf(h)].status = "COMPLETED" /\ RowsSame(OrderOf(h))
    BY <2>1, <2>2, <1>b, RowEffect, CompletedRowRow
  <2>4. QED
    BY <2>1, <2>2, <2>3, <1>e, HandlerEffect
<1>19. CASE RecordFailure(h)
  <2>1. /\ handler[h].pc \in LockedPCs /\ ~At(h, "idle")
        /\ RowOf(h).status = "RECHARGING"
    BY <1>19 DEF RecordFailure, At, LockedPCs, LockInv
  <2>2. /\ SetRow(h, WithStatus(RowOf(h), "FAILED", now)) /\ Reply(h, FALSE)
        /\ UNCHANGED abandoned
    BY <1>19, <2>1 DEF RecordFailure, IsFailable, FailedRow
  <2>3. orders'[OrderOf(h)].status = "FAILED" /\ RowsSame(OrderOf(h))
    BY <2>1, <2>2, <1>b, RowEffect, WithStatusRow DEF Statuses
  <2>4. QED
    BY <2>1, <2>2, <2>3, <1>e, HandlerEffect
<1>20. QED
  BY <1>1, <1>2, <1>3, <1>4, <1>5, <1>6, <1>7, <1>8, <1>9, <1>10, <1>11, <1>12,
     <1>13, <1>14, <1>15, <1>16, <1>17, <1>18, <1>19 DEF Progress

\* A handler that is cut short inside the fulfilment abandons its lock.
LEMMA LockInterrupt ==
    ASSUME TypeOK, LockInv, NEW h \in Handlers, Interrupt(h)
    PROVE  LockInv'
<1> USE DEF dbVars, providerVars, platformVars
<1>a. Idle.pc = "idle" /\ "idle" \notin LockedPCs
  BY DEF Idle, LockedPCs
<1>1. handler'[h] = Idle /\ OthersSame(h) /\ UNCHANGED orders
  BY HandlerEffect DEF Interrupt
<1>2. abandoned' = IF handler[h].pc \in LockedPCs
                   THEN abandoned \cup {OrderOf(h)} ELSE abandoned
  BY DEF Interrupt
<1>3. (\A x \in Handlers :
         handler[x].pc \in LockedPCs => RowOf(x).status = "RECHARGING")'
  BY <1>1, <1>a DEF LockInv, OthersSame, RowOf, OrderOf
<1>4. SingleFulfiller'
  BY <1>1, <1>a DEF LockInv, SingleFulfiller, HoldsLock, OthersSame, OrderOf
<1>5. LockHasHolder'
  <2> SUFFICES ASSUME NEW o \in Orders, orders'[o].status = "RECHARGING",
                      o \notin abandoned'
               PROVE  \E x \in Handlers : HoldsLock(x, o)'
    BY DEF LockHasHolder
  <2>1. PICK x \in Handlers : HoldsLock(x, o)
    BY <1>1, <1>2 DEF LockInv, LockHasHolder
  <2>2. x # h
    BY <2>1, <1>2 DEF HoldsLock
  <2>3. HoldsLock(x, o)'
    BY <2>1, <2>2, <1>1 DEF HoldsLock, OthersSame, OrderOf
  <2>4. QED BY <2>3
<1>6. QED BY <1>3, <1>4, <1>5 DEF LockInv

\* The steps of everyone else touch neither a lock nor a locked row: a refund
\* writes only rows that are settled, the sweep only rows still PENDING.
LEMMA LockOthers ==
    ASSUME TypeOK, LockInv, Next, ~\E h \in Handlers : Progress(h)
    PROVE  LockInv'
<1> USE DEF dbVars, providerVars, platformVars
<1>a. ASSUME UNCHANGED <<orders, handler, abandoned>> PROVE LockInv'
  BY <1>a, LockQuietStep DEF LockQuiet
<1>b. ASSUME NEW h \in Handlers, NEW op \in Operations, NEW o \in Orders,
             NEW pc \in PCs \ LockedPCs, Begin(h, op, o, pc),
             UNCHANGED <<orders, abandoned>>
      PROVE  LockInv'
  <2>1. /\ handler[h].pc = "idle" /\ handler'[h].pc \notin LockedPCs
        /\ OthersSame(h)
    BY <1>b, HandlerEffect
  <2>2. LockQuiet
    BY <1>b, <2>1 DEF LockQuiet, OthersSame, LockedPCs
  <2>3. QED BY <2>2, LockQuietStep
<1>c. ASSUME NEW o \in Orders, NEW row,
             orders' = [orders EXCEPT ![o] = row],
             row.status # "RECHARGING", orders[o].status # "RECHARGING",
             UNCHANGED <<handler, abandoned>>
      PROVE  LockInv'
  <2>1. LockQuiet
    BY <1>c DEF LockQuiet, TypeOK
  <2>2. QED BY <2>1, LockQuietStep
<1>d. ASSUME NEW o \in Orders
      PROVE  /\ orders[o] \in Row(Time, Int) /\ now \in Time /\ Due \in Int
             /\ \A s \in Statuses :
                  /\ WithStatus(orders[o], s, now).status = s
                  /\ RefundedRow(orders[o], s, Due, now).status = s
             /\ RefundRequestedRow(orders[o], Due, now).status = "REFUND_REQUESTED"
  <2>1. orders[o] \in Row(Time, Int) /\ now \in Time /\ Due \in Int
    BY DEF TypeOK
  <2>2. \A s \in Statuses : WithStatus(orders[o], s, now).status = s
    BY <2>1, WithStatusRow
  <2>3. \A s \in Statuses : RefundedRow(orders[o], s, Due, now).status = s
    BY <2>1 DEF RefundedRow, Row
  <2>4. RefundRequestedRow(orders[o], Due, now).status = "REFUND_REQUESTED"
    BY <2>1 DEF RefundRequestedRow, Row
  <2>5. QED BY <2>1, <2>2, <2>3, <2>4
<1>1. ASSUME NEW h \in Handlers, NEW o \in Orders, DeliverNotification(h, o)
      PROVE  LockInv'
  BY <1>1, <1>b DEF DeliverNotification, Operations, PCs, LockedPCs
<1>2. ASSUME NEW h \in Handlers, NEW o \in Orders, BeginCancel(h, o)
      PROVE  LockInv'
  BY <1>2, <1>b DEF BeginCancel, Operations, PCs, LockedPCs
<1>3. ASSUME NEW h \in Handlers, NEW o \in Orders, BeginRetry(h, o)
      PROVE  LockInv'
  BY <1>3, <1>b DEF BeginRetry, Operations, PCs, LockedPCs
<1>4. ASSUME NEW o \in Orders, CustomerPays(o) PROVE LockInv'
  BY <1>4, <1>a DEF CustomerPays
<1>5. ASSUME NEW o \in Orders, SweepExpires(o) PROVE LockInv'
  <2>1. CASE IsPending(orders[o])
    BY <1>5, <2>1, <1>c, <1>d DEF SweepExpires, IsPending, Statuses
  <2>2. CASE ~IsPending(orders[o])
    BY <1>5, <2>2, <1>a DEF SweepExpires
  <2>3. QED BY <2>1, <2>2
<1>6. ASSUME NEW o \in Orders, RefundWrites(o) PROVE LockInv'
  <2>a. {"COMPLETED", "REFUND_REQUESTED", "REFUNDING", "REFUND_FAILED",
         "PARTIALLY_REFUNDED", "REFUNDED"} \subseteq Statuses \ {"RECHARGING"}
    BY DEF Statuses, RefundStatuses
  <2>b. \A s \in Statuses \ {"RECHARGING"} :
           /\ WithStatus(orders[o], s, now).status # "RECHARGING"
           /\ RefundedRow(orders[o], s, Due, now).status # "RECHARGING"
    BY <1>6, <1>d
  <2>c. RefundRequestedRow(orders[o], Due, now).status # "RECHARGING"
    BY <1>6, <1>d
  <2>1. PICK row : /\ orders' = [orders EXCEPT ![o] = row]
                   /\ row.status # "RECHARGING"
    BY <1>6, <2>a, <2>b, <2>c
       DEF RefundWrites, RefundingRow, RestoredRow, RefundFailedRow
  <2>2. orders[o].status # "RECHARGING"
    BY <1>6 DEF RefundWrites, IsRefundRequestable, IsRefundable, IsRefunding
  <2>3. QED BY <1>6, <2>1, <2>2, <1>c DEF RefundWrites
<1>7. ASSUME NEW q \in requests, PlatformRedeems(q) PROVE LockInv'
  BY <1>7, <1>a DEF PlatformRedeems
<1>8. SweepList \/ SweepInterrupt \/ Tick => LockInv'
  BY <1>a DEF SweepList, SweepInterrupt, Tick
<1>9. QED
  BY <1>1, <1>2, <1>3, <1>4, <1>5, <1>6, <1>7, <1>8, LockInterrupt DEF Next

LEMMA LockStep == TypeOK /\ LockInv /\ [Next]_vars => LockInv'
<1>1. CASE TypeOK /\ LockInv /\ UNCHANGED vars
  BY <1>1, LockQuietStep DEF vars, LockQuiet
<1>2. QED
  BY <1>1, LockProgress, LockOthers

LEMMA LockInit == Init => LockInv
  BY DEF Init, LockInv, SingleFulfiller, LockHasHolder, HoldsLock, RowOf, OrderOf,
     Idle, LockedPCs, PendingRow

\* The conditional UPDATE to RECHARGING is a lock: at any time at most one
\* handler fulfils an order.
THEOREM LockIsExclusive == Spec => []SingleFulfiller
<1>1. LockInv => SingleFulfiller
  BY DEF LockInv
<1>2. QED
  BY <1>1, LockInit, LockStep, TypeCorrect, PTL DEF Spec

\* No path through the fulfilment forgets the lock it took.
THEOREM LockIsReturned == Spec => []LockHasHolder
<1>1. LockInv => LockHasHolder
  BY DEF LockInv
<1>2. QED
  BY <1>1, LockInit, LockStep, TypeCorrect, PTL DEF Spec

=============================================================================
