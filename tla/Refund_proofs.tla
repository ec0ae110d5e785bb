---------------------------- MODULE Refund_proofs ----------------------------
(***************************************************************************)
(* Proofs about Refund, for any sets of orders and handlers, any amounts   *)
(* and any number of attempts: the lock is always given up and exclusive,  *)
(* and an order is refunded once, unless a late Err arm ended the refund of *)
(* another; a refunded row is final, and what was deducted covers what is  *)
(* given back, even then.                                                  *)
(***************************************************************************)
EXTENDS Refund, TLAPS

USE NullIsNotATime, RefundAssumption

-----------------------------------------------------------------------------
(***************************************************************************)
(* The rows that the UPDATEs write.                                        *)
(***************************************************************************)

\* A row written by an UPDATE of the refund: still a row, with its payment.
LEMMA RefundRows ==
    ASSUME NEW row \in Row(Time, Int), NEW s \in Statuses, NEW a \in Int,
           NEW t \in Time
    PROVE  /\ WithStatus(row, s, t) \in Row(Time, Int)
           /\ WithStatus(row, s, t).status = s
           /\ WithStatus(row, s, t).pay_amount = row.pay_amount
           /\ RefundedRow(row, s, a, t) \in Row(Time, Int)
           /\ RefundedRow(row, s, a, t).status = s
           /\ RefundedRow(row, s, a, t).pay_amount = row.pay_amount
           /\ RefundedRow(row, s, a, t).refund_amount = a
           /\ RefundRequestedRow(row, a, t) = RefundedRow(row, "REFUND_REQUESTED", a, t)
  BY DEF WithStatus, RefundedRow, RefundRequestedRow, Row, Statuses

-----------------------------------------------------------------------------
(***************************************************************************)
(* What a step does to one handler and to one row, pointwise.              *)
(***************************************************************************)

OthersSame(h) == \A x \in Handlers \ {h} : handler'[x] = handler[x]

RowsSame(o) == \A x \in Orders \ {o} : orders'[x] = orders[x]

\* The fields of a handler that a refund keeps from its beginning to its end.
SamePlan(h) ==
    /\ handler'[h].order = handler[h].order
    /\ handler'[h].try = handler[h].try
    /\ handler'[h].amount = handler[h].amount
    /\ handler'[h].gateway = handler[h].gateway
    /\ handler'[h].plan = handler[h].plan

LEMMA IdleOK == Idle \in HandlerState /\ Idle.pc = "idle" /\ Idle.order = NULL
  BY DEF Idle, HandlerState, PCs, Time, Statuses

\* A handler inside a refund has an order, and plans within its amount.
LEMMA HandlerFacts ==
    ASSUME TypeOK, NEW h \in Handlers, ~At(h, "idle")
    PROVE  /\ OrderOf(h) \in Orders
           /\ RowOf(h) \in Row(Time, Int)
           /\ RowOf(h) = orders[OrderOf(h)]
           /\ RefundOf(h) \in AskSet
           /\ handler[h] \in HandlerState
           /\ now \in Time /\ now \in Int
  BY DEF TypeOK, OrderOf, RowOf, HandlerState, At, Time, RefundOf, AskSet

\* A handler that finishes is idle; one that goes on keeps all but its place;
\* one that calls the platform notes the second as well.
LEMMA HandlerEffect ==
    ASSUME TypeOK, NEW h \in Handlers
    PROVE  /\ Finish(h) => handler'[h] = Idle /\ OthersSame(h)
           /\ \A pc \in PCs : Goto(h, pc) =>
                /\ handler'[h].pc = pc /\ handler'[h].at = handler[h].at
                /\ handler'[h] \in HandlerState
                /\ SamePlan(h) /\ OthersSame(h)
           /\ \A kind \in {"subtract", "add"} : AdjustBalance(h, kind) =>
                /\ handler'[h].pc = IF kind = "subtract" THEN "deduct_answer"
                                    ELSE "rollback_answer"
                /\ handler'[h].at = now
                /\ handler'[h] \in HandlerState
                /\ SamePlan(h) /\ OthersSame(h)
<1> USE DEF OthersSame
<1>0. handler \in [Handlers -> HandlerState] /\ now \in Time
  BY DEF TypeOK
<1>1. Finish(h) => handler'[h] = Idle /\ OthersSame(h)
  BY <1>0 DEF Finish
<1>2. ASSUME NEW pc \in PCs, Goto(h, pc)
      PROVE  /\ handler'[h].pc = pc /\ handler'[h].at = handler[h].at
             /\ handler'[h] \in HandlerState
             /\ SamePlan(h) /\ OthersSame(h)
  BY <1>0, <1>2 DEF Goto, HandlerState, SamePlan
<1>3. ASSUME NEW kind \in {"subtract", "add"}, AdjustBalance(h, kind)
      PROVE  /\ handler'[h].pc = IF kind = "subtract" THEN "deduct_answer"
                                 ELSE "rollback_answer"
             /\ handler'[h].at = now
             /\ handler'[h] \in HandlerState
             /\ SamePlan(h) /\ OthersSame(h)
  <2> DEFINE pc == IF kind = "subtract" THEN "deduct_answer" ELSE "rollback_answer"
             rec == [handler[h] EXCEPT !.pc = pc, !.at = now]
  <2>1. pc \in PCs
    BY DEF PCs, LockedPCs
  <2>2. /\ rec \in HandlerState /\ rec.pc = pc /\ rec.at = now
        /\ rec.order = handler[h].order /\ rec.try = handler[h].try
        /\ rec.amount = handler[h].amount /\ rec.gateway = handler[h].gateway
        /\ rec.plan = handler[h].plan
    <3> HIDE DEF pc
    <3>1. QED BY <1>0, <2>1 DEF HandlerState
  <2>3. handler' = [handler EXCEPT ![h] = rec]
    BY <1>3 DEF AdjustBalance
  <2>4. QED BY <1>0, <2>2, <2>3 DEF SamePlan
<1>4. QED BY <1>1, <1>2, <1>3

\* An UPDATE by a handler writes its own row alone.
LEMMA RowEffect ==
    ASSUME TypeOK, NEW h \in Handlers, ~At(h, "idle"), NEW row, SetRow(h, row)
    PROVE  orders'[OrderOf(h)] = row /\ RowsSame(OrderOf(h))
  BY HandlerFacts DEF TypeOK, SetRow, RowsSame

-----------------------------------------------------------------------------
(***************************************************************************)
(* Type correctness, together with the amounts: what a gateway is asked    *)
(* for is a natural number because what was paid for an order never        *)
(* changes.                                                                *)
(***************************************************************************)

OrdersOK ==
    /\ orders \in [Orders -> Row(Time, Int)]
    /\ \A o \in Orders : orders[o].pay_amount = PayAmount

\* One handler, and all of them.
AHandlerOK(state) ==
    /\ state \in HandlerState
    /\ state.pc # "idle" => state.order \in Orders /\ state.amount > 0
    /\ state.pc \notin {"idle", "request"} =>
         state.gateway \in {state.amount, PayAmount}

HandlersOK ==
    /\ handler \in [Handlers -> HandlerState]
    /\ \A h \in Handlers : AHandlerOK(handler[h])

HistoryOK ==
    history \in [abandoned : SUBSET Orders, unrecorded : SUBSET Orders,
                 overtaken : SUBSET Orders, collided : SUBSET Orders,
                 keys : SUBSET KeySet, confirmed : SUBSET AskSet]

OutsideOK ==
    /\ calls \subseteq CallSet /\ applied \subseteq KeySet
    /\ taken \in [Orders -> Int]
    /\ asked \subseteq AskSet /\ returned \subseteq AskSet

LEMMA TypeParts ==
    /\ TypeOK /\ AmountInv =>
         /\ OrdersOK /\ HandlersOK /\ HistoryOK /\ OutsideOK
         /\ now \in Time /\ tries \in [Orders -> Nat]
    /\ OrdersOK' /\ HandlersOK' /\ HistoryOK' /\ OutsideOK'
         /\ now' \in Time /\ tries' \in [Orders -> Nat]
         => TypeOK' /\ AmountInv'
  BY DEF TypeOK, AmountInv, OrdersOK, HandlersOK, AHandlerOK, HistoryOK, OutsideOK

\* Delivery sets three columns of a row and leaves what was paid alone.
Delivered(row, s, p, c) ==
    [row EXCEPT !.status = s, !.paid_at = p, !.completed_at = c]

LEMMA DeliveredIsRow ==
    ASSUME NEW row \in Row(Time, Int), NEW s \in Statuses, NEW p \in Time, NEW c \in Time
    PROVE  /\ Delivered(row, s, p, c) \in Row(Time, Int)
           /\ Delivered(row, s, p, c).pay_amount = row.pay_amount
<1> DEFINE u == [row EXCEPT !.status = s, !.paid_at = p]
           v == [u EXCEPT !.completed_at = c]
<1>1. u \in Row(Time, Int) /\ u.pay_amount = row.pay_amount
  BY DEF Row
<1>2. v = [row EXCEPT !.status = s, !.paid_at = p, !.completed_at = c]
  OBVIOUS
<1> HIDE DEF u
<1>3. v \in Row(Time, Int) /\ v.pay_amount = row.pay_amount
  BY <1>1 DEF Row
<1> HIDE DEF v
<1>4. QED BY <1>2, <1>3 DEF Delivered

LEMMA TypeInit == Init => TypeOK /\ AmountInv
<1> SUFFICES ASSUME Init PROVE TypeOK /\ AmountInv
  OBVIOUS
<1>1. DeliveredRow \in Row(Time, Int) /\ DeliveredRow.pay_amount = PayAmount
  <2>1. /\ PendingRow(PayAmount, 0, 0) \in Row(Time, Int)
        /\ PendingRow(PayAmount, 0, 0).pay_amount = PayAmount
    BY DEF PendingRow, Row, Time, Statuses
  <2>2. "COMPLETED" \in Statuses /\ 0 \in Time
    BY DEF Statuses, Time
  <2>3. DeliveredRow = Delivered(PendingRow(PayAmount, 0, 0), "COMPLETED", 0, 0)
    BY DEF DeliveredRow, Delivered
  <2>4. QED BY <2>1, <2>2, <2>3, DeliveredIsRow
<1>2. OrdersOK
  BY <1>1 DEF Init, OrdersOK
<1>3. HandlersOK
  BY IdleOK DEF Init, HandlersOK, AHandlerOK
<1>4. QED
  BY <1>2, <1>3
     DEF Init, TypeOK, AmountInv, OrdersOK, HandlersOK, AHandlerOK, Time

\* A handler that finishes or goes on is still a handler.
LEMMA HandlersStep ==
    ASSUME TypeOK, AmountInv, NEW h \in Handlers, NEW state, AHandlerOK(state),
           handler' = [handler EXCEPT ![h] = state]
    PROVE  HandlersOK'
  BY TypeParts DEF HandlersOK, AHandlerOK

\* The places of a handler that has held the lock.
BusyPCs == LockedPCs \cup {"audit", "audit_failed"}

LEMMA HandlerMoves ==
    ASSUME TypeOK, AmountInv, NEW h \in Handlers
    PROVE  /\ Finish(h) => HandlersOK'
           /\ \A pc \in BusyPCs : ~At(h, "idle") /\ ~At(h, "request") /\ Goto(h, pc)
                => HandlersOK'
           /\ \A kind \in {"subtract", "add"} :
                ~At(h, "idle") /\ ~At(h, "request") /\ AdjustBalance(h, kind)
                => HandlersOK'
<1>0. HandlersOK
  BY TypeParts
<1>1. Finish(h) => HandlersOK'
  <2>1. AHandlerOK(Idle)
    BY IdleOK DEF AHandlerOK
  <2>2. QED BY <2>1, HandlersStep DEF Finish
<1>a. ASSUME ~At(h, "idle"), ~At(h, "request"), SamePlan(h), OthersSame(h),
             handler'[h] \in HandlerState, handler' \in [Handlers -> HandlerState]
      PROVE  HandlersOK'
  BY <1>0, <1>a DEF HandlersOK, AHandlerOK, SamePlan, OthersSame, At
<1>2. ASSUME NEW pc \in BusyPCs, ~At(h, "idle"), ~At(h, "request"), Goto(h, pc)
      PROVE  HandlersOK'
  <2>1. pc \in PCs
    BY DEF PCs, BusyPCs
  <2>2. handler' \in [Handlers -> HandlerState]
    BY <1>2, <2>1 DEF Goto, TypeOK, HandlerState
  <2>3. SamePlan(h) /\ OthersSame(h) /\ handler'[h] \in HandlerState
    BY <1>2, <2>1, HandlerEffect
  <2>4. QED BY <1>2, <1>a, <2>2, <2>3
<1>3. ASSUME NEW kind \in {"subtract", "add"}, AdjustBalance(h, kind),
             ~At(h, "idle"), ~At(h, "request")
      PROVE  HandlersOK'
  <2>1. SamePlan(h) /\ OthersSame(h) /\ handler'[h] \in HandlerState
    BY <1>3, HandlerEffect
  <2>2. DOMAIN handler' = Handlers /\ handler' = [x \in Handlers |-> handler'[x]]
    BY <1>3 DEF AdjustBalance, TypeOK
  <2>3. handler' \in [Handlers -> HandlerState]
    BY <1>0, <2>1, <2>2 DEF HandlersOK, OthersSame
  <2>4. QED BY <1>3, <1>a, <2>1, <2>3
<1>4. QED BY <1>1, <1>2, <1>3

\* Writing a row that is a row, with what was paid unchanged.
LEMMA TableWrite ==
    ASSUME TypeOK, AmountInv, NEW h \in Handlers, ~At(h, "idle"),
           NEW row \in Row(Time, Int), row.pay_amount = PayAmount, SetRow(h, row)
    PROVE  OrdersOK'
  BY HandlerFacts, TypeParts DEF OrdersOK, SetRow

\* The end of a refund writes a row that differs in status, and perhaps in
\* the amount refunded.
LEMMA EndTypeOK ==
    ASSUME TypeOK, AmountInv, NEW h \in Handlers, ~At(h, "idle"),
           NEW row \in Row(Time, Int), row.pay_amount = PayAmount, EndRefund(h, row),
           HandlersOK', HistoryOK'
    PROVE  TypeOK' /\ AmountInv'
<1> USE DEF platformVars, gatewayVars
<1>1. OrdersOK'
  <2>1. CASE UNCHANGED orders
    BY <2>1, TypeParts DEF OrdersOK
  <2>2. CASE SetRow(h, row)
    BY <2>2, TableWrite
  <2>3. QED BY <2>1, <2>2 DEF EndRefund
<1>2. OutsideOK' /\ now' \in Time /\ tries' \in [Orders -> Nat]
  BY TypeParts DEF EndRefund, OutsideOK
<1>3. QED BY <1>1, <1>2, TypeParts

\* The steps of a handler keep the types.
LEMMA ProgressTypeOK ==
    ASSUME TypeOK, AmountInv, NEW h \in Handlers,
           Progress(h) \/ DbError(h) \/ Interrupt(h)
    PROVE  TypeOK' /\ AmountInv'
<1> USE DEF platformVars, gatewayVars
<1>0. OrdersOK /\ HandlersOK /\ HistoryOK /\ OutsideOK
      /\ now \in Time /\ tries \in [Orders -> Nat]
  BY TypeParts
<1>a. ASSUME UNCHANGED <<orders, now, tries, calls, applied, taken, returned>>,
             HandlersOK', HistoryOK', asked' \subseteq AskSet
      PROVE  TypeOK' /\ AmountInv'
  BY <1>0, <1>a, TypeParts DEF OrdersOK, OutsideOK
<1>b. ASSUME ~At(h, "idle"), ~At(h, "request"), NEW pc \in BusyPCs, Goto(h, pc),
             UNCHANGED <<orders, now, tries, calls, applied, taken, returned>>,
             HistoryOK', asked' \subseteq AskSet
      PROVE  TypeOK' /\ AmountInv'
  BY <1>a, <1>b, HandlerMoves
<1>c. /\ OutsideOK => asked \subseteq AskSet
      /\ UNCHANGED history => HistoryOK'
  BY <1>0 DEF OutsideOK, HistoryOK
<1>d. ASSUME ~At(h, "idle")
      PROVE  /\ RowOf(h) \in Row(Time, Int) /\ RowOf(h).pay_amount = PayAmount
             /\ OrderOf(h) \in Orders /\ RefundOf(h) \in AskSet
             /\ handler[h] \in HandlerState
  BY <1>0, <1>d, HandlerFacts DEF OrdersOK
<1>1. CASE MarkRefundRequested(h)
  <2>1. ~At(h, "idle") /\ handler[h].amount \in Int
    BY <1>1, <1>d DEF MarkRefundRequested, At, HandlerState
  <2>2. OrdersOK'
    <3>1. CASE UNCHANGED orders
      BY <1>0, <3>1 DEF OrdersOK
    <3>2. CASE SetRow(h, RefundRequestedRow(RowOf(h), handler[h].amount, now))
      <4>1. "REFUND_REQUESTED" \in Statuses
        BY DEF Statuses, RefundStatuses
      <4>2. /\ RefundRequestedRow(RowOf(h), handler[h].amount, now) \in Row(Time, Int)
            /\ RefundRequestedRow(RowOf(h), handler[h].amount, now).pay_amount = PayAmount
        BY <2>1, <1>0, <1>d, <4>1, RefundRows
      <4>3. QED BY <2>1, <3>2, <4>2, TableWrite
    <3>3. QED BY <1>1, <3>1, <3>2 DEF MarkRefundRequested
  <2>3. HandlersOK'
    BY <1>1, HandlerMoves DEF MarkRefundRequested
  <2>4. QED
    BY <1>0, <1>1, <2>2, <2>3, TypeParts DEF MarkRefundRequested, HistoryOK, OutsideOK
<1>2. CASE MarkRefunding(h)
  <2>1. ~At(h, "idle") /\ ~At(h, "request")
    BY <1>2 DEF MarkRefunding, At
  <2>2. /\ WithStatus(RowOf(h), "REFUNDING", now) \in Row(Time, Int)
        /\ WithStatus(RowOf(h), "REFUNDING", now).pay_amount = PayAmount
    BY <2>1, <1>0, <1>d, RefundRows DEF Statuses, RefundStatuses
  <2>3. OrdersOK'
    BY <1>2, <2>1, <2>2, TableWrite DEF MarkRefunding, RefundingRow
  <2>4. HandlersOK'
    BY <1>2, <2>1, HandlerMoves DEF MarkRefunding, BusyPCs, LockedPCs
  <2>5. QED
    BY <1>0, <1>2, <2>3, <2>4, TypeParts DEF MarkRefunding, HistoryOK, OutsideOK
<1>3. CASE MarkRefundingRefused(h)
  BY <1>0, <1>a, <1>c, <1>3, HandlerMoves DEF MarkRefundingRefused
<1>4. ASSUME NEW kind \in {"subtract", "add"}, AdjustBalance(h, kind),
             ~At(h, "idle"), ~At(h, "request"),
             UNCHANGED <<orders, now, applied, taken, asked, returned, tries>>
      PROVE  TypeOK' /\ AmountInv'
  <2>1. HandlersOK'
    BY <1>4, HandlerMoves
  <2>2. handler[h].plan \in Nat /\ Key(kind, OrderOf(h), now) \in KeySet
    BY <1>0, <1>4, <1>d DEF HandlerState, Key, KeySet
  <2>3. calls' \subseteq CallSet
    BY <1>0, <1>4, <1>d, <2>2 DEF AdjustBalance, OutsideOK, CallSet
  <2>4. HistoryOK'
    BY <1>0, <1>4, <1>d, <2>2 DEF AdjustBalance, HistoryOK
  <2>5. QED
    BY <1>0, <1>4, <2>1, <2>3, <2>4, TypeParts DEF OrdersOK, OutsideOK
<1>5. CASE SubtractBalance(h)
  BY <1>4, <1>5 DEF SubtractBalance, At
<1>6. CASE AddBalance(h)
  BY <1>4, <1>6 DEF AddBalance, At
<1>7. CASE NothingToDeduct(h)
  BY <1>0, <1>b, <1>c, <1>7 DEF NothingToDeduct, At, BusyPCs, LockedPCs
<1>8. CASE DeductionOk(h) \/ DeductionError(h)
  BY <1>0, <1>b, <1>c, <1>8 DEF DeductionOk, DeductionError, At, BusyPCs, LockedPCs
<1>9. CASE AskGateway(h)
  <2>1. asked' \subseteq AskSet
    BY <1>0, <1>9, <1>d DEF AskGateway, At, OutsideOK
  <2>2. QED
    BY <1>b, <1>c, <1>9, <2>1 DEF AskGateway, At, BusyPCs, LockedPCs
<1>10. CASE GatewayOk(h)
  <2>1. HistoryOK'
    BY <1>0, <1>10, <1>d DEF GatewayOk, At, HistoryOK
  <2>2. QED
    BY <1>0, <1>b, <1>c, <1>10, <2>1 DEF GatewayOk, At, BusyPCs, LockedPCs
<1>11. CASE GatewayError(h)
  BY <1>0, <1>b, <1>c, <1>11 DEF GatewayError, At, BusyPCs, LockedPCs
<1>12. CASE RollbackOk(h) \/ RollbackError(h)
  BY <1>0, <1>b, <1>c, <1>12 DEF RollbackOk, RollbackError, At, BusyPCs, LockedPCs
<1>13. CASE Restore(h) \/ MarkRefundFailed(h) \/ LateRefundFailed(h)
  <2>1. ~At(h, "idle") /\ ~At(h, "request")
    BY <1>13 DEF Restore, MarkRefundFailed, LateRefundFailed, At
  <2>2. \A s \in Statuses : /\ WithStatus(RowOf(h), s, now) \in Row(Time, Int)
                            /\ WithStatus(RowOf(h), s, now).pay_amount = PayAmount
    BY <1>0, <1>d, <2>1, RefundRows
  <2>3. {"REFUND_FAILED", "REFUND_REQUESTED", "COMPLETED"} \subseteq Statuses
    BY DEF Statuses, RefundStatuses
  <2>4. \E row \in Row(Time, Int) : row.pay_amount = PayAmount /\ EndRefund(h, row)
    BY <1>13, <2>2, <2>3
       DEF Restore, MarkRefundFailed, LateRefundFailed, RestoredRow, RestoreStatus,
           RefundFailedRow
  <2>5. Finish(h) \/ Goto(h, "audit")
    BY <1>13 DEF Restore, MarkRefundFailed, LateRefundFailed
  <2>6. HandlersOK'
    BY <2>1, <2>5, HandlerMoves DEF BusyPCs
  <2>7. HistoryOK'
    BY <1>0, <1>13, <1>d, <2>1
       DEF Restore, MarkRefundFailed, LateRefundFailed, HistoryOK
  <2>8. QED BY <2>1, <2>4, <2>6, <2>7, EndTypeOK
<1>14. CASE MarkRefunded(h)
  <2>1. ~At(h, "idle") /\ ~At(h, "request") /\ handler[h].amount \in Int
    BY <1>14, <1>d DEF MarkRefunded, At, HandlerState
  <2>2. FinalStatus(handler[h].amount) \in Statuses
    BY DEF FinalStatus, Statuses, RefundStatuses
  <2>3. \E row \in Row(Time, Int) : row.pay_amount = PayAmount /\ EndRefund(h, row)
    BY <1>0, <1>14, <1>d, <2>1, <2>2, RefundRows DEF MarkRefunded
  <2>4. HandlersOK' /\ HistoryOK'
    BY <1>0, <1>14, <2>1, HandlerMoves DEF MarkRefunded, BusyPCs, HistoryOK
  <2>5. QED BY <2>1, <2>3, <2>4, EndTypeOK
<1>s. CASE AuditRefund(h)
  BY <1>0, <1>a, <1>c, <1>s, HandlerMoves DEF AuditRefund
<1>15. CASE DbError(h)
  <2>1. ~At(h, "idle") /\ ~At(h, "request")
    BY <1>15 DEF DbError, At
  <2>2. HistoryOK'
    BY <1>0, <1>15, <1>d, <2>1 DEF DbError, HistoryOK
  <2>3. QED
    BY <1>0, <1>b, <1>c, <1>15, <2>1, <2>2 DEF DbError, BusyPCs, LockedPCs
<1>16. CASE Interrupt(h)
  <2>1. HistoryOK'
    BY <1>0, <1>16, <1>d DEF Interrupt, HistoryOK
  <2>2. QED
    BY <1>0, <1>a, <1>c, <1>16, <2>1, HandlerMoves DEF Interrupt
<1>17. QED
  BY <1>1, <1>2, <1>3, <1>5, <1>6, <1>7, <1>8, <1>9, <1>10, <1>11, <1>12, <1>13,
     <1>14, <1>15, <1>16, <1>s DEF Progress

\* A handler that begins gets a place, an order, an amount, and perhaps a plan.
Target(s, pc, o, amount) == [s EXCEPT !.pc = pc, !.order = o, !.amount = amount]

Plan(s, pc, o, try, amount, plan, seen, gateway) ==
    [s EXCEPT !.pc = pc, !.order = o, !.try = try, !.amount = amount,
              !.plan = plan, !.seen = seen, !.gateway = gateway]

LEMMA NewTarget ==
    ASSUME NEW s \in HandlerState, NEW pc \in PCs, NEW o \in Orders,
           NEW amount \in 0..Amount
    PROVE  /\ Target(s, pc, o, amount) \in HandlerState
           /\ Target(s, pc, o, amount).pc = pc
           /\ Target(s, pc, o, amount).order = o
           /\ Target(s, pc, o, amount).amount = amount
<1> DEFINE u == [s EXCEPT !.pc = pc, !.order = o]
           v == [u EXCEPT !.amount = amount]
<1>1. u.pc = pc /\ u.order = o /\ u \in HandlerState
  BY DEF HandlerState
<1>2. v = [s EXCEPT !.pc = pc, !.order = o, !.amount = amount]
  OBVIOUS
<1> HIDE DEF u
<1>3. v.pc = pc /\ v.order = o /\ v.amount = amount /\ v \in HandlerState
  BY <1>1 DEF HandlerState
<1> HIDE DEF v
<1>4. QED BY <1>2, <1>3 DEF Target

LEMMA NewPlan ==
    ASSUME NEW s \in HandlerState, NEW pc \in PCs, NEW o \in Orders,
           NEW try \in Nat, NEW amount \in 1..Amount, NEW plan \in 0..Amount,
           NEW seen \in Statuses, NEW gateway \in {amount, PayAmount}
    PROVE  AHandlerOK(Plan(s, pc, o, try, amount, plan, seen, gateway))
<1> DEFINE a == [s EXCEPT !.pc = pc, !.order = o]
           b == [a EXCEPT !.try = try, !.amount = amount]
           c == [b EXCEPT !.plan = plan, !.seen = seen]
           v == [c EXCEPT !.gateway = gateway]
<1>0. amount \in 0..Amount /\ amount > 0 /\ gateway \in Nat
  OBVIOUS
<1>a. v = [s EXCEPT !.pc = pc, !.order = o, !.try = try, !.amount = amount,
                    !.plan = plan, !.seen = seen, !.gateway = gateway]
  OBVIOUS
<1>1. a.pc = pc /\ a.order = o /\ a \in HandlerState
  BY DEF HandlerState
<1> HIDE DEF a
<1>2. b.pc = pc /\ b.order = o /\ b.amount = amount /\ b \in HandlerState
  BY <1>0, <1>1 DEF HandlerState
<1> HIDE DEF b
<1>3. c.pc = pc /\ c.order = o /\ c.amount = amount /\ c \in HandlerState
  BY <1>2 DEF HandlerState
<1> HIDE DEF c
<1>4. /\ v.pc = pc /\ v.order = o /\ v.amount = amount /\ v.gateway = gateway
      /\ v \in HandlerState
  BY <1>0, <1>3 DEF HandlerState
<1> HIDE DEF v
<1>5. QED BY <1>0, <1>a, <1>4 DEF Plan, AHandlerOK

\* A handler that begins a refund plans within the amount of the order.
LEMMA BeginTypeOK ==
    ASSUME TypeOK, AmountInv, NEW h \in Handlers, NEW o \in Orders,
           \/ BeginRefund(h, o)
           \/ \E amount \in RefundAmounts : BeginRequest(h, o, amount)
    PROVE  TypeOK' /\ AmountInv'
<1> USE DEF platformVars, gatewayVars
<1>0. OrdersOK /\ HandlersOK /\ HistoryOK /\ OutsideOK
      /\ now \in Time /\ tries \in [Orders -> Nat]
  BY TypeParts
<1>1. orders[o].pay_amount = PayAmount /\ orders[o].status \in Statuses
  BY <1>0 DEF OrdersOK, Row
<1>2. HandlersOK' /\ tries' \in [Orders -> Nat]
  <2>1. ASSUME NEW amount \in RefundAmounts, BeginRequest(h, o, amount)
        PROVE  HandlersOK' /\ tries' \in [Orders -> Nat]
    <3> DEFINE state == Target(Idle, "request", o, amount)
    <3>1. AHandlerOK(state)
      BY IdleOK, NewTarget DEF AHandlerOK, PCs
    <3>2. handler' = [handler EXCEPT ![h] = state] /\ UNCHANGED tries
      BY <2>1 DEF BeginRequest, Target
    <3>3. QED BY <1>0, <3>1, <3>2, HandlersStep
  <2>2. CASE BeginRefund(h, o)
    <3>1. PICK input \in RefundAmounts \cup {NULL}, plan \in 0..Amount :
             handler' = [handler EXCEPT ![h] =
               [Idle EXCEPT
                  !.pc = "lock", !.order = o, !.try = tries[o] + 1,
                  !.amount = IF input = NULL THEN Amount ELSE input,
                  !.plan = plan, !.seen = orders[o].status,
                  !.gateway = IF input = NULL THEN orders[o].pay_amount ELSE input]]
      <4>1. PICK input \in RefundAmounts \cup {NULL} :
              LET amount == IF input = NULL THEN Amount ELSE input IN
              \E plan \in 0..amount :
                handler' = [handler EXCEPT ![h] =
                  [Idle EXCEPT
                     !.pc = "lock", !.order = o, !.try = tries[o] + 1,
                     !.amount = amount, !.plan = plan, !.seen = orders[o].status,
                     !.gateway = IF input = NULL THEN orders[o].pay_amount
                                 ELSE input]]
        BY <2>2 DEF BeginRefund
      <4>2. (IF input = NULL THEN Amount ELSE input) \in 1..Amount
        OBVIOUS
      <4>3. 0..(IF input = NULL THEN Amount ELSE input) \subseteq 0..Amount
        BY <4>2
      <4>4. QED BY <4>1, <4>3, Zenon
    <3> DEFINE amount == IF input = NULL THEN Amount ELSE input
               gateway == IF input = NULL THEN orders[o].pay_amount ELSE input
               state == Plan(Idle, "lock", o, tries[o] + 1, amount, plan,
                             orders[o].status, gateway)
    <3>2. /\ amount \in 1..Amount /\ plan \in 0..Amount
          /\ gateway \in {amount, PayAmount} /\ gateway \in Nat
          /\ tries[o] + 1 \in Nat
      BY <1>0, <1>1
    <3>3. AHandlerOK(state)
      <4> HIDE DEF amount, gateway
      <4>1. /\ Idle \in HandlerState /\ "lock" \in PCs /\ tries[o] + 1 \in Nat
            /\ amount \in 0..Amount /\ plan \in 0..Amount /\ amount > 0
            /\ orders[o].status \in Statuses /\ gateway \in Nat
        BY <1>1, <3>2, IdleOK DEF PCs
      <4>2. QED BY <3>2, <4>1, NewPlan
    <3>a. handler' = [handler EXCEPT ![h] = state]
      BY <3>1 DEF Plan
    <3>4. HandlersOK'
      BY <3>a, <3>3, HandlersStep
    <3>5. tries' \in [Orders -> Nat]
      <4>1. tries' = [tries EXCEPT ![o] = tries[o] + 1]
        BY <2>2 DEF BeginRefund
      <4>2. QED BY <1>0, <4>1
    <3>6. QED BY <3>4, <3>5
  <2>3. QED BY <2>1, <2>2
<1>3. UNCHANGED <<orders, now, calls, applied, taken, asked, returned, history>>
  BY DEF BeginRequest, BeginRefund
<1>4. OrdersOK' /\ HistoryOK' /\ OutsideOK' /\ now' \in Time
  BY <1>0, <1>3 DEF OrdersOK, HistoryOK, OutsideOK
<1>5. QED BY <1>2, <1>4, TypeParts

LEMMA TypeStep == TypeOK /\ AmountInv /\ [Next]_vars => TypeOK' /\ AmountInv'
<1> USE DEF platformVars, gatewayVars
<1> SUFFICES ASSUME TypeOK, AmountInv, [Next]_vars PROVE TypeOK' /\ AmountInv'
  OBVIOUS
<1>0. OrdersOK /\ HandlersOK /\ HistoryOK /\ OutsideOK
      /\ now \in Time /\ tries \in [Orders -> Nat]
  BY TypeParts
<1>a. ASSUME UNCHANGED <<orders, handler, tries, history>>, OutsideOK', now' \in Time
      PROVE  TypeOK' /\ AmountInv'
  <2>1. OrdersOK' /\ HandlersOK' /\ HistoryOK' /\ tries' \in [Orders -> Nat]
    BY <1>0, <1>a DEF OrdersOK, HandlersOK, HistoryOK, AHandlerOK
  <2>2. QED BY <1>a, <2>1, TypeParts
<1>1. ASSUME NEW call \in calls, PlatformApplies(call) PROVE TypeOK' /\ AmountInv'
  <2>1. /\ call.order \in Orders /\ call.amount \in Int /\ KeyOf(call) \in KeySet
    BY <1>0 DEF OutsideOK, CallSet, KeyOf, Key, KeySet
  <2>2. taken' \in [Orders -> Int]
    BY <1>0, <1>1, <2>1 DEF PlatformApplies, OutsideOK
  <2>3. OutsideOK'
    BY <1>0, <1>1, <2>1, <2>2 DEF PlatformApplies, OutsideOK
  <2>4. QED BY <1>0, <1>1, <1>a, <2>3 DEF PlatformApplies
<1>2. ASSUME NEW refund \in asked, GatewayRefunds(refund) PROVE TypeOK' /\ AmountInv'
  BY <1>0, <1>2, <1>a DEF GatewayRefunds, OutsideOK
<1>3. CASE Tick
  BY <1>0, <1>3, <1>a DEF Tick, OutsideOK, Time
<1>4. CASE UNCHANGED vars
  BY <1>0, <1>4, <1>a DEF vars, OutsideOK
<1>5. QED
  BY <1>1, <1>2, <1>3, <1>4, ProgressTypeOK, BeginTypeOK DEF Next

\* Type correctness of the refund model.
THEOREM TypeCorrect == Spec => []TypeOK
  BY TypeInit, TypeStep, PTL DEF Spec

-----------------------------------------------------------------------------
(***************************************************************************)
(* A step, seen from one row and from one handler.  Every later proof      *)
(* works from this summary.                                                *)
(***************************************************************************)

\* The handler takes the lock.
Takes(h) ==
    /\ At(h, "lock") /\ handler'[h].pc = "deduct" /\ SamePlan(h)
    /\ IsRefundable(RowOf(h))
    /\ orders'[OrderOf(h)].status = "REFUNDING"

\* The UPDATE at the end of a refund finds the row REFUNDING, and with it the
\* handler gives the lock up.
Ends(h) ==
    /\ handler[h].pc \in {"restore", "record", "failed"}
    /\ handler'[h].pc \notin LockedPCs
    /\ orders[OrderOf(h)].status = "REFUNDING"
    /\ orders'[OrderOf(h)].status # "REFUNDING"
    /\ At(h, "record") <=> orders'[OrderOf(h)].status \in Reversed
    /\ At(h, "record") =>
         /\ orders'[OrderOf(h)].status = FinalStatus(handler[h].amount)
         /\ orders'[OrderOf(h)].refund_amount = handler[h].amount

\* It finds that another handler has ended the refund.
Misses(h) ==
    /\ handler[h].pc \in {"restore", "record", "failed"}
    /\ handler'[h].pc \notin LockedPCs
    /\ orders[OrderOf(h)].status # "REFUNDING"

\* A late Err arm ends a refund that is not its handler's.
Overtakes(h) ==
    /\ At(h, "audit_failed")
    /\ orders[OrderOf(h)].status = "REFUNDING"
    /\ orders'[OrderOf(h)].status = "REFUND_FAILED"
    /\ OrderOf(h) \in history'.overtaken

\* The handler goes from one place inside the refund to the next.
GoesOn(h) ==
    /\ handler[h].pc \in LockedPCs /\ handler'[h].pc \in LockedPCs /\ SamePlan(h)
    /\ handler'[h].pc # "deduct"
    /\ handler'[h].pc = "deduct_answer" => SubtractBalance(h)
    /\ handler'[h].pc = "rollback_answer" => AddBalance(h)
    /\ handler'[h].pc = "record" => GatewayOk(h)
    /\ handler'[h].pc \in {"gateway", "gateway_answer", "rollback", "record"} =>
         /\ Deducted(h) \/ handler[h].plan = 0
         /\ handler'[h].at = handler[h].at
    /\ At(h, "record") => OrderOf(h) \in history'.unrecorded

RowStep(o) ==
    \/ orders'[o] = orders[o]
    \/ orders[o].status = "COMPLETED" /\ orders'[o].status = "REFUND_REQUESTED"
    \/ \E h \in Handlers : OrderOf(h) = o /\ (Takes(h) \/ Ends(h) \/ Overtakes(h))

HandlerStep(h) ==
    \/ handler'[h] = handler[h]
    \/ handler[h].pc \notin LockedPCs /\ handler'[h].pc \notin LockedPCs
    \/ handler'[h] = Idle /\ OrderOf(h) \in history'.abandoned
    \/ Takes(h) \/ Ends(h) \/ Misses(h) \/ GoesOn(h)

\* One handler moves at a time.
OneMoves ==
    \A x, y \in Handlers :
        handler'[x] # handler[x] /\ handler'[y] # handler[y] => x = y

Summary == /\ \A o \in Orders : RowStep(o)
           /\ \A h \in Handlers : HandlerStep(h)
           /\ OneMoves

LEMMA OneHandlerSummary ==
    ASSUME NEW h \in Handlers, OthersSame(h), HandlerStep(h),
           \/ UNCHANGED orders
           \/ OrderOf(h) \in Orders /\ RowsSame(OrderOf(h)) /\ RowStep(OrderOf(h))
    PROVE  Summary
<1>1. \A o \in Orders : RowStep(o)
  BY DEF RowStep, RowsSame
<1>2. \A x \in Handlers : HandlerStep(x)
  BY DEF HandlerStep, OthersSame
<1>3. OneMoves
  BY DEF OneMoves, OthersSame
<1>4. QED BY <1>1, <1>2, <1>3 DEF Summary

\* The UPDATE that ends a refund ends it, or misses the row.
LEMMA EndSummary ==
    ASSUME TypeOK, NEW h \in Handlers, NEW row,
           handler[h].pc \in {"restore", "record", "failed"}, EndRefund(h, row),
           Finish(h) \/ Goto(h, "audit"),
           row.status # "REFUNDING",
           At(h, "record") <=> row.status \in Reversed,
           At(h, "record") => /\ row.status = FinalStatus(handler[h].amount)
                              /\ row.refund_amount = handler[h].amount
    PROVE  Summary
<1>1. ~At(h, "idle") /\ handler[h].pc \in LockedPCs
  BY DEF At, LockedPCs
<1>2. "audit" \in PCs /\ "audit" \notin LockedPCs /\ "idle" \notin LockedPCs
  BY DEF PCs, LockedPCs
<1>3. handler'[h].pc \notin LockedPCs /\ OthersSame(h)
  BY <1>2, HandlerEffect, IdleOK
<1>4. OrderOf(h) \in Orders /\ RowOf(h) = orders[OrderOf(h)]
  BY <1>1, HandlerFacts
<1>5. CASE orders[OrderOf(h)].status = "REFUNDING"
  <2>1. SetRow(h, row)
    BY <1>4, <1>5 DEF EndRefund, IsRefunding
  <2>2. orders'[OrderOf(h)] = row /\ RowsSame(OrderOf(h))
    BY <1>1, <2>1, RowEffect
  <2>3. Ends(h)
    BY <1>3, <1>5, <2>2 DEF Ends
  <2>4. QED
    BY <1>3, <1>4, <2>2, <2>3, OneHandlerSummary DEF RowStep, HandlerStep
<1>6. CASE orders[OrderOf(h)].status # "REFUNDING"
  <2>1. UNCHANGED orders
    BY <1>4, <1>6 DEF EndRefund, IsRefunding
  <2>2. Misses(h)
    BY <1>3, <1>6 DEF Misses
  <2>3. QED BY <1>3, <2>1, <2>2, OneHandlerSummary DEF HandlerStep
<1>7. QED BY <1>5, <1>6

LEMMA ProgressSummary ==
    ASSUME TypeOK, NEW h \in Handlers,
           Progress(h) \/ DbError(h) \/ Interrupt(h)
    PROVE  Summary
<1> USE DEF platformVars, gatewayVars
<1>a. LockedPCs \subseteq PCs
  BY DEF PCs
<1>b. ASSUME UNCHANGED orders, NEW pc \in LockedPCs, Goto(h, pc),
             handler[h].pc \in LockedPCs,
             pc \notin {"deduct", "deduct_answer", "rollback_answer"},
             pc = "record" => GatewayOk(h),
             pc \in {"gateway", "gateway_answer", "rollback", "record"} =>
               Deducted(h) \/ handler[h].plan = 0,
             At(h, "record") => OrderOf(h) \in history'.unrecorded
      PROVE  Summary
  <2>1. handler'[h].pc = pc /\ handler'[h].at = handler[h].at
        /\ SamePlan(h) /\ OthersSame(h)
    BY <1>a, <1>b, HandlerEffect
  <2>2. GoesOn(h)
    BY <1>b, <2>1 DEF GoesOn
  <2>3. QED BY <1>b, <2>1, <2>2, OneHandlerSummary DEF HandlerStep
<1>c. ASSUME UNCHANGED orders, Finish(h), handler[h].pc \notin LockedPCs
      PROVE  Summary
  BY <1>c, HandlerEffect, IdleOK, OneHandlerSummary DEF HandlerStep, LockedPCs
<1>d. ASSUME ~At(h, "idle")
      PROVE  /\ RowOf(h) \in Row(Time, Int) /\ RowOf(h) = orders[OrderOf(h)]
             /\ OrderOf(h) \in Orders /\ now \in Time
             /\ handler[h] \in HandlerState
  BY <1>d, HandlerFacts
<1>1. CASE MarkRefundRequested(h)
  <2>1. ~At(h, "idle") /\ handler[h].pc \notin LockedPCs
    BY <1>1 DEF MarkRefundRequested, At, LockedPCs
  <2>2. handler'[h] = Idle /\ OthersSame(h)
    BY <1>1, HandlerEffect DEF MarkRefundRequested
  <2>3. HandlerStep(h)
    BY <2>1, <2>2, IdleOK DEF HandlerStep, LockedPCs
  <2>4. CASE UNCHANGED orders
    BY <2>2, <2>3, <2>4, OneHandlerSummary
  <2>5. CASE /\ RowOf(h).status = "COMPLETED"
             /\ SetRow(h, RefundRequestedRow(RowOf(h), handler[h].amount, now))
    <3>1. RefundRequestedRow(RowOf(h), handler[h].amount, now).status = "REFUND_REQUESTED"
      BY <1>d, <2>1 DEF RefundRequestedRow, Row
    <3>2. /\ orders'[OrderOf(h)].status = "REFUND_REQUESTED"
          /\ RowsSame(OrderOf(h))
      BY <2>1, <2>5, <3>1, RowEffect
    <3>3. RowStep(OrderOf(h))
      BY <1>d, <2>1, <2>5, <3>2 DEF RowStep
    <3>4. QED BY <1>d, <2>1, <2>2, <2>3, <3>2, <3>3, OneHandlerSummary
  <2>6. QED BY <1>1, <2>4, <2>5 DEF MarkRefundRequested, IsRefundRequestable
<1>2. CASE MarkRefunding(h)
  <2>1. ~At(h, "idle")
    BY <1>2 DEF MarkRefunding, At
  <2>2. WithStatus(RowOf(h), "REFUNDING", now).status = "REFUNDING"
    BY <1>d, <2>1 DEF WithStatus, Row
  <2>3. orders'[OrderOf(h)].status = "REFUNDING" /\ RowsSame(OrderOf(h))
    BY <1>2, <2>1, <2>2, RowEffect DEF MarkRefunding, RefundingRow
  <2>4. handler'[h].pc = "deduct" /\ SamePlan(h) /\ OthersSame(h)
    BY <1>2, <1>a, HandlerEffect DEF MarkRefunding, LockedPCs
  <2>5. Takes(h)
    BY <1>2, <2>3, <2>4 DEF MarkRefunding, Takes
  <2>6. QED
    BY <1>d, <2>1, <2>3, <2>4, <2>5, OneHandlerSummary DEF RowStep, HandlerStep
<1>3. CASE MarkRefundingRefused(h)
  BY <1>3, <1>c DEF MarkRefundingRefused, At, LockedPCs
<1>4. ASSUME NEW kind \in {"subtract", "add"}, UNCHANGED orders, AdjustBalance(h, kind),
             IF kind = "subtract" THEN SubtractBalance(h) ELSE AddBalance(h)
      PROVE  Summary
  <2>1. /\ handler'[h].pc = IF kind = "subtract" THEN "deduct_answer"
                            ELSE "rollback_answer"
        /\ SamePlan(h) /\ OthersSame(h)
    BY <1>4, HandlerEffect
  <2>2. handler[h].pc = IF kind = "subtract" THEN "deduct" ELSE "rollback"
    BY <1>4 DEF SubtractBalance, AddBalance, At
  <2>3. GoesOn(h)
    BY <1>4, <2>1, <2>2 DEF GoesOn, LockedPCs, At
  <2>4. QED BY <1>4, <2>1, <2>3, OneHandlerSummary DEF HandlerStep
<1>5. CASE SubtractBalance(h)
  BY <1>4, <1>5 DEF SubtractBalance
<1>6. CASE AddBalance(h)
  BY <1>4, <1>6 DEF AddBalance
<1>7. CASE NothingToDeduct(h)
  BY <1>b, <1>7 DEF NothingToDeduct, At, LockedPCs
<1>8. CASE DeductionOk(h)
  <2>1. Deducted(h) \/ handler[h].plan = 0
    BY <1>8, <1>d
       DEF DeductionOk, BalanceAdjusted, Deducted, Deducting, DeductionKey, At,
           HandlerState
  <2>2. QED BY <1>b, <1>8, <2>1 DEF DeductionOk, At, LockedPCs
<1>9. CASE DeductionError(h)
  BY <1>b, <1>9 DEF DeductionError, At, LockedPCs
<1>g. handler[h].pc \in {"gateway", "gateway_answer"} =>
        Deducted(h) \/ handler[h].plan = 0
  BY <1>d DEF Deducted, Deducting, At, HandlerState
<1>10. CASE AskGateway(h)
  BY <1>b, <1>g, <1>10 DEF AskGateway, At, LockedPCs
<1>11. CASE GatewayOk(h)
  <2>1. UNCHANGED orders /\ Goto(h, "record") /\ At(h, "gateway_answer")
    BY <1>11 DEF GatewayOk
  <2>2. QED BY <1>b, <1>g, <1>11, <2>1 DEF At, LockedPCs
<1>12. CASE GatewayError(h)
  <2>1. /\ UNCHANGED orders /\ handler[h].pc \in {"gateway", "gateway_answer"}
        /\ Goto(h, "rollback") \/ Goto(h, "restore")
    BY <1>12 DEF GatewayError
  <2>2. QED BY <1>b, <1>g, <2>1 DEF At, LockedPCs
<1>13. CASE RollbackOk(h)
  BY <1>b, <1>13 DEF RollbackOk, At, LockedPCs
<1>14. CASE RollbackError(h)
  BY <1>b, <1>14 DEF RollbackError, At, LockedPCs
<1>15. CASE Restore(h)
  <2>1. At(h, "restore")
    BY <1>15 DEF Restore
  <2>2. WithStatus(RowOf(h), RestoreStatus(handler[h].seen), now).status
          = RestoreStatus(handler[h].seen)
    BY <1>d, <2>1 DEF WithStatus, Row, At
  <2>3. QED
    BY <1>15, <2>1, <2>2, EndSummary
       DEF Restore, RestoredRow, RestoreStatus, Reversed, At
<1>16. CASE MarkRefunded(h)
  <2> DEFINE row == RefundedRow(RowOf(h), FinalStatus(handler[h].amount),
                                handler[h].amount, now)
  <2>1. At(h, "record") /\ EndRefund(h, row) /\ Goto(h, "audit")
    BY <1>16 DEF MarkRefunded
  <2>2. /\ row.status = FinalStatus(handler[h].amount)
        /\ row.refund_amount = handler[h].amount
    BY <1>d, <2>1 DEF RefundedRow, Row, At
  <2> HIDE DEF row
  <2>3. row.status \in Reversed /\ row.status # "REFUNDING"
    BY <2>2 DEF FinalStatus, Reversed
  <2>4. QED BY <2>1, <2>2, <2>3, EndSummary DEF At
<1>17. CASE MarkRefundFailed(h)
  <2>1. At(h, "failed")
    BY <1>17 DEF MarkRefundFailed
  <2>2. WithStatus(RowOf(h), "REFUND_FAILED", now).status = "REFUND_FAILED"
    BY <1>d, <2>1 DEF WithStatus, Row, At
  <2>3. QED
    BY <1>17, <2>1, <2>2, EndSummary
       DEF MarkRefundFailed, RefundFailedRow, Reversed, At
<1>r. CASE AuditRefund(h)
  BY <1>c, <1>r DEF AuditRefund, At, LockedPCs
<1>l. CASE LateRefundFailed(h)
  <2>1. At(h, "audit_failed") /\ handler[h].pc \notin LockedPCs /\ ~At(h, "idle")
    BY <1>l DEF LateRefundFailed, At, LockedPCs
  <2>2. WithStatus(RowOf(h), "REFUND_FAILED", now).status = "REFUND_FAILED"
    BY <1>d, <2>1 DEF WithStatus, Row
  <2>3. Finish(h) /\ HandlerStep(h) /\ OthersSame(h)
    BY <1>l, <2>1, HandlerEffect, IdleOK DEF LateRefundFailed, HandlerStep, LockedPCs
  <2>4. CASE UNCHANGED orders
    BY <2>3, <2>4, OneHandlerSummary
  <2>5. CASE /\ IsRefunding(RowOf(h))
             /\ SetRow(h, WithStatus(RowOf(h), "REFUND_FAILED", now))
    <3>1. /\ orders'[OrderOf(h)].status = "REFUND_FAILED" /\ RowsSame(OrderOf(h))
      BY <2>1, <2>2, <2>5, RowEffect
    <3>2. OrderOf(h) \in history'.overtaken
      BY <1>l, <2>5 DEF LateRefundFailed, TypeOK
    <3>3. Overtakes(h)
      BY <1>d, <2>1, <2>5, <3>1, <3>2 DEF Overtakes, IsRefunding
    <3>4. QED BY <1>d, <2>1, <2>3, <3>1, <3>3, OneHandlerSummary DEF RowStep
  <2>6. QED
    BY <1>l, <2>4, <2>5 DEF LateRefundFailed, EndRefund, RefundFailedRow
<1>18. CASE DbError(h)
  <2>1. CASE At(h, "audit")
    <3>1. UNCHANGED orders /\ Goto(h, "audit_failed") /\ handler[h].pc \notin LockedPCs
      BY <1>18, <2>1 DEF DbError, At, LockedPCs
    <3>2. "audit_failed" \in PCs /\ "audit_failed" \notin LockedPCs
      BY DEF PCs, LockedPCs
    <3>3. QED BY <3>1, <3>2, HandlerEffect, OneHandlerSummary DEF HandlerStep
  <2>2. CASE ~At(h, "audit")
    <3>1. /\ UNCHANGED orders /\ Goto(h, "failed")
          /\ handler[h].pc \in {"restore", "record"}
          /\ At(h, "record") => OrderOf(h) \in history'.unrecorded
      BY <1>18, <2>2 DEF DbError, TypeOK, At
    <3>2. QED BY <1>b, <3>1 DEF LockedPCs
  <2>3. QED BY <2>1, <2>2
<1>19. CASE Interrupt(h)
  <2>1. UNCHANGED orders /\ Finish(h)
    BY <1>19 DEF Interrupt
  <2>2. CASE handler[h].pc \notin LockedPCs
    BY <1>c, <2>1, <2>2
  <2>3. CASE handler[h].pc \in LockedPCs
    <3>1. OrderOf(h) \in history'.abandoned
      BY <1>19, <2>3 DEF Interrupt, TypeOK
    <3>2. QED BY <2>1, <3>1, HandlerEffect, OneHandlerSummary DEF HandlerStep
  <2>4. QED BY <2>2, <2>3
<1>20. QED
  BY <1>1, <1>2, <1>3, <1>5, <1>6, <1>7, <1>8, <1>9, <1>10, <1>11, <1>12, <1>13,
     <1>14, <1>15, <1>16, <1>17, <1>18, <1>19, <1>r, <1>l DEF Progress

LEMMA StepSummary == TypeOK /\ [Next]_vars => Summary
<1> USE DEF platformVars, gatewayVars
<1> SUFFICES ASSUME TypeOK, [Next]_vars PROVE Summary
  OBVIOUS
<1>1. ASSUME UNCHANGED <<orders, handler>> PROVE Summary
  BY <1>1 DEF Summary, RowStep, HandlerStep, OneMoves
<1>2. ASSUME NEW h \in Handlers, NEW o \in Orders,
             \/ BeginRefund(h, o)
             \/ \E amount \in RefundAmounts : BeginRequest(h, o, amount)
      PROVE  Summary
  <2>1. PICK state : /\ handler' = [handler EXCEPT ![h] = state]
                     /\ state.pc \in {"request", "lock"}
    <3>1. ASSUME NEW amount \in RefundAmounts, BeginRequest(h, o, amount)
          PROVE  \E state : /\ handler' = [handler EXCEPT ![h] = state]
                            /\ state.pc \in {"request", "lock"}
      <4>1. handler' = [handler EXCEPT ![h] = Target(Idle, "request", o, amount)]
        BY <3>1 DEF BeginRequest, Target
      <4>2. "request" \in PCs /\ amount \in 0..Amount
        BY DEF PCs
      <4>3. Target(Idle, "request", o, amount).pc = "request"
        BY <4>2, IdleOK, NewTarget
      <4>4. QED BY <4>1, <4>3
    <3>2. CASE BeginRefund(h, o)
      <4>1. PICK amount, plan, seen, gateway, try :
              handler' = [handler EXCEPT
                            ![h] = Plan(Idle, "lock", o, try, amount, plan, seen, gateway)]
        BY <3>2 DEF BeginRefund, Plan
      <4>2. Plan(Idle, "lock", o, try, amount, plan, seen, gateway).pc = "lock"
        BY DEF Plan, Idle
      <4>3. QED BY <4>1, <4>2
    <3>3. QED BY <1>2, <3>1, <3>2
  <2>2. handler'[h].pc \in {"request", "lock"} /\ OthersSame(h)
    BY <2>1 DEF TypeOK, OthersSame
  <2>3. At(h, "idle") /\ UNCHANGED orders
    BY <1>2 DEF BeginRefund, BeginRequest
  <2>4. QED BY <2>2, <2>3, OneHandlerSummary DEF HandlerStep, At, LockedPCs
<1>3. CASE /\ ~\E h \in Handlers : Progress(h) \/ DbError(h) \/ Interrupt(h)
           /\ ~\E h \in Handlers, o \in Orders :
                \/ BeginRefund(h, o)
                \/ \E amount \in RefundAmounts : BeginRequest(h, o, amount)
  BY <1>1, <1>3 DEF Next, vars, PlatformApplies, GatewayRefunds, Tick
<1>4. QED BY <1>2, <1>3, ProgressSummary

\* What is remembered is never forgotten, and a key the platform recorded, a
\* refund the gateway made, stay.
Grows ==
    /\ history.abandoned \subseteq history'.abandoned
    /\ history.unrecorded \subseteq history'.unrecorded
    /\ history.overtaken \subseteq history'.overtaken
    /\ history.collided \subseteq history'.collided
    /\ history.keys \subseteq history'.keys
    /\ applied \subseteq applied' /\ returned \subseteq returned'
    /\ \/ history'.confirmed = history.confirmed
       \/ \E h \in Handlers :
            /\ GatewayOk(h)
            /\ history'.confirmed = history.confirmed \cup {RefundOf(h)}

LEMMA MemoryGrows == TypeOK /\ [Next]_vars => Grows
<1> USE DEF platformVars, gatewayVars
<1> SUFFICES ASSUME TypeOK, [Next]_vars PROVE Grows
  OBVIOUS
<1>0. HistoryOK
  BY DEF TypeOK, HistoryOK
<1>a. ASSUME UNCHANGED history, applied \subseteq applied', returned \subseteq returned'
      PROVE  Grows
  BY <1>a DEF Grows
<1>b. ASSUME NEW h \in Handlers, NEW kind \in {"subtract", "add"},
             AdjustBalance(h, kind), UNCHANGED <<applied, returned>>
      PROVE  Grows
  BY <1>0, <1>b DEF Grows, AdjustBalance, HistoryOK
<1>c. ASSUME NEW h \in Handlers, DbError(h) \/ Interrupt(h) PROVE Grows
  BY <1>0, <1>c DEF Grows, DbError, Interrupt, HistoryOK
<1>d. ASSUME NEW h \in Handlers, GatewayOk(h) PROVE Grows
  BY <1>0, <1>d DEF Grows, GatewayOk, HistoryOK
<1>l. ASSUME NEW h \in Handlers, LateRefundFailed(h) PROVE Grows
  BY <1>0, <1>l DEF Grows, LateRefundFailed, EndRefund, HistoryOK
<1>1. ASSUME NEW h \in Handlers, Progress(h) PROVE Grows
  <2>1. CASE SubtractBalance(h)
    BY <1>b, <2>1 DEF SubtractBalance
  <2>2. CASE AddBalance(h)
    BY <1>b, <2>2 DEF AddBalance
  <2>3. CASE MarkRefundRequested(h) \/ MarkRefunding(h) \/ MarkRefundingRefused(h)
    BY <1>a, <2>3 DEF MarkRefundRequested, MarkRefunding, MarkRefundingRefused
  <2>4. CASE \/ NothingToDeduct(h) \/ DeductionOk(h) \/ DeductionError(h)
             \/ AskGateway(h) \/ GatewayError(h)
    BY <1>a, <2>4
       DEF NothingToDeduct, DeductionOk, DeductionError, AskGateway, GatewayError
  <2>5. CASE \/ RollbackOk(h) \/ RollbackError(h) \/ Restore(h)
             \/ MarkRefunded(h) \/ MarkRefundFailed(h) \/ AuditRefund(h)
    BY <1>a, <2>5
       DEF RollbackOk, RollbackError, Restore, MarkRefunded, MarkRefundFailed,
           AuditRefund, EndRefund
  <2>6. QED BY <1>1, <1>d, <1>l, <2>1, <2>2, <2>3, <2>4, <2>5 DEF Progress
<1>2. ASSUME NEW h \in Handlers, NEW o \in Orders,
             \/ BeginRefund(h, o)
             \/ \E amount \in RefundAmounts : BeginRequest(h, o, amount)
      PROVE  Grows
  BY <1>2, <1>a DEF BeginRefund, BeginRequest
<1>3. ASSUME NEW call \in calls, PlatformApplies(call) PROVE Grows
  BY <1>3, <1>a DEF PlatformApplies
<1>4. ASSUME NEW refund \in asked, GatewayRefunds(refund) PROVE Grows
  BY <1>4, <1>a DEF GatewayRefunds
<1>5. CASE Tick \/ UNCHANGED vars
  BY <1>5, <1>a DEF Tick, vars
<1>6. QED BY <1>1, <1>2, <1>3, <1>4, <1>5, <1>c DEF Next

-----------------------------------------------------------------------------
(***************************************************************************)
(* The lock.  Only the conditional UPDATE to REFUNDING takes it, from a    *)
(* row that nobody holds, and every path out of a refund gives it up.      *)
(***************************************************************************)

\* A handler that holds the lock after a step held it before or took it now.
LEMMA LockOrigin ==
    ASSUME Summary, NEW h \in Handlers, handler'[h].pc \in LockedPCs
    PROVE  /\ Takes(h) \/ handler[h].pc \in LockedPCs
           /\ ~Ends(h) /\ ~Misses(h)
           /\ handler'[h].order = OrderOf(h)
           /\ Takes(h) \/ handler'[h] = handler[h] \/ GoesOn(h)
<1>1. HandlerStep(h)
  BY DEF Summary
<1>2. handler'[h] # Idle /\ ~Ends(h) /\ ~Misses(h)
  BY IdleOK DEF LockedPCs, Ends, Misses
<1>3. Takes(h) \/ handler'[h] = handler[h] \/ GoesOn(h)
  BY <1>1, <1>2 DEF HandlerStep
<1>4. QED BY <1>2, <1>3 DEF Takes, GoesOn, SamePlan, OrderOf

LEMMA LockInit == Init => LockInv
<1>1. DeliveredRow.status = "COMPLETED"
  BY DEF DeliveredRow, PendingRow
<1>2. Init => /\ \A h \in Handlers : handler[h].pc \notin LockedPCs
              /\ \A o \in Orders : orders[o].status = "COMPLETED"
  BY <1>1, IdleOK DEF Init, LockedPCs
<1>3. QED
  BY <1>2 DEF LockInv, SingleRefunder, RefundingHasHolder, HoldsLock

LEMMA LockStep == TypeOK /\ LockInv /\ Summary /\ Grows => LockInv'
<1> SUFFICES ASSUME TypeOK, LockInv, Summary, Grows PROVE LockInv'
  OBVIOUS
<1>h. ASSUME NEW h \in Handlers, handler[h].pc \in LockedPCs
      PROVE  /\ OrderOf(h) \in Orders
             /\ \/ orders[OrderOf(h)].status = "REFUNDING"
                \/ OrderOf(h) \in history'.overtaken
  BY <1>h DEF LockInv, RowOf, TypeOK, OrderOf, LockedPCs, Grows
<1>t. ASSUME NEW h \in Handlers, Takes(h)
      PROVE  OrderOf(h) \in Orders /\ orders[OrderOf(h)].status # "REFUNDING"
             /\ handler[h].pc \notin LockedPCs /\ handler'[h] # handler[h]
  BY <1>t DEF Takes, TypeOK, At, OrderOf, RowOf, IsRefundable, LockedPCs
<1>e. ASSUME NEW h \in Handlers, Ends(h)
      PROVE  handler[h].pc \in LockedPCs
  BY <1>e DEF Ends, LockedPCs
<1>1. ASSUME NEW h \in Handlers, handler'[h].pc \in LockedPCs,
             handler'[h].order \notin history'.overtaken
      PROVE  orders'[handler'[h].order].status = "REFUNDING"
  <2> DEFINE o == OrderOf(h)
  <2>1. (Takes(h) \/ handler[h].pc \in LockedPCs) /\ ~Ends(h) /\ handler'[h].order = o
    BY <1>1, LockOrigin
  <2>2. CASE Takes(h)
    BY <2>1, <2>2 DEF Takes
  <2>3. CASE handler[h].pc \in LockedPCs
    <3>1. /\ RowStep(o) /\ o \in Orders /\ orders[o].status = "REFUNDING"
          /\ o \notin history.overtaken
      BY <1>1, <1>h, <2>1, <2>3 DEF Summary, Grows
    <3>2. ASSUME NEW g \in Handlers, OrderOf(g) = o
          PROVE  ~Takes(g) /\ ~Ends(g) /\ ~Overtakes(g)
      <4>1. ~Takes(g)
        BY <1>t, <3>1, <3>2
      <4>2. Ends(g) => g = h
        BY <1>e, <2>3, <3>1, <3>2 DEF LockInv, SingleRefunder, HoldsLock
      <4>3. ~Overtakes(g)
        BY <1>1, <2>1, <3>2 DEF Overtakes
      <4>4. QED BY <4>1, <4>2, <4>3, <2>1
    <3>3. orders'[o] = orders[o]
      BY <3>1, <3>2 DEF RowStep
    <3>4. QED BY <2>1, <3>1, <3>3
  <2>4. QED BY <2>1, <2>2, <2>3
<1>2. ASSUME NEW x \in Handlers, NEW y \in Handlers,
             handler'[x].pc \in LockedPCs, handler'[y].pc \in LockedPCs,
             handler'[x].order = handler'[y].order,
             handler'[x].order \notin history'.overtaken
      PROVE  x = y
  <2>1. /\ Takes(x) \/ handler[x].pc \in LockedPCs
        /\ Takes(y) \/ handler[y].pc \in LockedPCs
        /\ OrderOf(x) = OrderOf(y)
        /\ OrderOf(x) \notin history'.overtaken /\ OrderOf(x) \notin history.overtaken
    BY <1>2, LockOrigin DEF Grows
  <2>2. CASE Takes(x) /\ Takes(y)
    BY <1>t, <2>2 DEF Summary, OneMoves
  <2>3. CASE handler[x].pc \in LockedPCs /\ handler[y].pc \in LockedPCs
    BY <1>h, <2>1, <2>3 DEF LockInv, SingleRefunder, HoldsLock
  <2>4. QED BY <1>h, <1>t, <2>1, <2>2, <2>3
<1>3. ASSUME NEW o \in Orders, orders'[o].status = "REFUNDING"
      PROVE  \/ o \in history'.abandoned
             \/ \E h \in Handlers : handler'[h].pc \in LockedPCs /\ handler'[h].order = o
  <2>1. ASSUME NEW h \in Handlers, Takes(h), OrderOf(h) = o
        PROVE  handler'[h].pc \in LockedPCs /\ handler'[h].order = o
    BY <2>1 DEF Takes, SamePlan, OrderOf, LockedPCs
  <2>2. CASE orders'[o] = orders[o]
    <3>1. \/ o \in history.abandoned
          \/ \E h \in Handlers : handler[h].pc \in LockedPCs /\ OrderOf(h) = o
      BY <1>3, <2>2 DEF LockInv, RefundingHasHolder, HoldsLock
    <3>2. ASSUME NEW h \in Handlers, handler[h].pc \in LockedPCs, OrderOf(h) = o
          PROVE  \/ o \in history'.abandoned
                 \/ handler'[h].pc \in LockedPCs /\ handler'[h].order = o
      <4>1. HandlerStep(h) /\ ~Takes(h) /\ ~Ends(h) /\ ~Misses(h)
        BY <1>3, <1>t, <2>2, <3>2 DEF Summary, Ends, Misses
      <4>2. QED
        BY <3>2, <4>1 DEF HandlerStep, GoesOn, SamePlan, OrderOf
    <3>3. QED BY <3>1, <3>2 DEF Grows
  <2>3. RowStep(o)
    BY DEF Summary
  <2>4. QED BY <1>3, <2>1, <2>2, <2>3 DEF RowStep, Ends, Overtakes
<1>4. QED
  BY <1>1, <1>2, <1>3
     DEF LockInv, SingleRefunder, RefundingHasHolder, HoldsLock, RowOf, OrderOf

-----------------------------------------------------------------------------
(***************************************************************************)
(* Refunded once.  A confirmed refund leaves the row REFUNDING in the hands *)
(* of the handler that was told, and from there only to a reversed status, *)
(* from which no handler can take the lock again.                          *)
(***************************************************************************)

\* A reversed row is as it was: it can be neither requested, locked nor ended.
LEMMA ReversedStays ==
    ASSUME TypeOK, LockInv, Summary, NEW o \in Orders, orders[o].status \in Reversed
    PROVE  /\ orders'[o] = orders[o]
           /\ \A h \in Handlers : HoldsLock(h, o) => o \in history.overtaken
<1>1. orders[o].status \notin {"COMPLETED", "REFUNDING"} /\ ~IsRefundable(orders[o])
  BY DEF Reversed, IsRefundable
<1>2. \A h \in Handlers : HoldsLock(h, o) => o \in history.overtaken
  BY <1>1 DEF LockInv, HoldsLock, RowOf, OrderOf
<1>3. \A h \in Handlers : OrderOf(h) = o => ~Takes(h) /\ ~Ends(h) /\ ~Overtakes(h)
  BY <1>1 DEF Takes, Ends, Overtakes, RowOf
<1>4. QED BY <1>1, <1>2, <1>3 DEF Summary, RowStep

\* The handler whose refund is confirmed holds the lock, before and after.
LEMMA ConfirmedNow ==
    ASSUME TypeOK, NEW h \in Handlers, GatewayOk(h)
    PROVE  /\ handler[h].pc = "gateway_answer" /\ HoldsLock(h, OrderOf(h))
           /\ OrderOf(h) \in Orders /\ RefundOf(h).order = OrderOf(h)
           /\ RefundOf(h) \in returned'
           /\ RefundOf(h) \in history'.confirmed
           /\ handler'[h].pc = "record" /\ RefundOf(h)' = RefundOf(h)
           /\ handler'[h].order = OrderOf(h) /\ UNCHANGED <<orders, returned>>
<1>1. /\ handler[h].pc = "gateway_answer" /\ Goto(h, "record")
      /\ RefundOf(h) \in returned /\ UNCHANGED <<orders, returned>>
      /\ history' = [history EXCEPT !.confirmed = @ \cup {RefundOf(h)}]
  BY DEF GatewayOk, At, gatewayVars
<1>2. "record" \in PCs /\ "record" \in LockedPCs /\ "gateway_answer" \in LockedPCs
      /\ "gateway_answer" # "idle"
  BY DEF PCs, LockedPCs
<1>3. handler'[h].pc = "record" /\ SamePlan(h)
  BY <1>1, <1>2, HandlerEffect
<1>4. OrderOf(h) \in Orders
  BY <1>1, <1>2, HandlerFacts DEF At
<1>5. RefundOf(h) \in history'.confirmed
  BY <1>1 DEF TypeOK
<1>6. RefundOf(h)' = RefundOf(h) /\ RefundOf(h).order = OrderOf(h)
  BY <1>3 DEF RefundOf, SamePlan, OrderOf
<1>7. HoldsLock(h, OrderOf(h)) /\ handler'[h].order = OrderOf(h)
  BY <1>1, <1>2, <1>3 DEF HoldsLock, SamePlan, OrderOf
<1>8. QED BY <1>1, <1>3, <1>4, <1>5, <1>6, <1>7

LEMMA ConfirmedInit == Init => ConfirmedInv
<1>1. Init => history.confirmed = {} /\ \A h \in Handlers : handler[h].pc = "idle"
  BY IdleOK DEF Init
<1>2. QED BY <1>1 DEF ConfirmedInv, RefundedOnce, At

LEMMA ConfirmedStep ==
    TypeOK /\ LockInv /\ LockInv' /\ ConfirmedInv /\ Summary /\ Grows => ConfirmedInv'
<1> SUFFICES ASSUME TypeOK, LockInv, LockInv', ConfirmedInv, Summary, Grows
             PROVE  ConfirmedInv'
  OBVIOUS
<1>o. \A r \in history.confirmed : r.order \in Orders
  BY DEF TypeOK, AskSet
<1>1. ASSUME NEW h \in Handlers, handler'[h].pc = "record"
      PROVE  RefundOf(h)' \in history'.confirmed \cap returned'
  <2>1. ~Takes(h) /\ (handler'[h] = handler[h] \/ GoesOn(h))
    BY <1>1, LockOrigin DEF Takes, LockedPCs
  <2>3. CASE handler'[h] = handler[h]
    <3>1. RefundOf(h) \in history.confirmed \cap returned
      BY <1>1, <2>3 DEF ConfirmedInv, At
    <3>2. RefundOf(h)' = RefundOf(h)
      BY <2>3 DEF RefundOf, OrderOf
    <3>3. QED BY <3>1, <3>2 DEF Grows
  <2>4. CASE GoesOn(h)
    BY <1>1, <2>4, ConfirmedNow DEF GoesOn
  <2>5. QED BY <2>1, <2>3, <2>4
<1>2. ASSUME NEW r \in history.confirmed
      PROVE  \/ r.order \in history'.unrecorded \cup history'.overtaken
             \/ orders'[r.order].status \in Reversed
             \/ /\ orders'[r.order].status = "REFUNDING"
                /\ \A h \in Handlers : HoldsLock(h, r.order)' =>
                     handler'[h].pc = "record" /\ RefundOf(h)' = r
  <2> DEFINE o == r.order
  <2>0. o \in Orders /\ RowStep(o)
    BY <1>o DEF Summary
  <2>1. CASE o \in history.unrecorded \cup history.overtaken
    BY <2>1 DEF Grows
  <2>2. CASE orders[o].status \in Reversed
    BY <2>0, <2>2, ReversedStays
  <2>3. CASE /\ orders[o].status = "REFUNDING"
             /\ \A h \in Handlers : HoldsLock(h, o) => At(h, "record") /\ RefundOf(h) = r
             /\ o \notin history'.unrecorded \cup history'.overtaken
    <3>1. ASSUME NEW g \in Handlers, OrderOf(g) = o PROVE ~Takes(g) /\ ~Overtakes(g)
      BY <2>3, <3>1 DEF Takes, Overtakes, RowOf, IsRefundable
    <3>2. ASSUME NEW g \in Handlers, OrderOf(g) = o, Ends(g)
          PROVE  orders'[o].status \in Reversed
      <4>1. HoldsLock(g, o)
        BY <3>2 DEF Ends, HoldsLock, LockedPCs
      <4>2. QED BY <2>3, <3>2, <4>1 DEF Ends
    <3>3. ASSUME NEW h \in Handlers, HoldsLock(h, o)'
          PROVE  handler'[h].pc = "record" /\ RefundOf(h)' = r
      <4>1. /\ handler'[h].pc \in LockedPCs /\ handler'[h].order = o
        BY <3>3 DEF HoldsLock, OrderOf
      <4>2. /\ Takes(h) \/ handler[h].pc \in LockedPCs
            /\ ~Ends(h) /\ OrderOf(h) = o
        BY <4>1, LockOrigin
      <4>3. At(h, "record") /\ RefundOf(h) = r /\ ~Takes(h)
        BY <2>3, <3>1, <4>2 DEF HoldsLock
      <4>4. ~GoesOn(h)
        BY <2>3, <4>2, <4>3 DEF GoesOn
      <4>5. handler'[h] = handler[h]
        BY <4>1, <4>3, <4>4, LockOrigin
      <4>6. QED BY <4>3, <4>5 DEF At, RefundOf, OrderOf
    <3>4. CASE orders'[o] = orders[o]
      BY <2>3, <3>3, <3>4
    <3>5. orders[o].status # "COMPLETED"
      BY <2>3
    <3>6. QED BY <2>0, <3>1, <3>2, <3>4, <3>5 DEF RowStep
  <2>4. QED BY <2>1, <2>2, <2>3 DEF ConfirmedInv
<1>3. ASSUME NEW h \in Handlers, GatewayOk(h),
             history'.confirmed = history.confirmed \cup {RefundOf(h)}
      PROVE  ConfirmedInv'
  <2> DEFINE r == RefundOf(h)
             o == OrderOf(h)
  <2>0. /\ handler[h].pc = "gateway_answer" /\ HoldsLock(h, o)
        /\ o \in Orders /\ r.order = o
        /\ handler'[h].pc = "record" /\ RefundOf(h)' = r
        /\ handler'[h].order = o /\ UNCHANGED <<orders, returned>>
    BY <1>3, ConfirmedNow
  <2>1. \/ o \in history'.overtaken
        \/ /\ orders[o].status = "REFUNDING" /\ orders'[o].status = "REFUNDING"
           /\ o \notin history.overtaken
    BY <2>0 DEF LockInv, HoldsLock, RowOf, Grows
  <2>2. ASSUME NEW y \in Handlers, handler'[y].pc \in LockedPCs, handler'[y].order = o,
               o \notin history'.overtaken
        PROVE  y = h
    BY <2>0, <2>2 DEF LockInv, SingleRefunder, HoldsLock, OrderOf, LockedPCs
  <2>3. ASSUME NEW s \in history.confirmed, s.order = o
        PROVE  o \in history'.unrecorded \cup history'.overtaken
    <3>1. CASE o \notin history'.overtaken
      <4>1. orders[o].status \notin Reversed /\ ~At(h, "record")
        BY <2>0, <2>1, <3>1 DEF Reversed, At
      <4>2. o \in history.unrecorded \cup history.overtaken
        BY <2>0, <2>3, <4>1 DEF ConfirmedInv
      <4>3. QED BY <4>2 DEF Grows
    <3>2. QED BY <3>1
  <2>4. RefundedOnce'
    <3>1. ASSUME NEW a \in history'.confirmed, NEW b \in history'.confirmed,
                 a.order = b.order
          PROVE  a = b \/ a.order \in history'.unrecorded \cup history'.overtaken
      <4>1. CASE a \in history.confirmed /\ b \in history.confirmed
        <5>1. a = b \/ a.order \in history.unrecorded \cup history.overtaken
          BY <3>1, <4>1 DEF ConfirmedInv, RefundedOnce
        <5>2. QED BY <5>1 DEF Grows
      <4>2. CASE a = r \/ b = r
        BY <1>3, <2>0, <2>3, <3>1, <4>2
      <4>3. QED BY <1>3, <4>1, <4>2
    <3>2. QED BY <3>1 DEF RefundedOnce
  <2>5. ASSUME NEW s \in history'.confirmed
        PROVE  \/ s.order \in history'.unrecorded \cup history'.overtaken
               \/ orders'[s.order].status \in Reversed
               \/ /\ orders'[s.order].status = "REFUNDING"
                  /\ \A y \in Handlers : HoldsLock(y, s.order)' =>
                       handler'[y].pc = "record" /\ RefundOf(y)' = s
    <3>1. CASE s = r /\ o \notin history'.overtaken
      <4>1. \A y \in Handlers : HoldsLock(y, s.order)' => y = h
        BY <2>0, <2>2, <3>1 DEF HoldsLock, OrderOf
      <4>2. QED BY <2>0, <2>1, <3>1, <4>1
    <3>2. QED BY <1>2, <1>3, <2>0, <3>1
  <2>6. QED BY <1>1, <2>4, <2>5 DEF ConfirmedInv, At
<1>4. CASE history'.confirmed = history.confirmed
  <2>1. RefundedOnce'
    BY <1>4 DEF ConfirmedInv, RefundedOnce, Grows
  <2>2. QED BY <1>1, <1>2, <1>4, <2>1 DEF ConfirmedInv, At
<1>5. QED BY <1>3, <1>4 DEF Grows

-----------------------------------------------------------------------------
(***************************************************************************)
(* The levels.  What was taken must cover all the rollbacks on their way   *)
(* and all the deductions that handlers count on: a sum over two sets of   *)
(* claims.  A function that grows by each claim's amount at its second     *)
(* says the same without a sum.  These lemmas are about any such sets.     *)
(***************************************************************************)

Seconds == 0..(MaxNow + 1)

Levels == [Seconds -> Nat]

IsClaim(c) == c.at \in 0..MaxNow /\ c.amount \in Nat

Backed(C, D, T, x) ==
    \E f, g \in Levels :
        LaidOut(f, C) /\ LaidOut(g, D) /\ f[MaxNow + 1] + g[MaxNow + 1] + x <= T

\* The same with levels that stay within what was taken, as Covers has it.
BackedWithin(C, D, T, x) ==
    \E f, g \in [0..(MaxNow + 1) -> 0..T] :
        LaidOut(f, C) /\ LaidOut(g, D) /\ f[MaxNow + 1] + g[MaxNow + 1] + x <= T

LEMMA LevelFacts ==
    ASSUME NEW f \in Levels, NEW C, LaidOut(f, C)
    PROVE  /\ \A i \in Seconds : f[i] \in Nat /\ i \in Int /\ f[i] <= f[MaxNow + 1]
           /\ \A i, j \in Seconds : i <= j => f[i] <= f[j]
           /\ MaxNow + 1 \in Seconds /\ f[MaxNow + 1] \in Nat
<1>1. \A i, j \in Seconds : i <= j => f[i] <= f[j]
  BY DEF LaidOut, Seconds
<1>2. MaxNow + 1 \in Seconds /\ \A i \in Seconds : i \in Int /\ i <= MaxNow + 1
  BY DEF Seconds
<1>3. \A i \in Seconds : f[i] \in Nat
  BY DEF Levels
<1>4. QED BY <1>1, <1>2, <1>3

LEMMA BackedIsWithin ==
    ASSUME NEW C, NEW D, NEW T \in Int, NEW x \in Nat
    PROVE  BackedWithin(C, D, T, x) <=> Backed(C, D, T, x)
<1>1. ASSUME BackedWithin(C, D, T, x) PROVE Backed(C, D, T, x)
  <2>1. PICK f \in [Seconds -> 0..T], g \in [Seconds -> 0..T] :
          LaidOut(f, C) /\ LaidOut(g, D) /\ f[MaxNow + 1] + g[MaxNow + 1] + x <= T
    BY <1>1 DEF BackedWithin, Seconds
  <2>2. 0..T \subseteq Nat
    OBVIOUS
  <2>3. f \in Levels /\ g \in Levels
    BY <2>2 DEF Levels
  <2>4. QED BY <2>1, <2>3 DEF Backed
<1>2. ASSUME Backed(C, D, T, x) PROVE BackedWithin(C, D, T, x)
  <2>1. PICK f \in Levels, g \in Levels :
          LaidOut(f, C) /\ LaidOut(g, D) /\ f[MaxNow + 1] + g[MaxNow + 1] + x <= T
    BY <1>2 DEF Backed
  <2>2. f[MaxNow + 1] \in Nat /\ g[MaxNow + 1] \in Nat
    BY <2>1, LevelFacts
  <2>3. f[MaxNow + 1] <= T /\ g[MaxNow + 1] <= T
    BY <2>1, <2>2
  <2>4. \A i \in Seconds : f[i] \in 0..T /\ g[i] \in 0..T
    <3>1. \A i \in Seconds : /\ f[i] \in Nat /\ f[i] <= f[MaxNow + 1]
                             /\ g[i] \in Nat /\ g[i] <= g[MaxNow + 1]
      BY <2>1, LevelFacts
    <3>2. QED BY <2>2, <2>3, <3>1
  <2>5. f \in [Seconds -> 0..T] /\ g \in [Seconds -> 0..T]
    BY <2>4 DEF Levels
  <2>6. QED BY <2>1, <2>5 DEF BackedWithin, Seconds
<1>3. QED BY <1>1, <1>2

\* A claim at a second of its own lifts the levels above it.
LEMMA ClaimAdded ==
    ASSUME NEW C, \A c \in C : IsClaim(c), NEW n, IsClaim(n),
           \A c \in C : c.at # n.at,
           NEW f \in Levels, LaidOut(f, C)
    PROVE  \E g \in Levels :
             LaidOut(g, C \cup {n}) /\ g[MaxNow + 1] = f[MaxNow + 1] + n.amount
<1> DEFINE p == n.amount
           t == n.at
<1>2. p \in Nat /\ t \in 0..MaxNow /\ t \in Seconds /\ t + 1 \in Seconds
  BY DEF IsClaim, Seconds
<1>4. /\ \A i \in Seconds : f[i] \in Nat /\ i \in Int
      /\ \A i, j \in Seconds : i <= j => f[i] <= f[j]
      /\ MaxNow + 1 \in Seconds
  BY LevelFacts
<1>o. (\A c \in C : c.at # t) /\ n.at = t /\ n.amount = p
  OBVIOUS
<1>c. \A c \in C : /\ c.at \in 0..MaxNow /\ c.amount \in Nat
                    /\ c.at \in Seconds /\ c.at + 1 \in Seconds
  BY DEF IsClaim, Seconds
<1>l. \A c \in C : f[c.at] + c.amount <= f[c.at + 1]
  BY DEF LaidOut
<1> HIDE DEF p, t
<1> DEFINE more == [i \in Seconds |-> IF i <= t THEN f[i] ELSE f[i] + p]
<1>7. more \in Levels
  <2>1. \A i \in Seconds : (IF i <= t THEN f[i] ELSE f[i] + p) \in Nat
    BY <1>2, <1>4
  <2>2. QED BY <2>1 DEF Levels
<1>8. \A i, j \in Seconds : i <= j => more[i] <= more[j]
  BY <1>2, <1>4
<1>9. ASSUME NEW c \in C PROVE more[c.at] + c.amount <= more[c.at + 1]
  <2>1. c.at # t /\ f[c.at] + c.amount <= f[c.at + 1]
    BY <1>o, <1>l
  <2>2. CASE c.at < t
    BY <1>2, <1>4, <1>c, <2>1, <2>2
  <2>3. CASE c.at > t
    BY <1>2, <1>4, <1>c, <2>1, <2>3
  <2>4. QED BY <1>2, <1>c, <2>1, <2>2, <2>3
<1>10. more[n.at] + n.amount <= more[n.at + 1]
  <2>1. f[t] <= f[t + 1]
    BY <1>2, <1>4
  <2>2. more[t] = f[t] /\ more[t + 1] = f[t + 1] + p
    BY <1>2
  <2>3. QED BY <1>2, <1>4, <1>o, <2>1, <2>2
<1>11. more[MaxNow + 1] = f[MaxNow + 1] + p
  BY <1>2, <1>4
<1> HIDE DEF more
<1>12. LaidOut(more, C \cup {n})
  BY <1>8, <1>9, <1>10 DEF LaidOut, Seconds
<1>13. QED BY <1>7, <1>11, <1>12 DEF p

\* Without the only claim of its second the levels above it sink.
LEMMA ClaimDropped ==
    ASSUME NEW C, \A c \in C : IsClaim(c), NEW n \in C,
           \A c \in C : c.at = n.at => c = n,
           NEW f \in Levels, LaidOut(f, C)
    PROVE  \E g \in Levels :
             LaidOut(g, C \ {n}) /\ g[MaxNow + 1] = f[MaxNow + 1] - n.amount
<1> DEFINE p == n.amount
           t == n.at
<1>2. p \in Nat /\ t \in 0..MaxNow /\ t \in Seconds /\ t + 1 \in Seconds
  BY DEF IsClaim, Seconds
<1>3. f[t] + p <= f[t + 1]
  BY DEF LaidOut
<1>4. /\ \A i \in Seconds : f[i] \in Nat /\ i \in Int
      /\ \A i, j \in Seconds : i <= j => f[i] <= f[j]
      /\ MaxNow + 1 \in Seconds
  BY LevelFacts
<1>o. \A c \in C \ {n} : c.at # t
  OBVIOUS
<1>c. \A c \in C : /\ c.at \in 0..MaxNow /\ c.amount \in Nat
                    /\ c.at \in Seconds /\ c.at + 1 \in Seconds
  BY DEF IsClaim, Seconds
<1>l. \A c \in C : f[c.at] + c.amount <= f[c.at + 1]
  BY DEF LaidOut
<1>p. n.amount = p
  OBVIOUS
<1> HIDE DEF p, t
<1> DEFINE less == [i \in Seconds |-> IF i <= t THEN f[i] ELSE f[i] - p]
<1>5. \A i \in Seconds : i > t => f[t + 1] <= f[i] /\ f[t] <= f[i] - p
  BY <1>2, <1>3, <1>4
<1>7. less \in Levels
  <2>1. ASSUME NEW i \in Seconds
        PROVE  (IF i <= t THEN f[i] ELSE f[i] - p) \in Nat
    <3>1. CASE i <= t
      BY <1>4, <3>1
    <3>2. CASE i > t
      BY <1>2, <1>4, <1>5, <3>2
    <3>3. QED BY <1>2, <1>4, <3>1, <3>2
  <2>2. QED BY <2>1 DEF Levels
<1>8. \A i, j \in Seconds : i <= j => less[i] <= less[j]
  <2>1. ASSUME NEW i \in Seconds, NEW j \in Seconds, i <= t, t < j
        PROVE  less[i] <= less[j]
    <3>1. f[i] <= f[t] /\ f[t] <= f[j] - p
      BY <1>2, <1>4, <1>5, <2>1
    <3>2. QED BY <1>2, <1>4, <2>1, <3>1
  <2>2. QED BY <1>2, <1>4, <2>1
<1>9. ASSUME NEW c \in C \ {n} PROVE less[c.at] + c.amount <= less[c.at + 1]
  <2>1. c.at # t /\ f[c.at] + c.amount <= f[c.at + 1]
    BY <1>o, <1>l
  <2>2. CASE c.at < t
    BY <1>2, <1>4, <1>c, <2>1, <2>2
  <2>3. CASE c.at > t
    BY <1>2, <1>4, <1>c, <2>1, <2>3
  <2>4. QED BY <1>2, <1>c, <2>1, <2>2, <2>3
<1>10. less[MaxNow + 1] = f[MaxNow + 1] - p
  BY <1>2, <1>4
<1> HIDE DEF less
<1>11. LaidOut(less, C \ {n})
  BY <1>8, <1>9 DEF LaidOut, Seconds
<1>12. QED BY <1>7, <1>10, <1>11, <1>p

\* Something is backed only by a balance that was taken.
LEMMA BackedTaken ==
    ASSUME NEW C, NEW D, NEW T \in Int, NEW x \in Nat, Backed(C, D, T, x)
    PROVE  T >= x
<1>1. PICK f \in Levels, g \in Levels :
        LaidOut(f, C) /\ LaidOut(g, D) /\ f[MaxNow + 1] + g[MaxNow + 1] + x <= T
  BY DEF Backed
<1>2. f[MaxNow + 1] \in Nat /\ g[MaxNow + 1] \in Nat
  BY <1>1, LevelFacts
<1>3. QED BY <1>1, <1>2

\* Fewer claims, a smaller amount or a larger balance are backed too.
LEMMA BackedFewer ==
    ASSUME NEW C, NEW D, NEW T \in Int, NEW x \in Nat, Backed(C, D, T, x),
           NEW C2, NEW D2, NEW T2 \in Int, NEW y \in Nat,
           C2 \subseteq C, D2 \subseteq D, T <= T2, y <= x
    PROVE  Backed(C2, D2, T2, y)
<1>1. PICK f \in Levels, g \in Levels :
        LaidOut(f, C) /\ LaidOut(g, D) /\ f[MaxNow + 1] + g[MaxNow + 1] + x <= T
  BY DEF Backed
<1>2. LaidOut(f, C2) /\ LaidOut(g, D2)
  BY <1>1 DEF LaidOut
<1>3. f[MaxNow + 1] \in Nat /\ g[MaxNow + 1] \in Nat
  BY <1>1, LevelFacts
<1>4. f[MaxNow + 1] + g[MaxNow + 1] + y <= T2
  BY <1>1, <1>3
<1>5. QED BY <1>2, <1>4 DEF Backed

\* The platform takes a deduction: its handler counts on it from then on.
LEMMA BackedDeduct ==
    ASSUME NEW C, NEW D, NEW T \in Int, NEW x \in Nat, Backed(C, D, T, x),
           \A d \in D : IsClaim(d), NEW n, IsClaim(n), \A d \in D : d.at # n.at
    PROVE  Backed(C, D \cup {n}, T + n.amount, x)
<1>1. PICK f \in Levels, g \in Levels :
        LaidOut(f, C) /\ LaidOut(g, D) /\ f[MaxNow + 1] + g[MaxNow + 1] + x <= T
  BY DEF Backed
<1>2. PICK h \in Levels :
        LaidOut(h, D \cup {n}) /\ h[MaxNow + 1] = g[MaxNow + 1] + n.amount
  BY <1>1, ClaimAdded
<1>3. f[MaxNow + 1] \in Nat /\ g[MaxNow + 1] \in Nat /\ n.amount \in Nat
  BY <1>1, LevelFacts DEF IsClaim
<1>4. f[MaxNow + 1] + h[MaxNow + 1] + x <= T + n.amount
  BY <1>1, <1>2, <1>3
<1>5. QED BY <1>1, <1>2, <1>4 DEF Backed

\* A rollback that arrives uses what was set aside for it.
LEMMA BackedReturn ==
    ASSUME NEW C, NEW D, NEW T \in Int, NEW x \in Nat, Backed(C, D, T, x),
           \A c \in C : IsClaim(c), NEW n \in C, \A c \in C : c.at = n.at => c = n
    PROVE  Backed(C \ {n}, D, T - n.amount, x)
<1>1. PICK f \in Levels, g \in Levels :
        LaidOut(f, C) /\ LaidOut(g, D) /\ f[MaxNow + 1] + g[MaxNow + 1] + x <= T
  BY DEF Backed
<1>2. PICK h \in Levels :
        LaidOut(h, C \ {n}) /\ h[MaxNow + 1] = f[MaxNow + 1] - n.amount
  BY <1>1, ClaimDropped
<1>3. f[MaxNow + 1] \in Nat /\ g[MaxNow + 1] \in Nat /\ n.amount \in Nat
  BY <1>1, LevelFacts DEF IsClaim
<1>4. h[MaxNow + 1] + g[MaxNow + 1] + x <= T - n.amount
  BY <1>1, <1>2, <1>3
<1>5. QED BY <1>1, <1>2, <1>4 DEF Backed

\* A handler gives up its deduction: the amount is free for something else.
LEMMA BackedGivenUp ==
    ASSUME NEW C, NEW D, NEW T \in Int, NEW x \in Nat, Backed(C, D, T, x),
           \A d \in D : IsClaim(d), NEW n \in D, \A d \in D : d.at = n.at => d = n
    PROVE  Backed(C, D \ {n}, T, x + n.amount)
<1>1. PICK f \in Levels, g \in Levels :
        LaidOut(f, C) /\ LaidOut(g, D) /\ f[MaxNow + 1] + g[MaxNow + 1] + x <= T
  BY DEF Backed
<1>2. PICK h \in Levels :
        LaidOut(h, D \ {n}) /\ h[MaxNow + 1] = g[MaxNow + 1] - n.amount
  BY <1>1, ClaimDropped
<1>3. f[MaxNow + 1] \in Nat /\ g[MaxNow + 1] \in Nat /\ n.amount \in Nat
  BY <1>1, LevelFacts DEF IsClaim
<1>4. f[MaxNow + 1] + h[MaxNow + 1] + (x + n.amount) <= T
  BY <1>1, <1>2, <1>3
<1>5. QED BY <1>1, <1>2, <1>4 DEF Backed

\* A rollback that is asked for sets its amount aside.
LEMMA BackedAsk ==
    ASSUME NEW C, NEW D, NEW T \in Int, NEW x \in Nat,
           \A c \in C : IsClaim(c), NEW n, IsClaim(n), \A c \in C : c.at # n.at,
           Backed(C, D, T, x + n.amount)
    PROVE  Backed(C \cup {n}, D, T, x)
<1>1. PICK f \in Levels, g \in Levels :
        /\ LaidOut(f, C) /\ LaidOut(g, D)
        /\ f[MaxNow + 1] + g[MaxNow + 1] + (x + n.amount) <= T
  BY DEF Backed
<1>2. PICK h \in Levels :
        LaidOut(h, C \cup {n}) /\ h[MaxNow + 1] = f[MaxNow + 1] + n.amount
  BY <1>1, ClaimAdded
<1>3. f[MaxNow + 1] \in Nat /\ g[MaxNow + 1] \in Nat /\ n.amount \in Nat
  BY <1>1, LevelFacts DEF IsClaim
<1>4. h[MaxNow + 1] + g[MaxNow + 1] + x <= T
  BY <1>1, <1>2, <1>3
<1>5. QED BY <1>1, <1>2, <1>4 DEF Backed


-----------------------------------------------------------------------------
(***************************************************************************)
(* The calls to the platform.                                              *)
(***************************************************************************)

\* A handler asks the platform to adjust the balance.
CallOf(h, kind) ==
    [kind |-> kind, order |-> OrderOf(h), at |-> now, amount |-> handler[h].plan]

Asks(h, kind) ==
    /\ IF kind = "subtract" THEN SubtractBalance(h) ELSE AddBalance(h)
    /\ calls' = calls \cup {CallOf(h, kind)}
    /\ history'.keys = history.keys \cup {KeyOf(CallOf(h, kind))}
    /\ KeyOf(CallOf(h, kind)) \in history.keys => OrderOf(h) \in history'.collided
    /\ handler'[h].at = now /\ SamePlan(h) /\ UNCHANGED <<orders, applied, taken>>

MoneyStep ==
    \/ UNCHANGED <<calls, applied, taken>> /\ history'.keys = history.keys
    \/ \E h \in Handlers, kind \in {"subtract", "add"} : Asks(h, kind)
    \/ \E call \in calls : PlatformApplies(call)

LEMMA AskEffect ==
    ASSUME TypeOK, NEW h \in Handlers
    PROVE  /\ SubtractBalance(h) => Asks(h, "subtract")
           /\ AddBalance(h) => Asks(h, "add")
<1>1. ASSUME NEW kind \in {"subtract", "add"}, AdjustBalance(h, kind),
             UNCHANGED <<orders, applied, taken>>,
             IF kind = "subtract" THEN SubtractBalance(h) ELSE AddBalance(h)
      PROVE  Asks(h, kind)
  <2>1. handler'[h].at = now /\ SamePlan(h)
    BY <1>1, HandlerEffect
  <2>2. KeyOf(CallOf(h, kind)) = Key(kind, OrderOf(h), now)
    BY DEF KeyOf, CallOf, Key
  <2>3. /\ history'.keys = history.keys \cup {Key(kind, OrderOf(h), now)}
        /\ Key(kind, OrderOf(h), now) \in history.keys =>
             OrderOf(h) \in history'.collided
    BY <1>1 DEF AdjustBalance, TypeOK
  <2>4. calls' = calls \cup {CallOf(h, kind)}
    BY <1>1 DEF AdjustBalance, CallOf
  <2>5. QED BY <1>1, <2>1, <2>2, <2>3, <2>4 DEF Asks
<1>2. SubtractBalance(h) => Asks(h, "subtract")
  BY <1>1 DEF SubtractBalance
<1>3. AddBalance(h) => Asks(h, "add")
  BY <1>1 DEF AddBalance
<1>4. QED BY <1>2, <1>3

LEMMA MoneySummary == TypeOK /\ [Next]_vars => MoneyStep
<1> USE DEF platformVars, gatewayVars
<1> SUFFICES ASSUME TypeOK, [Next]_vars PROVE MoneyStep
  OBVIOUS
<1>0. HistoryOK
  BY DEF TypeOK, HistoryOK
<1>a. ASSUME UNCHANGED <<calls, applied, taken>>, history'.keys = history.keys
      PROVE  MoneyStep
  BY <1>a DEF MoneyStep
<1>b. ASSUME NEW h \in Handlers, SubtractBalance(h) \/ AddBalance(h)
      PROVE  MoneyStep
  BY <1>b, AskEffect DEF MoneyStep
<1>c. ASSUME NEW h \in Handlers,
             DbError(h) \/ Interrupt(h) \/ GatewayOk(h) \/ LateRefundFailed(h)
      PROVE  MoneyStep
  BY <1>0, <1>a, <1>c
     DEF DbError, Interrupt, GatewayOk, LateRefundFailed, EndRefund, HistoryOK
<1>1. ASSUME NEW h \in Handlers, Progress(h) PROVE MoneyStep
  <2>1. CASE SubtractBalance(h)
    BY <1>b, <2>1
  <2>2. CASE AddBalance(h)
    BY <1>b, <2>2
  <2>3. CASE MarkRefundRequested(h) \/ MarkRefunding(h) \/ MarkRefundingRefused(h)
    BY <1>a, <2>3 DEF MarkRefundRequested, MarkRefunding, MarkRefundingRefused
  <2>4. CASE \/ NothingToDeduct(h) \/ DeductionOk(h) \/ DeductionError(h)
             \/ AskGateway(h) \/ GatewayError(h)
    BY <1>a, <2>4
       DEF NothingToDeduct, DeductionOk, DeductionError, AskGateway, GatewayError
  <2>5. CASE \/ RollbackOk(h) \/ RollbackError(h) \/ Restore(h)
             \/ MarkRefunded(h) \/ MarkRefundFailed(h) \/ AuditRefund(h)
    BY <1>a, <2>5
       DEF RollbackOk, RollbackError, Restore, MarkRefunded, MarkRefundFailed,
           AuditRefund, EndRefund
  <2>6. QED BY <1>1, <1>c, <2>1, <2>2, <2>3, <2>4, <2>5 DEF Progress
<1>2. ASSUME NEW h \in Handlers, NEW o \in Orders,
             \/ BeginRefund(h, o)
             \/ \E amount \in RefundAmounts : BeginRequest(h, o, amount)
      PROVE  MoneyStep
  BY <1>2, <1>a DEF BeginRefund, BeginRequest
<1>3. CASE \/ \E refund \in asked : GatewayRefunds(refund)
           \/ Tick \/ UNCHANGED vars
  BY <1>3, <1>a DEF GatewayRefunds, Tick, vars
<1>4. CASE \E call \in calls : PlatformApplies(call)
  BY <1>4 DEF MoneyStep
<1>5. QED BY <1>1, <1>2, <1>3, <1>4, <1>c DEF Next

\* What a call is, and its key.
LEMMA CallFacts ==
    ASSUME TypeOK
    PROVE  /\ calls \subseteq CallSet
           /\ \A c \in calls : /\ c.order \in Orders /\ c.amount \in Nat /\ c.at \in Time
                               /\ KeyOf(c).order = c.order /\ KeyOf(c).kind = c.kind
                               /\ KeyOf(c).at = c.at
           /\ \A h \in Handlers, kind \in {"subtract", "add"} : ~At(h, "idle") =>
                /\ CallOf(h, kind) \in CallSet
                /\ CallOf(h, kind).order = OrderOf(h) /\ CallOf(h, kind).kind = kind
                /\ CallOf(h, kind).amount = handler[h].plan /\ CallOf(h, kind).at = now
                /\ KeyOf(CallOf(h, kind)) = Key(kind, OrderOf(h), now)
                /\ KeyOf(CallOf(h, kind)).order = OrderOf(h)
<1>1. calls \subseteq CallSet
  BY DEF TypeOK
<1>2. ASSUME NEW h \in Handlers, NEW kind \in {"subtract", "add"}, ~At(h, "idle")
      PROVE  CallOf(h, kind) \in CallSet
  <2>1. OrderOf(h) \in Orders /\ now \in Time /\ handler[h].plan \in Nat
    BY <1>2, HandlerFacts DEF HandlerState
  <2>2. QED BY <2>1 DEF CallOf, CallSet
<1>3. QED BY <1>1, <1>2 DEF CallSet, CallOf, KeyOf, Key

\* The handler that asks is inside the refund.
LEMMA AskerFacts ==
    ASSUME TypeOK, NEW h \in Handlers, NEW kind \in {"subtract", "add"}, Asks(h, kind)
    PROVE  /\ handler[h].pc = IF kind = "subtract" THEN "deduct" ELSE "rollback"
           /\ ~At(h, "idle") /\ HoldsLock(h, OrderOf(h)) /\ OrderOf(h) \in Orders
<1>1. handler[h].pc = IF kind = "subtract" THEN "deduct" ELSE "rollback"
  BY DEF Asks, SubtractBalance, AddBalance, At
<1>2. ~At(h, "idle") /\ handler[h].pc \in LockedPCs
  BY <1>1 DEF At, LockedPCs
<1>3. QED BY <1>1, <1>2, HandlerFacts DEF HoldsLock

\* A handler that counts on a deduction after a step has asked for it before,
\* or asks just now.
LEMMA DeductingOrigin ==
    ASSUME TypeOK, Summary, NEW h \in Handlers, Deducting(h)'
    PROVE  /\ handler'[h].order = OrderOf(h) /\ handler'[h].plan = handler[h].plan
           /\ handler[h].pc \in LockedPCs
           /\ handler'[h] = handler[h] \/ GoesOn(h)
           /\ \/ Deducting(h) /\ handler'[h].at = handler[h].at
              \/ SubtractBalance(h)
<1>1. /\ handler'[h].pc \in {"deduct_answer", "gateway", "gateway_answer",
                             "rollback", "record"}
      /\ handler'[h].plan > 0
  BY DEF Deducting
<1>2. handler'[h].pc \in LockedPCs /\ handler'[h].pc # "deduct"
  BY <1>1 DEF LockedPCs
<1>3. /\ Takes(h) \/ handler[h].pc \in LockedPCs
      /\ handler'[h].order = OrderOf(h)
      /\ Takes(h) \/ handler'[h] = handler[h] \/ GoesOn(h)
  BY <1>2, LockOrigin
<1>4. ~Takes(h)
  BY <1>2 DEF Takes
<1>5. CASE handler'[h] = handler[h]
  BY <1>1, <1>3, <1>4, <1>5 DEF Deducting
<1>6. CASE GoesOn(h)
  <2>1. handler'[h].plan = handler[h].plan
    BY <1>6 DEF GoesOn, SamePlan
  <2>2. CASE handler'[h].pc = "deduct_answer"
    BY <1>3, <1>4, <1>6, <2>1, <2>2 DEF GoesOn
  <2>3. CASE handler'[h].pc # "deduct_answer"
    <3>1. Deducted(h) /\ handler'[h].at = handler[h].at
      BY <1>1, <1>6, <2>1, <2>3 DEF GoesOn
    <3>2. QED BY <1>3, <1>4, <1>6, <2>1, <3>1 DEF Deducted
  <2>4. QED BY <2>2, <2>3
<1>7. QED BY <1>3, <1>4, <1>5, <1>6

\* The key by which it asked, after the step.
NextKey(h) == Key("subtract", handler'[h].order, handler'[h].at)

LEMMA NextKeyFacts ==
    ASSUME TypeOK, Summary, NEW h \in Handlers, Deducting(h)'
    PROVE  /\ NextKey(h) = DeductionKey(h)'
           /\ NextKey(h).order = OrderOf(h)
           /\ SubtractBalance(h) =>
                /\ Asks(h, "subtract")
                /\ NextKey(h) = KeyOf(CallOf(h, "subtract"))
                /\ handler'[h] # handler[h]
                /\ CallOf(h, "subtract").amount = handler[h].plan
           /\ ~SubtractBalance(h) => Deducting(h) /\ NextKey(h) = DeductionKey(h)
<1>1. /\ handler'[h].order = OrderOf(h)
      /\ SubtractBalance(h) \/ (Deducting(h) /\ handler'[h].at = handler[h].at)
  BY DeductingOrigin
<1>2. NextKey(h) = DeductionKey(h)' /\ NextKey(h).order = OrderOf(h)
  BY <1>1 DEF NextKey, DeductionKey, Key, OrderOf
<1>3. ASSUME SubtractBalance(h)
      PROVE  /\ Asks(h, "subtract")
             /\ NextKey(h) = KeyOf(CallOf(h, "subtract"))
             /\ handler'[h] # handler[h]
             /\ CallOf(h, "subtract").amount = handler[h].plan
  <2>1. Asks(h, "subtract")
    BY <1>3, AskEffect
  <2>2. At(h, "deduct") /\ ~At(h, "idle")
    BY <1>3 DEF SubtractBalance, At
  <2>3. /\ CallOf(h, "subtract").amount = handler[h].plan
        /\ KeyOf(CallOf(h, "subtract")) = Key("subtract", OrderOf(h), now)
    BY <2>2, CallFacts
  <2>4. handler'[h] # handler[h]
    BY <2>2 DEF Deducting, At
  <2>5. QED BY <1>1, <2>1, <2>3, <2>4 DEF NextKey, Asks
<1>4. ~SubtractBalance(h) => Deducting(h) /\ NextKey(h) = DeductionKey(h)
  BY <1>1 DEF NextKey, DeductionKey
<1>5. QED BY <1>2, <1>3, <1>4

LEMMA CallInit == Init => CallInv
<1>1. Init => /\ calls = {} /\ applied = {}
              /\ \A h \in Handlers : handler[h].pc = "idle"
  BY IdleOK DEF Init
<1>2. QED BY <1>1 DEF CallInv, Deducting

\* A new call shares its key with no other unless its order collided; one that
\* the platform takes up is no longer on its way.
LEMMA CallStep ==
    TypeOK /\ CallInv /\ Summary /\ Grows /\ MoneyStep => CallInv'
<1> SUFFICES ASSUME TypeOK, CallInv, Summary, Grows, MoneyStep PROVE CallInv'
  OBVIOUS
<1>1. applied' \subseteq history'.keys
  <2>1. CASE \E call \in calls : PlatformApplies(call)
    <3>1. PICK call \in calls : PlatformApplies(call)
      BY <2>1
    <3>2. KeyOf(call) \in history.keys /\ applied \subseteq history.keys
      BY DEF CallInv
    <3>3. QED BY <3>1, <3>2 DEF PlatformApplies, Grows
  <2>2. CASE UNCHANGED applied
    BY <2>2 DEF CallInv, Grows
  <2>3. QED BY <2>1, <2>2 DEF MoneyStep, Asks
<1>2. ASSUME NEW h \in Handlers, NEW kind \in {"subtract", "add"}, Asks(h, kind)
      PROVE  /\ \A c \in calls' :
                  /\ KeyOf(c) \in history'.keys
                  /\ c.order \notin history'.collided =>
                       /\ KeyOf(c) \notin applied'
                       /\ \A d \in calls' : KeyOf(d) = KeyOf(c) => d = c
             /\ \A c \in calls : KeyOf(c) = KeyOf(CallOf(h, kind)) =>
                  c.order \in history'.collided
  <2> DEFINE n == CallOf(h, kind)
  <2>1. /\ n.order = OrderOf(h) /\ KeyOf(n).order = OrderOf(h)
        /\ \A c \in calls : KeyOf(c).order = c.order
    BY <1>2, AskerFacts, CallFacts
  <2>2. /\ calls' = calls \cup {n} /\ applied' = applied
        /\ history'.keys = history.keys \cup {KeyOf(n)}
        /\ KeyOf(n) \in history.keys => OrderOf(h) \in history'.collided
    BY <1>2 DEF Asks
  <2> HIDE DEF n
  <2>3. \A c \in calls : KeyOf(c) = KeyOf(n) => c.order \in history'.collided
    BY <2>1, <2>2 DEF CallInv
  <2>4. \A c \in calls :
          /\ KeyOf(c) \in history'.keys
          /\ c.order \notin history'.collided =>
               /\ KeyOf(c) \notin applied'
               /\ \A d \in calls' : KeyOf(d) = KeyOf(c) => d = c
    BY <2>2, <2>3 DEF CallInv, Grows
  <2>5. n.order \notin history'.collided =>
          /\ KeyOf(n) \notin applied'
          /\ \A d \in calls' : KeyOf(d) = KeyOf(n) => d = n
    BY <2>1, <2>2 DEF CallInv
  <2>6. QED BY <2>2, <2>3, <2>4, <2>5 DEF n
<1>3. ASSUME NEW c \in calls'
      PROVE  /\ KeyOf(c) \in history'.keys
             /\ c.order \notin history'.collided =>
                  /\ KeyOf(c) \notin applied'
                  /\ \A d \in calls' : KeyOf(d) = KeyOf(c) => d = c
  <2>1. CASE UNCHANGED <<calls, applied>>
    BY <2>1 DEF CallInv, Grows
  <2>2. ASSUME NEW call \in calls, PlatformApplies(call)
        PROVE  /\ KeyOf(c) \in history'.keys
               /\ c.order \notin history'.collided =>
                    /\ KeyOf(c) \notin applied'
                    /\ \A d \in calls' : KeyOf(d) = KeyOf(c) => d = c
    BY <2>2 DEF PlatformApplies, CallInv, Grows
  <2>3. QED BY <1>2, <2>1, <2>2 DEF MoneyStep
<1>4. ASSUME NEW h \in Handlers, Deducting(h)'
      PROVE  /\ NextKey(h) \in history'.keys
             /\ handler'[h].order \notin history'.collided =>
                  \A c \in calls' : KeyOf(c) = NextKey(h) => c.amount = handler'[h].plan
  <2>0. handler'[h].order = OrderOf(h) /\ handler'[h].plan = handler[h].plan
    BY <1>4, DeductingOrigin
  <2>1. CASE SubtractBalance(h)
    <3>1. /\ Asks(h, "subtract") /\ NextKey(h) = KeyOf(CallOf(h, "subtract"))
          /\ NextKey(h).order = OrderOf(h)
          /\ CallOf(h, "subtract").amount = handler[h].plan
      BY <1>4, <2>1, NextKeyFacts
    <3>2. /\ history'.keys = history.keys \cup {KeyOf(CallOf(h, "subtract"))}
          /\ calls' = calls \cup {CallOf(h, "subtract")}
      BY <3>1 DEF Asks
    <3>3. \A c \in calls : KeyOf(c).order = c.order
      BY CallFacts
    <3>4. \A c \in calls : KeyOf(c) = NextKey(h) => OrderOf(h) \in history'.collided
      BY <1>2, <3>1, <3>3
    <3>5. QED BY <2>0, <3>1, <3>2, <3>4
  <2>2. CASE ~SubtractBalance(h)
    <3>1. Deducting(h) /\ NextKey(h) = DeductionKey(h) /\ NextKey(h).order = OrderOf(h)
      BY <1>4, <2>2, NextKeyFacts
    <3>2. NextKey(h) \in history.keys
      BY <3>1 DEF CallInv
    <3>3. ASSUME NEW c \in calls', KeyOf(c) = NextKey(h), OrderOf(h) \notin history'.collided
          PROVE  c.amount = handler[h].plan
      <4>1. ASSUME NEW g \in Handlers, NEW kind \in {"subtract", "add"}, Asks(g, kind),
                   c = CallOf(g, kind)
            PROVE  FALSE
        <5>1. KeyOf(c).order = OrderOf(g)
          BY <4>1, AskerFacts, CallFacts
        <5>2. OrderOf(g) \in history'.collided
          BY <3>2, <3>3, <4>1 DEF Asks
        <5>3. QED BY <3>1, <3>3, <5>1, <5>2
      <4>2. c \in calls
        BY <4>1 DEF MoneyStep, Asks, PlatformApplies
      <4>3. OrderOf(h) \notin history.collided
        BY <3>3 DEF Grows
      <4>4. QED BY <3>1, <3>3, <4>2, <4>3 DEF CallInv
    <3>4. QED BY <2>0, <3>2, <3>3 DEF Grows
  <2>3. QED BY <2>1, <2>2
<1>5. ASSUME NEW g \in Handlers, NEW h \in Handlers, Deducting(g)', Deducting(h)',
             NextKey(g) = NextKey(h), OrderOf(h) \notin history'.collided
      PROVE  g = h
  <2>1. ASSUME NEW x \in Handlers, NEW y \in Handlers, Deducting(x)', Deducting(y)',
               NextKey(x) = NextKey(y), SubtractBalance(x), ~SubtractBalance(y)
        PROVE  NextKey(x).order \in history'.collided
    <3>1. NextKey(y) \in history.keys
      BY <2>1, NextKeyFacts DEF CallInv
    <3>2. /\ Asks(x, "subtract") /\ NextKey(x) = KeyOf(CallOf(x, "subtract"))
          /\ NextKey(x).order = OrderOf(x)
      BY <2>1, NextKeyFacts
    <3>3. QED BY <2>1, <3>1, <3>2 DEF Asks
  <2>2. NextKey(g).order = OrderOf(g) /\ NextKey(h).order = OrderOf(h)
    BY <1>5, NextKeyFacts
  <2>3. CASE SubtractBalance(g) /\ SubtractBalance(h)
    <3>1. handler'[g] # handler[g] /\ handler'[h] # handler[h]
      BY <1>5, <2>3, NextKeyFacts
    <3>2. QED BY <3>1 DEF Summary, OneMoves
  <2>4. CASE ~SubtractBalance(g) /\ ~SubtractBalance(h)
    <3>1. Deducting(g) /\ Deducting(h) /\ DeductionKey(g) = DeductionKey(h)
      BY <1>5, <2>4, NextKeyFacts
    <3>2. OrderOf(h) \notin history.collided
      BY <1>5 DEF Grows
    <3>3. QED BY <3>1, <3>2 DEF CallInv
  <2>5. QED BY <1>5, <2>1, <2>2, <2>3, <2>4
<1>6. ASSUME NEW h \in Handlers, Deducting(h)'
      PROVE  /\ DeductionKey(h)' \in history'.keys
             /\ handler'[h].order \notin history'.collided =>
                  /\ \A c \in calls' :
                       KeyOf(c) = DeductionKey(h)' => c.amount = handler'[h].plan
                  /\ \A g \in Handlers :
                       Deducting(g)' /\ DeductionKey(g)' = DeductionKey(h)' => g = h
  <2>1. /\ NextKey(h) = DeductionKey(h)' /\ handler'[h].order = OrderOf(h)
        /\ \A g \in Handlers : Deducting(g)' => NextKey(g) = DeductionKey(g)'
    BY <1>6, NextKeyFacts, DeductingOrigin
  <2>2. QED BY <1>4, <1>5, <1>6, <2>1
<1>7. QED
  BY <1>1, <1>3, <1>6 DEF CallInv, OrderOf, KeyOf

-----------------------------------------------------------------------------
(***************************************************************************)
(* The ledger: what was taken for an order covers the rollbacks on their   *)
(* way and the deductions that handlers of the order count on.             *)
(***************************************************************************)

ClaimOf(h) == [at |-> handler[h].at, amount |-> handler[h].plan]

LEMMA ClaimFacts ==
    ASSUME TypeOK, NEW h \in Handlers
    PROVE  /\ IsClaim(ClaimOf(h))
           /\ ClaimOf(h).at = handler[h].at /\ ClaimOf(h).amount = handler[h].plan
<1>1. handler[h].at \in 0..MaxNow /\ handler[h].plan \in Nat
  BY DEF TypeOK, HandlerState, Time
<1>2. QED BY <1>1 DEF ClaimOf, IsClaim

LEMMA DeductionsAre ==
    ASSUME NEW o
    PROVE  /\ \A d \in Deductions(o) : \E h \in Handlers :
                Deducted(h) /\ OrderOf(h) = o /\ d = ClaimOf(h)
           /\ \A h \in Handlers :
                Deducted(h) /\ OrderOf(h) = o => ClaimOf(h) \in Deductions(o)
           /\ \A d \in Deductions(o)' : \E h \in Handlers :
                Deducted(h)' /\ OrderOf(h)' = o /\ d = ClaimOf(h)'
  BY DEF Deductions, ClaimOf

\* Each second has one rollback and one deduction of an order at most.
LEMMA LedgerFacts ==
    ASSUME TypeOK, CallInv, NEW o \in Orders, o \notin history.collided
    PROVE  /\ \A c \in Rollbacks(o) : c \in calls /\ IsClaim(c)
           /\ \A c, d \in Rollbacks(o) : c.at = d.at => c = d
           /\ \A d \in Deductions(o) : IsClaim(d)
           /\ \A c, d \in Deductions(o) : c.at = d.at => c = d
           /\ \A g, h \in Handlers :
                /\ Deducting(g) /\ OrderOf(g) = o
                /\ Deducting(h) /\ OrderOf(h) = o
                /\ ClaimOf(g).at = ClaimOf(h).at
                => g = h
<1>1. \A c \in Rollbacks(o) :
        /\ c \in calls /\ c.kind = "add" /\ c.order = o
        /\ KeyOf(c) = Key("add", o, c.at)
        /\ c.at \in 0..MaxNow /\ c.amount \in Nat
  BY CallFacts DEF Rollbacks, KeyOf, Time
<1>2. ASSUME NEW c \in Rollbacks(o), NEW d \in Rollbacks(o), c.at = d.at PROVE c = d
  <2>1. KeyOf(c) = KeyOf(d) /\ c \in calls /\ d \in calls /\ c.order = o /\ d.order = o
    BY <1>1, <1>2
  <2>2. QED BY <2>1 DEF CallInv
<1>3. ASSUME NEW g \in Handlers, NEW h \in Handlers, Deducting(g), OrderOf(g) = o,
             Deducting(h), OrderOf(h) = o, ClaimOf(g).at = ClaimOf(h).at
      PROVE  g = h
  <2>1. DeductionKey(g) = DeductionKey(h)
    BY <1>3, ClaimFacts DEF DeductionKey
  <2>2. QED BY <1>3, <2>1 DEF CallInv
<1>4. ASSUME NEW c \in Deductions(o), NEW d \in Deductions(o), c.at = d.at PROVE c = d
  <2>1. PICK g \in Handlers : Deducted(g) /\ OrderOf(g) = o /\ c = ClaimOf(g)
    BY DeductionsAre
  <2>2. PICK h \in Handlers : Deducted(h) /\ OrderOf(h) = o /\ d = ClaimOf(h)
    BY DeductionsAre
  <2>3. g = h
    BY <1>3, <1>4, <2>1, <2>2 DEF Deducted
  <2>4. QED BY <2>1, <2>2, <2>3
<1>5. \A d \in Deductions(o) : IsClaim(d)
  BY DeductionsAre, ClaimFacts
<1>6. QED BY <1>1, <1>2, <1>3, <1>4, <1>5 DEF IsClaim

\* A handler that counts on its deduction after a step counted on it before, or
\* saw it taken up by the platform just now.
LEMMA DeductedOrigin ==
    ASSUME TypeOK, CallInv, Summary, NEW h \in Handlers, Deducted(h)',
           OrderOf(h)' \notin history'.collided
    PROVE  /\ OrderOf(h)' = OrderOf(h) /\ ClaimOf(h)' = ClaimOf(h)
           /\ Deducting(h) /\ Deducting(h)'
           /\ \/ Deducted(h)
              \/ At(h, "deduct_answer") /\ DeductionKey(h) \in applied' \ applied
<1>1. Deducting(h)' /\ (At(h, "deduct_answer")' => DeductionKey(h)' \in applied')
  BY DEF Deducted
<1>2. /\ handler'[h].order = OrderOf(h) /\ handler'[h].plan = handler[h].plan
      /\ handler'[h] = handler[h] \/ GoesOn(h)
      /\ SubtractBalance(h) \/ (Deducting(h) /\ handler'[h].at = handler[h].at)
  BY <1>1, DeductingOrigin
<1>3. ~SubtractBalance(h)
  <2>1. SUFFICES ASSUME SubtractBalance(h) PROVE FALSE
    OBVIOUS
  <2>2. /\ Asks(h, "subtract") /\ NextKey(h) = KeyOf(CallOf(h, "subtract"))
        /\ NextKey(h) = DeductionKey(h)'
    BY <1>1, <2>1, NextKeyFacts
  <2>3. handler'[h].pc = "deduct_answer"
    BY <2>1, HandlerEffect DEF SubtractBalance
  <2>4. KeyOf(CallOf(h, "subtract")) \in history.keys
    BY <1>1, <2>2, <2>3 DEF At, Asks, CallInv
  <2>5. QED BY <1>2, <2>2, <2>4 DEF Asks, OrderOf
<1>4. Deducting(h) /\ ClaimOf(h)' = ClaimOf(h) /\ OrderOf(h)' = OrderOf(h)
  BY <1>2, <1>3 DEF ClaimOf, OrderOf
<1>5. DeductionKey(h)' = DeductionKey(h)
  BY <1>2, <1>3 DEF DeductionKey, OrderOf
<1>6. ASSUME ~Deducted(h)
      PROVE  At(h, "deduct_answer") /\ DeductionKey(h) \in applied' \ applied
  <2>1. At(h, "deduct_answer") /\ DeductionKey(h) \notin applied
    BY <1>4, <1>6 DEF Deducted
  <2>2. CASE handler'[h] = handler[h]
    BY <1>1, <1>5, <2>1, <2>2 DEF At
  <2>3. CASE GoesOn(h)
    <3>1. handler'[h].pc # "deduct_answer"
      BY <1>3, <2>3 DEF GoesOn
    <3>2. handler[h].plan = 0
      BY <1>1, <1>6, <2>3, <3>1 DEF GoesOn, Deducting
    <3>3. QED BY <1>4, <3>2 DEF Deducting
  <2>4. QED BY <1>2, <2>2, <2>3
<1>7. QED BY <1>1, <1>4, <1>6

\* Without the platform no handler comes to count on a deduction.
LEMMA DeductionsShrink ==
    ASSUME TypeOK, CallInv, Summary, NEW o \in Orders, o \notin history'.collided,
           \A h \in Handlers :
             DeductionKey(h).order = o => DeductionKey(h) \notin applied' \ applied
    PROVE  /\ Deductions(o)' \subseteq Deductions(o)
           /\ \A d \in Deductions(o)' : \E h \in Handlers :
                /\ Deducted(h) /\ Deducting(h)' /\ OrderOf(h) = o /\ d = ClaimOf(h)
<1>1. ASSUME NEW d \in Deductions(o)'
      PROVE  \E h \in Handlers :
               Deducted(h) /\ Deducting(h)' /\ OrderOf(h) = o /\ d = ClaimOf(h)
  <2>1. PICK h \in Handlers : Deducted(h)' /\ OrderOf(h)' = o /\ d = ClaimOf(h)'
    BY DeductionsAre
  <2>2. /\ OrderOf(h) = o /\ d = ClaimOf(h) /\ Deducting(h)'
        /\ Deducted(h) \/ DeductionKey(h) \in applied' \ applied
    BY <2>1, DeductedOrigin
  <2>3. DeductionKey(h).order = OrderOf(h)
    BY DEF DeductionKey, Key
  <2>4. QED BY <2>2, <2>3
<1>2. QED BY <1>1, DeductionsAre

\* What is backed stays backed, whoever asks for what and whatever arrives.
LEMMA KeptBacked ==
    ASSUME TypeOK, CallInv, Summary, Grows, MoneyStep,
           NEW o \in Orders, o \notin history'.collided, NEW x \in Nat,
           Backed(Rollbacks(o), Deductions(o), taken[o], x)
    PROVE  Backed(Rollbacks(o)', Deductions(o)', taken'[o], x)
<1> DEFINE C == Rollbacks(o)
           D == Deductions(o)
           T == taken[o]
<1>0. o \notin history.collided /\ T \in Int
  BY DEF Grows, TypeOK
<1>c. \A c \in C : c \in calls /\ IsClaim(c)
  BY <1>0, LedgerFacts
<1>d. /\ \A d \in D : IsClaim(d)
      /\ \A d, e \in D : d.at = e.at => d = e
  BY <1>0, LedgerFacts
<1>k. \A h \in Handlers : DeductionKey(h).order = OrderOf(h) /\ DeductionKey(h).kind = "subtract"
  BY DEF DeductionKey, Key
\* Nothing arrives, and no rollback of the order is asked for.
<1>1. ASSUME UNCHANGED <<applied, taken>>, C' \subseteq C
      PROVE  Backed(C', D', T', x)
  <2>1. D' \subseteq D
    BY <1>1, DeductionsShrink
  <2>2. QED BY <1>0, <1>1, <2>1, BackedFewer
<1>2. CASE UNCHANGED <<calls, applied, taken>>
  BY <1>1, <1>2 DEF Rollbacks
<1>3. ASSUME NEW h \in Handlers, NEW kind \in {"subtract", "add"}, Asks(h, kind)
      PROVE  Backed(C', D', T', x)
  <2> DEFINE n == CallOf(h, kind)
  <2>1. /\ calls' = calls \cup {n} /\ UNCHANGED <<applied, taken>>
        /\ n.kind = kind /\ n.order = OrderOf(h) /\ n.at = now
        /\ n.amount = handler[h].plan
        /\ handler[h].pc = IF kind = "subtract" THEN "deduct" ELSE "rollback"
        /\ KeyOf(n) = Key(kind, OrderOf(h), now)
        /\ OrderOf(h) = o => KeyOf(n) \notin history.keys
    BY <1>3, AskerFacts, CallFacts DEF Asks
  <2>2. now \in 0..MaxNow /\ handler[h].plan \in Nat
    BY DEF TypeOK, HandlerState, Time
  <2> HIDE DEF n
  <2>3. CASE kind = "subtract" \/ OrderOf(h) # o
    BY <1>1, <2>1, <2>3 DEF Rollbacks
  <2>4. CASE kind = "add" /\ OrderOf(h) = o
    <3>1. IsClaim(n)
      BY <2>1, <2>2 DEF IsClaim
    <3>2. \A c \in C : c.at # n.at
      <4>1. ASSUME NEW c \in C, c.at = n.at PROVE KeyOf(c) = KeyOf(n)
        BY <2>1, <2>4, <4>1 DEF Rollbacks, KeyOf
      <4>2. \A c \in C : KeyOf(c) \in history.keys
        BY <1>c DEF CallInv
      <4>3. QED BY <2>1, <2>4, <4>1, <4>2
    <3>3. C' = C \cup {n}
      BY <2>1, <2>4 DEF Rollbacks
    <3>4. D' \subseteq D
      BY <2>1, DeductionsShrink
    <3>5. Backed(C, D', T, x + n.amount)
      <4>1. CASE handler[h].plan = 0
        <5>1. x + n.amount = x
          BY <2>1, <4>1
        <5>2. Backed(C, D', T, x)
          BY <1>0, <3>4, BackedFewer
        <5>3. QED BY <5>1, <5>2
      <4>2. CASE handler[h].plan > 0
        <5> DEFINE claim == ClaimOf(h)
        <5>1. Deducted(h) /\ claim.amount = n.amount
          BY <2>1, <2>4, <4>2, ClaimFacts DEF Deducted, Deducting, At
        <5>2. claim \in D
          BY <2>4, <5>1, DeductionsAre
        <5>3. ~Deducting(h)'
          BY <1>3, <2>4, HandlerEffect DEF Asks, AddBalance, Deducting
        <5>4. claim \notin D'
          <6>1. SUFFICES ASSUME claim \in D' PROVE FALSE
            OBVIOUS
          <6>2. PICK g \in Handlers :
                  Deducted(g) /\ Deducting(g)' /\ OrderOf(g) = o /\ claim = ClaimOf(g)
            BY <2>1, <6>1, DeductionsShrink
          <6>3. g = h
            BY <1>0, <2>4, <5>1, <6>2, LedgerFacts DEF Deducted
          <6>4. QED BY <5>3, <6>2, <6>3
        <5> HIDE DEF claim
        <5>5. Backed(C, D \ {claim}, T, x + claim.amount)
          BY <1>0, <1>d, <5>2, BackedGivenUp
        <5>6. x + claim.amount \in Nat /\ x + claim.amount = x + n.amount
          BY <2>1, <2>2, <5>1
        <5>7. D' \subseteq D \ {claim}
          BY <3>4, <5>4
        <5>8. QED BY <1>0, <5>5, <5>6, <5>7, BackedFewer
      <4>3. QED BY <2>2, <4>1, <4>2
    <3>6. Backed(C \cup {n}, D', T, x)
      BY <1>0, <1>c, <3>1, <3>2, <3>5, BackedAsk
    <3>7. QED BY <2>1, <3>3, <3>6
  <2>5. QED BY <2>3, <2>4
<1>4. ASSUME NEW call \in calls, PlatformApplies(call)
      PROVE  Backed(C', D', T', x)
  <2>1. /\ calls' = calls \ {call} /\ applied' = applied \cup {KeyOf(call)}
        /\ call.order \in Orders /\ call.amount \in Nat /\ call.at \in 0..MaxNow
        /\ call.kind \in {"subtract", "add"}
        /\ KeyOf(call).order = call.order /\ KeyOf(call).kind = call.kind
        /\ KeyOf(call).at = call.at
        /\ call.order = o => KeyOf(call) \notin applied
    BY <1>0, <1>4, CallFacts DEF PlatformApplies, CallSet, Time, CallInv
  <2>2. /\ call.order # o => taken'[o] = T
        /\ call.order = o =>
             taken'[o] = IF call.kind = "subtract" THEN T + call.amount ELSE T - call.amount
    BY <1>4, <2>1 DEF PlatformApplies, TypeOK
  <2>3. C' = C \ {call}
    BY <2>1 DEF Rollbacks
  <2>n. (\A h \in Handlers : DeductionKey(h) = KeyOf(call) => OrderOf(h) # o)
          => D' \subseteq D
    BY <1>k, <2>1, DeductionsShrink
  <2>4. CASE call.order # o
    <3>1. D' \subseteq D
      BY <1>k, <2>1, <2>4, <2>n
    <3>2. QED BY <1>0, <2>2, <2>3, <2>4, <3>1, BackedFewer
  <2>5. CASE call.order = o /\ call.kind = "add"
    <3>1. D' \subseteq D
      BY <1>k, <2>1, <2>5, <2>n
    <3>2. call \in C /\ \A c \in C : c.at = call.at => c = call
      <4>1. call \in C
        BY <2>5 DEF Rollbacks
      <4>2. QED BY <1>0, <4>1, LedgerFacts
    <3>3. Backed(C \ {call}, D, T - call.amount, x)
      BY <1>0, <1>c, <3>2, BackedReturn
    <3>4. T - call.amount \in Int /\ taken'[o] = T - call.amount
      BY <1>0, <2>1, <2>2, <2>5
    <3>5. QED BY <2>3, <3>1, <3>3, <3>4, BackedFewer
  <2>6. CASE call.order = o /\ call.kind = "subtract"
    <3>1. /\ T + call.amount \in Int /\ taken'[o] = T + call.amount
          /\ T <= T + call.amount
      BY <1>0, <2>1, <2>2, <2>6
    <3>2. CASE D' \subseteq D
      BY <1>0, <2>3, <3>1, <3>2, BackedFewer
    <3>3. CASE ~(D' \subseteq D)
      <4>1. PICK e \in D' : e \notin D
        BY <3>3
      <4>2. PICK h \in Handlers : Deducted(h)' /\ OrderOf(h)' = o /\ e = ClaimOf(h)'
        BY DeductionsAre
      <4>3. /\ OrderOf(h) = o /\ e = ClaimOf(h) /\ Deducting(h)
            /\ Deducted(h) \/ DeductionKey(h) \in applied' \ applied
        BY <4>2, DeductedOrigin
      <4>4. ~Deducted(h) /\ DeductionKey(h) = KeyOf(call)
        BY <2>1, <4>1, <4>3, DeductionsAre
      <4>5. e.amount = call.amount /\ IsClaim(e)
        <5>1. call.amount = handler[h].plan
          BY <1>0, <4>3, <4>4 DEF CallInv
        <5>2. QED BY <4>3, <5>1, ClaimFacts
      <4>6. \A d \in D : d.at # e.at
        <5>1. ASSUME NEW d \in D, d.at = e.at PROVE FALSE
          <6>1. PICK g \in Handlers : Deducted(g) /\ OrderOf(g) = o /\ d = ClaimOf(g)
            BY DeductionsAre
          <6>2. g = h
            BY <1>0, <4>3, <5>1, <6>1, LedgerFacts DEF Deducted
          <6>3. QED BY <4>4, <6>1, <6>2
        <5>2. QED BY <5>1
      <4>7. D' \subseteq D \cup {e}
        <5>1. ASSUME NEW d \in D', d \notin D PROVE d = e
          <6>1. PICK g \in Handlers : Deducted(g)' /\ OrderOf(g)' = o /\ d = ClaimOf(g)'
            BY DeductionsAre
          <6>2. /\ OrderOf(g) = o /\ d = ClaimOf(g) /\ Deducting(g)
                /\ Deducted(g) \/ DeductionKey(g) \in applied' \ applied
            BY <6>1, DeductedOrigin
          <6>3. DeductionKey(g) = KeyOf(call)
            BY <2>1, <5>1, <6>2, DeductionsAre
          <6>4. g = h
            BY <1>0, <4>3, <4>4, <6>2, <6>3 DEF CallInv
          <6>5. QED BY <4>3, <6>2, <6>4
        <5>2. QED BY <5>1
      <4>8. Backed(C, D \cup {e}, T + e.amount, x)
        BY <1>0, <1>d, <4>5, <4>6, BackedDeduct
      <4>9. C' \subseteq C /\ taken'[o] = T + e.amount
        BY <2>3, <3>1, <4>5
      <4>10. QED BY <3>1, <4>5, <4>7, <4>8, <4>9, BackedFewer
    <3>4. QED BY <3>2, <3>3
  <2>7. QED BY <2>1, <2>4, <2>5, <2>6
<1>5. QED BY <1>2, <1>3, <1>4 DEF MoneyStep

LEMMA CoversIsBacked ==
    ASSUME NEW o \in Orders, NEW x \in Nat
    PROVE  /\ taken[o] \in Int =>
                (Covers(o, x) <=> Backed(Rollbacks(o), Deductions(o), taken[o], x))
           /\ taken'[o] \in Int =>
                (Covers(o, x)' <=> Backed(Rollbacks(o)', Deductions(o)', taken'[o], x))
<1>1. Covers(o, x) <=> BackedWithin(Rollbacks(o), Deductions(o), taken[o], x)
  BY DEF Covers, BackedWithin
<1>2. Covers(o, x)' <=> BackedWithin(Rollbacks(o)', Deductions(o)', taken'[o], x)
  BY DEF Covers, BackedWithin, LaidOut
<1>3. QED BY <1>1, <1>2, BackedIsWithin

LEMMA LedgerInit == Init => LedgerInv
<1> SUFFICES ASSUME Init PROVE LedgerInv
  OBVIOUS
<1>1. /\ calls = {} /\ \A o \in Orders : taken[o] = 0
      /\ \A h \in Handlers : handler[h].pc = "idle"
      /\ \A o \in Orders : orders[o].status = "COMPLETED"
  <2>1. DeliveredRow.status = "COMPLETED"
    BY DEF DeliveredRow, PendingRow
  <2>2. QED BY <2>1, IdleOK DEF Init
<1>2. ASSUME NEW o \in Orders PROVE Covers(o, 0)
  <2> DEFINE none == [i \in Seconds |-> 0]
  <2>1. none \in Levels /\ none[MaxNow + 1] = 0
    BY DEF Levels, Seconds
  <2>2. LaidOut(none, {})
    BY DEF LaidOut, Seconds
  <2>3. \A h \in Handlers : ~Deducted(h)
    BY <1>1 DEF Deducted, Deducting
  <2>4. Rollbacks(o) = {} /\ Deductions(o) = {}
    BY <1>1, <2>3, DeductionsAre DEF Rollbacks
  <2> HIDE DEF none
  <2>5. Backed({}, {}, 0, 0)
    BY <2>1, <2>2 DEF Backed
  <2>6. Covers(o, 0) <=> Backed(Rollbacks(o), Deductions(o), taken[o], 0)
    BY <1>1, CoversIsBacked
  <2>7. QED BY <1>1, <2>4, <2>5, <2>6
<1>3. QED BY <1>1, <1>2 DEF LedgerInv, Reversed

\* The handler that records its refund gives its deduction up to the row.
LEMMA RecordedCovers ==
    ASSUME TypeOK, CallInv, LedgerInv, Summary, Grows, MoneyStep,
           NEW h \in Handlers, Ends(h), At(h, "record"),
           NEW o \in Orders, OrderOf(h) = o, o \notin history'.collided,
           NEW p, p = handler[h].plan
    PROVE  Covers(o, p)'
<1> DEFINE n == ClaimOf(h)
<1>0. /\ o \notin history.collided /\ taken[o] \in Int /\ p \in Nat
  BY DEF Grows, TypeOK, HandlerState
<1>1. Backed(Rollbacks(o), Deductions(o), taken[o], 0)
  BY <1>0, CoversIsBacked DEF LedgerInv
<1>2. handler'[h].pc \notin LockedPCs /\ handler'[h] # handler[h]
  BY DEF Ends, At, LockedPCs
<1>3. UNCHANGED <<calls, applied, taken>>
  <2>1. ASSUME NEW g \in Handlers, NEW kind \in {"subtract", "add"}, Asks(g, kind)
        PROVE  FALSE
    <3>1. handler[g].pc \in {"deduct", "rollback"}
      BY <2>1, AskerFacts
    <3>2. handler'[g].pc \in {"deduct_answer", "rollback_answer"}
      BY <2>1, HandlerEffect DEF Asks, SubtractBalance, AddBalance
    <3>3. g = h
      BY <1>2, <3>1, <3>2 DEF Summary, OneMoves
    <3>4. QED BY <3>1, <3>3 DEF At
  <2>2. QED BY <1>2, <2>1 DEF MoneyStep, PlatformApplies
<1>4. /\ Rollbacks(o)' = Rollbacks(o) /\ taken'[o] = taken[o]
      /\ Deductions(o)' \subseteq Deductions(o)
  <2>1. Deductions(o)' \subseteq Deductions(o)
    BY <1>3, DeductionsShrink
  <2>2. QED BY <1>3, <2>1 DEF Rollbacks
<1>5. Backed(Rollbacks(o)', Deductions(o)', taken'[o], p)
  <2>1. CASE p = 0
    BY <1>0, <1>1, <1>4, <2>1, BackedFewer
  <2>2. CASE p > 0
    <3>1. Deducted(h) /\ n.amount = p
      BY <2>2, ClaimFacts DEF Deducted, Deducting, At
    <3>2. n \in Deductions(o)
      BY <3>1, DeductionsAre
    <3>3. n \notin Deductions(o)'
      <4>1. SUFFICES ASSUME n \in Deductions(o)' PROVE FALSE
        OBVIOUS
      <4>2. PICK g \in Handlers :
              Deducted(g) /\ Deducting(g)' /\ OrderOf(g) = o /\ n = ClaimOf(g)
        BY <1>3, <4>1, DeductionsShrink
      <4>3. g = h
        BY <1>0, <3>1, <4>2, LedgerFacts DEF Deducted
      <4>4. QED BY <1>2, <4>2, <4>3 DEF Deducting, LockedPCs
    <3> HIDE DEF n
    <3>4. Backed(Rollbacks(o), Deductions(o) \ {n}, taken[o], 0 + n.amount)
      <4>1. /\ \A d \in Deductions(o) : IsClaim(d)
            /\ \A d \in Deductions(o) : d.at = n.at => d = n
        BY <1>0, <3>2, LedgerFacts
      <4>2. QED BY <1>0, <1>1, <3>2, <4>1, BackedGivenUp
    <3>5. 0 + n.amount = p
      BY <1>0, <3>1
    <3>6. QED BY <1>0, <1>4, <3>3, <3>4, <3>5, BackedFewer
  <2>3. QED BY <1>0, <2>1, <2>2
<1>6. QED BY <1>0, <1>4, <1>5, CoversIsBacked

\* The columns of a reversed row that tell of a refund r.
Tells(row, o, r) ==
    /\ r.order = o
    /\ r.amount = row.refund_amount
    /\ r.gateway \in {r.amount, row.pay_amount}
    /\ r.amount < Amount <=> row.status = "PARTIALLY_REFUNDED"

LEMMA LedgerStep ==
    /\ TypeOK /\ TypeOK' /\ AmountInv /\ AmountInv' /\ ConfirmedInv
    /\ CallInv /\ LedgerInv /\ Summary /\ Grows /\ MoneyStep
    => LedgerInv'
<1> SUFFICES ASSUME TypeOK, TypeOK', AmountInv, AmountInv', ConfirmedInv,
                    CallInv, LedgerInv, Summary, Grows, MoneyStep
             PROVE  LedgerInv'
  OBVIOUS
<1>t. \A o \in Orders : taken[o] \in Int /\ taken'[o] \in Int
  BY DEF TypeOK
<1>k. ASSUME NEW o \in Orders, o \notin history'.collided, NEW x \in Nat, Covers(o, x)
      PROVE  Covers(o, x)'
  BY <1>k, <1>t, KeptBacked, CoversIsBacked
<1>1. ASSUME NEW o \in Orders, o \notin history'.collided PROVE Covers(o, 0)'
  BY <1>1, <1>k DEF LedgerInv, Grows
<1>2. ASSUME NEW o \in Orders, orders'[o].status \in Reversed
      PROVE  \E r \in history'.confirmed \cap returned' :
               /\ Tells(orders'[o], o, r)
               /\ o \in history'.collided \/ Covers(o, r.plan)'
  <2>0. /\ history.confirmed \subseteq history'.confirmed /\ returned \subseteq returned'
        /\ history.collided \subseteq history'.collided
        /\ history.confirmed \subseteq AskSet
    BY DEF Grows, TypeOK
  <2>1. CASE orders'[o] = orders[o]
    <3>1. PICK r \in history.confirmed \cap returned :
            Tells(orders[o], o, r) /\ (o \in history.collided \/ Covers(o, r.plan))
      BY <1>2, <2>1 DEF LedgerInv, Tells
    <3>2. r.plan \in Nat
      BY <2>0 DEF AskSet
    <3>3. o \in history'.collided \/ Covers(o, r.plan)'
      BY <1>k, <2>0, <3>1, <3>2
    <3>4. QED BY <2>0, <2>1, <3>1, <3>3
  <2>2. ASSUME NEW h \in Handlers, OrderOf(h) = o, Ends(h)
        PROVE  \E r \in history'.confirmed \cap returned' :
                 /\ Tells(orders'[o], o, r)
                 /\ o \in history'.collided \/ Covers(o, r.plan)'
    <3>0. PICK r : r = RefundOf(h)
      OBVIOUS
    <3>1. /\ At(h, "record")
          /\ orders'[o].status = FinalStatus(handler[h].amount)
          /\ orders'[o].refund_amount = handler[h].amount
      BY <1>2, <2>2 DEF Ends
    <3>2. /\ r.order = o /\ r.amount = handler[h].amount
          /\ r.gateway = handler[h].gateway /\ r.plan = handler[h].plan
      BY <2>2, <3>0 DEF RefundOf
    <3>3. r \in history'.confirmed \cap returned'
      BY <2>0, <3>0, <3>1 DEF ConfirmedInv
    <3>4. Tells(orders'[o], o, r)
      <4>1. r.gateway \in {r.amount, orders'[o].pay_amount}
        BY <3>1, <3>2 DEF AmountInv, At
      <4>2. r.amount < Amount <=> orders'[o].status = "PARTIALLY_REFUNDED"
        BY <3>1, <3>2 DEF FinalStatus
      <4>3. QED BY <3>1, <3>2, <4>1, <4>2 DEF Tells
    <3>5. o \in history'.collided \/ Covers(o, r.plan)'
      BY <2>2, <3>1, <3>2, RecordedCovers
    <3>6. QED BY <3>3, <3>4, <3>5
  <2>3. RowStep(o)
    BY DEF Summary
  <2>4. QED BY <1>2, <2>1, <2>2, <2>3 DEF RowStep, Takes, Overtakes, Reversed
<1>3. QED BY <1>1, <1>2 DEF LedgerInv, Tells

-----------------------------------------------------------------------------
(***************************************************************************)
(* The theorems.                                                           *)
(***************************************************************************)

LEMMA IInvInit == Init => IInv
  BY TypeInit, LockInit, ConfirmedInit, CallInit, LedgerInit DEF IInv

LEMMA IInvStep == IInv /\ [Next]_vars => IInv'
<1> SUFFICES ASSUME IInv, [Next]_vars PROVE IInv'
  OBVIOUS
<1>1. TypeOK /\ AmountInv /\ LockInv /\ ConfirmedInv /\ CallInv /\ LedgerInv
  BY DEF IInv
<1>2. TypeOK' /\ AmountInv'
  BY <1>1, TypeStep
<1>3. Summary /\ Grows /\ MoneyStep
  BY <1>1, StepSummary, MemoryGrows, MoneySummary
<1>4. LockInv' /\ CallInv'
  BY <1>1, <1>3, LockStep, CallStep
<1>5. ConfirmedInv'
  BY <1>1, <1>3, <1>4, ConfirmedStep
<1>6. LedgerInv'
  BY <1>1, <1>2, <1>3, LedgerStep
<1>7. QED BY <1>2, <1>4, <1>5, <1>6 DEF IInv

\* The inductive invariant of the refund: the types, what is paid, the lock,
\* the confirmed refunds, the calls to the platform and the ledger.
THEOREM InvariantHolds == Spec => []IInv
  BY IInvInit, IInvStep, PTL DEF Spec

\* The conditional UPDATE to REFUNDING is a lock: two administrators never
\* refund one order at the same time, unless a handler that had restored the
\* order and could not write its audit row marked the refund of another failed.
THEOREM LockIsExclusive == Spec => []SingleRefunder
<1>1. IInv => SingleRefunder
  BY DEF IInv, LockInv
<1>2. QED BY <1>1, InvariantHolds, PTL

\* Every path out of a refund ends the REFUNDING status, unless the handler
\* was cut short.
THEOREM LockIsReleased == Spec => []RefundingHasHolder
<1>1. IInv => RefundingHasHolder
  BY DEF IInv, LockInv
<1>2. QED BY <1>1, InvariantHolds, PTL

\* The gateway confirms at most one refund of an order, unless a confirmed one
\* could not be recorded or a late Err arm let a second refund in.
THEOREM RefundIsSingle == Spec => []RefundedOnce
<1>1. IInv => RefundedOnce
  BY DEF IInv, ConfirmedInv
<1>2. QED BY <1>1, InvariantHolds, PTL

\* A row shown as refunded is one the gateway refunded, in the amount recorded,
\* and the deduction of that refund is not undone, even when several refunds
\* worked on the order at a time.
THEOREM ReversalIsBacked == Spec => []ReversedIsBacked
<1>1. ASSUME IInv PROVE ReversedIsBacked
  <2>1. TypeOK /\ LedgerInv
    BY <1>1 DEF IInv
  <2>2. ASSUME NEW o \in Orders, NEW x \in Nat, Covers(o, x) PROVE taken[o] >= x
    <3>1. taken[o] \in Int /\ Backed(Rollbacks(o), Deductions(o), taken[o], x)
      BY <2>1, <2>2, CoversIsBacked DEF TypeOK
    <3>2. QED BY <3>1, BackedTaken
  <2>3. \A r \in history.confirmed : r.plan \in Nat
    BY <2>1 DEF TypeOK, AskSet
  <2>4. QED BY <2>1, <2>2, <2>3 DEF LedgerInv, ReversedIsBacked
<1>2. QED BY <1>1, InvariantHolds, PTL

\* Failed refunds never give back more balance than they took, whatever the
\* order in which deductions and rollbacks reach the platform, and however many
\* refunds of the order are under way.
THEOREM NothingIsMinted == Spec => []NeverMinted
<1>1. ASSUME IInv PROVE NeverMinted
  <2>1. TypeOK /\ LedgerInv
    BY <1>1 DEF IInv
  <2>2. ASSUME NEW o \in Orders \ history.collided PROVE taken[o] >= 0
    <3>1. taken[o] \in Int /\ Backed(Rollbacks(o), Deductions(o), taken[o], 0)
      BY <2>1, CoversIsBacked DEF TypeOK, LedgerInv
    <3>2. QED BY <3>1, BackedTaken
  <2>3. QED BY <2>2 DEF NeverMinted
<1>2. QED BY <1>1, InvariantHolds, PTL

\* Only a handler that holds the lock asks the gateway.
LEMMA AskedBy ==
    ASSUME [Next]_vars
    PROVE  asked' \subseteq asked \/ \E h \in Handlers : AskGateway(h)
<1> USE DEF platformVars, gatewayVars
<1>1. ASSUME NEW h \in Handlers, Progress(h) PROVE UNCHANGED asked \/ AskGateway(h)
  <2>1. CASE \/ MarkRefundRequested(h) \/ MarkRefunding(h) \/ MarkRefundingRefused(h)
             \/ SubtractBalance(h) \/ NothingToDeduct(h) \/ DeductionOk(h)
    BY <2>1 DEF MarkRefundRequested, MarkRefunding, MarkRefundingRefused,
                SubtractBalance, NothingToDeduct, DeductionOk
  <2>2. CASE \/ DeductionError(h) \/ GatewayOk(h) \/ GatewayError(h)
             \/ AddBalance(h) \/ RollbackOk(h) \/ RollbackError(h)
    BY <2>2 DEF DeductionError, GatewayOk, GatewayError, AddBalance, RollbackOk,
                RollbackError
  <2>3. CASE \/ Restore(h) \/ MarkRefunded(h) \/ AuditRefund(h)
             \/ MarkRefundFailed(h) \/ LateRefundFailed(h)
    BY <2>3 DEF Restore, MarkRefunded, AuditRefund, MarkRefundFailed,
                LateRefundFailed, EndRefund
  <2>4. QED BY <1>1, <2>1, <2>2, <2>3 DEF Progress
<1>2. ASSUME NEW h \in Handlers, DbError(h) \/ Interrupt(h) PROVE UNCHANGED asked
  BY <1>2 DEF DbError, Interrupt
<1>3. ASSUME NEW h \in Handlers, NEW o \in Orders,
             \/ BeginRefund(h, o)
             \/ \E amount \in RefundAmounts : BeginRequest(h, o, amount)
      PROVE  UNCHANGED asked
  BY <1>3 DEF BeginRefund, BeginRequest
<1>4. QED
  BY <1>1, <1>2, <1>3 DEF Next, PlatformApplies, GatewayRefunds, Tick, vars

\* A refunded order is final: its row does not change again, not by a late Err
\* arm either; and the gateway is asked again for it only by a refund which
\* such an arm had let in before.
THEOREM ReversalIsFinal == Spec => ReversedIsFinal
<1>1. ASSUME IInv, [Next]_vars
      PROVE  \A o \in Orders : orders[o].status \in Reversed =>
               /\ orders'[o] = orders[o]
               /\ \A r \in asked' \ asked : r.order = o => o \in history.overtaken
  <2>1. TypeOK /\ LockInv /\ Summary
    BY <1>1, StepSummary DEF IInv
  <2>2. ASSUME NEW o \in Orders, orders[o].status \in Reversed
        PROVE  /\ orders'[o] = orders[o]
               /\ \A h \in Handlers : HoldsLock(h, o) => o \in history.overtaken
    BY <2>1, <2>2, ReversedStays
  <2>3. ASSUME NEW r \in asked' \ asked
        PROVE  \E h \in Handlers : HoldsLock(h, r.order)
    <3>1. PICK h \in Handlers : AskGateway(h)
      BY <1>1, <2>3, AskedBy
    <3>2. r = RefundOf(h) /\ handler[h].pc \in LockedPCs
      BY <2>3, <3>1 DEF AskGateway, At, LockedPCs
    <3>3. QED BY <3>2 DEF RefundOf, HoldsLock
  <2>4. QED BY <2>2, <2>3
<1>2. IInv /\ [Next]_vars =>
        [\A o \in Orders : orders[o].status \in Reversed =>
           /\ orders'[o] = orders[o]
           /\ \A r \in asked' \ asked : r.order = o => o \in history.overtaken]_vars
  BY <1>1
<1>3. QED BY <1>2, InvariantHolds, PTL DEF Spec, ReversedIsFinal

=============================================================================
