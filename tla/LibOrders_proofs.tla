-------------------------- MODULE LibOrders_proofs --------------------------
(***************************************************************************)
(* Proofs about LibOrders, for any sets of orders and requests and any     *)
(* limits, amounts and numbers of faults: one request at a time fulfils an *)
(* order, only a paid order is credited, none that took a payment is       *)
(* closed, and a notification is acknowledged only when nothing is left    *)
(* undone.                                                                 *)
(*                                                                         *)
(* The steps are gone through once, for what they do to a row (RowStep),   *)
(* to a handler (HandlerStep) and to the outside world (OutsideStep).  The *)
(* parts of the inductive invariant are proved from these summaries.       *)
(***************************************************************************)
EXTENDS LibOrders, TLAPS

USE LibOrdersAssumption

-----------------------------------------------------------------------------
(***************************************************************************)
(* Handlers, and rows as the UPDATEs write them.                           *)
(***************************************************************************)

PCs == {"idle"} \cup CreatePCs \cup CancelPCs \cup ConfirmPCs
         \cup FulfilPCs \cup RetryPCs

HandlerState ==
    [pc : PCs, op : Operations, order : Orders \cup {NULL}, tradeNo : BOOLEAN]

OthersSame(h) == \A x \in Handlers \ {h} : handler'[x] = handler[x]

RowsSame(o) == \A x \in Orders \ {o} : orders'[x] = orders[x]

Kept(h) ==
    handler'[h].order = handler[h].order /\ handler'[h].op = handler[h].op

HandlersOK == handler \in [Handlers -> HandlerState]

OrdersOK == orders \in [Orders -> Row \cup {Absent}]

OutsideOK ==
    /\ begun \subseteq Orders
    /\ now \in Time
    /\ gateway \in [Orders -> {"none", "open", "paid", "closed"}]
    /\ collected \in [Orders -> PaidAmounts \cup {NULL}]
    /\ acked \subseteq begun
    /\ redeemed \subseteq begun /\ inflight \subseteq begun
    /\ faults \in 0..MaxFaults /\ outages \in 0..MaxOutages

LEMMA TypeParts ==
    /\ TypeOK => HandlersOK /\ OrdersOK /\ OutsideOK
    /\ HandlersOK' /\ OrdersOK' /\ OutsideOK' => TypeOK'
  BY DEF TypeOK, HandlersOK, OrdersOK, OutsideOK, HandlerState, PCs

LEMMA IdleOK == Idle \in HandlerState /\ Idle.pc = "idle" /\ Idle.order = NULL
  BY DEF Idle, HandlerState, PCs, Operations

\* A handler that finishes is idle, one that goes on keeps its order, one that
\* begins has the order it begins with.
LEMMA HandlerEffect ==
    ASSUME HandlersOK, NEW h \in Handlers
    PROVE  /\ Finish(h) => /\ handler'[h] = Idle
                           /\ OthersSame(h) /\ HandlersOK'
           /\ \A pc \in PCs : Goto(h, pc) =>
                handler'[h].pc = pc /\ Kept(h) /\ OthersSame(h) /\ HandlersOK'
           /\ \A op \in Operations, o \in Orders, pc \in PCs :
                orders[o].tradeNo \in BOOLEAN /\ Begin(h, op, o, pc) =>
                  /\ At(h, "idle")
                  /\ handler'[h].pc = pc /\ handler'[h].order = o
                  /\ handler'[h].op = op
                  /\ OthersSame(h) /\ HandlersOK'
<1> USE DEF HandlersOK, OthersSame
<1>1. Finish(h) => handler'[h] = Idle /\ OthersSame(h) /\ HandlersOK'
  BY IdleOK DEF Finish
<1>2. ASSUME NEW pc \in PCs, Goto(h, pc)
      PROVE  handler'[h].pc = pc /\ Kept(h) /\ OthersSame(h) /\ HandlersOK'
  BY <1>2 DEF Goto, HandlerState, Kept
<1>3. ASSUME NEW op \in Operations, NEW o \in Orders, NEW pc \in PCs,
             orders[o].tradeNo \in BOOLEAN, Begin(h, op, o, pc)
      PROVE  /\ At(h, "idle")
             /\ handler'[h].pc = pc /\ handler'[h].order = o /\ handler'[h].op = op
             /\ OthersSame(h) /\ HandlersOK'
  BY <1>3 DEF Begin, HandlerState
<1>4. QED BY <1>1, <1>2, <1>3

\* A row that does not exist has no payment, no credit and no known status.
LEMMA RowFacts ==
    ASSUME NEW row \in Row \cup {Absent}
    PROVE  /\ row.status \in ORDER_STATUS \cup {"ABSENT"}
           /\ row.paidAt \in BOOLEAN /\ row.completedAt \in BOOLEAN
           /\ row.tradeNo \in BOOLEAN /\ row.updatedAt \in Time
           /\ Exists(row) <=> row.status # "ABSENT"
           /\ Exists(row) <=> row \in Row
           /\ ~Exists(row) => /\ row = Absent
                              /\ row.paidAt = FALSE /\ row.completedAt = FALSE
                              /\ ~IsPayable(row)
<1>1. /\ Absent.status = "ABSENT" /\ Absent.paidAt = FALSE
      /\ Absent.completedAt = FALSE /\ Absent.tradeNo = FALSE
      /\ Absent.updatedAt \in Time
  BY DEF Absent, Time
<1>2. "ABSENT" \notin ORDER_STATUS
  BY DEF ORDER_STATUS, REFUND_STATUSES
<1>3. \A r \in Row : /\ r.status \in ORDER_STATUS /\ r.paidAt \in BOOLEAN
                      /\ r.completedAt \in BOOLEAN /\ r.tradeNo \in BOOLEAN
                      /\ r.updatedAt \in Time /\ r # Absent
  <2>1. \A r \in Row : /\ r.status \in ORDER_STATUS /\ r.paidAt \in BOOLEAN
                        /\ r.completedAt \in BOOLEAN /\ r.tradeNo \in BOOLEAN
                        /\ r.updatedAt \in Time
    BY DEF Row
  <2>2. QED BY <1>1, <1>2, <2>1
<1>4. QED BY <1>1, <1>2, <1>3 DEF Exists, IsPayable

LEMMA NewRow ==
    ASSUME NEW e \in Nat
    PROVE  LET new == [Absent EXCEPT !.status = "PENDING", !.expiresAt = e] IN
             /\ new \in Row /\ new.status = "PENDING"
             /\ new.paidAt = FALSE /\ new.completedAt = FALSE
<1> DEFINE Any == [status : ORDER_STATUS \cup {"ABSENT"}, paidAt : BOOLEAN,
                   completedAt : BOOLEAN, tradeNo : BOOLEAN, updatedAt : Time,
                   expiresAt : Nat]
           new == [Absent EXCEPT !.status = "PENDING", !.expiresAt = e]
<1>1. /\ Absent \in Any /\ "PENDING" \in ORDER_STATUS
      /\ Absent.paidAt = FALSE /\ Absent.completedAt = FALSE
  BY DEF Absent, Time, ORDER_STATUS
<1>2. /\ new \in Any /\ new.status = "PENDING"
      /\ new.paidAt = Absent.paidAt /\ new.completedAt = Absent.completedAt
  BY <1>1
<1> HIDE DEF new
<1>3. new \in Row
  BY <1>1, <1>2 DEF Row
<1>4. QED BY <1>1, <1>2, <1>3 DEF new

\* The row that MarkPaid writes.
PaidRow(row) == [row EXCEPT !.status = "PAID", !.paidAt = TRUE, !.tradeNo = TRUE]

LEMMA PaidRowOK ==
    ASSUME NEW row \in Row
    PROVE  /\ PaidRow(row) \in Row /\ PaidRow(row).status = "PAID"
           /\ PaidRow(row).paidAt = TRUE
           /\ PaidRow(row).completedAt = row.completedAt
<1> DEFINE u == [row EXCEPT !.status = "PAID", !.paidAt = TRUE]
           v == [u EXCEPT !.tradeNo = TRUE]
<1>1. /\ u \in Row /\ u.status = "PAID" /\ u.paidAt = TRUE
      /\ u.completedAt = row.completedAt
  BY DEF Row, ORDER_STATUS
<1>2. v = PaidRow(row)
  BY DEF PaidRow
<1> HIDE DEF u
<1>3. /\ v \in Row /\ v.status = "PAID" /\ v.paidAt = TRUE
      /\ v.completedAt = row.completedAt
  BY <1>1 DEF Row
<1>4. QED BY <1>2, <1>3

\* A write changes the row of one order.
LEMMA WriteEffect ==
    ASSUME OrdersOK, NEW o \in Orders, NEW row, Write(o, row)
    PROVE  /\ orders'[o] = row /\ RowsSame(o)
           /\ row \in Row \cup {Absent} => OrdersOK'
  BY DEF OrdersOK, Write, RowsSame

-----------------------------------------------------------------------------
(***************************************************************************)
(* What a step does.                                                       *)
(***************************************************************************)

KeepsDates(o) ==
    /\ orders'[o].paidAt = orders[o].paidAt
    /\ orders'[o].completedAt = orders[o].completedAt

Hop(h, from, to) == At(h, from) /\ handler'[h].pc = to

\* A handler writes its row as it goes on.
Writes(h) ==
    LET o == OrderOf(h)
        status == orders[o].status
        new == orders'[o].status
    IN  \/ /\ Hop(h, "insert", "provider") /\ new = "PENDING" /\ UNCHANGED gateway
           /\ ~orders'[o].paidAt /\ ~orders'[o].completedAt
        \/ /\ Hop(h, "attach", "audit_created") /\ new = status /\ KeepsDates(o)
           /\ orders'[o].updatedAt = orders[o].updatedAt
        \/ /\ Hop(h, "close", "audit_closed") /\ KeepsDates(o)
           /\ status = "PENDING" /\ new \in {"CANCELLED", "EXPIRED"}
        \/ /\ Hop(h, "mark_paid", "audit_paid") /\ IsPayable(orders[o])
           /\ new = "PAID" /\ orders'[o].paidAt
           /\ orders'[o].completedAt = orders[o].completedAt
        \/ /\ Hop(h, "lock", "redeem") /\ KeepsDates(o)
           /\ IsLockable(orders[o]) /\ new = "RECHARGING"
        \/ /\ Hop(h, "complete", "audit_success")
           /\ status = "RECHARGING" /\ new = "COMPLETED"
           /\ orders'[o].paidAt = orders[o].paidAt
        \/ /\ Hop(h, "fail", "audit_failed") /\ KeepsDates(o)
           /\ Exists(orders[o]) /\ new = "FAILED"
        \/ /\ Hop(h, "reset", "audit_retry") /\ KeepsDates(o)
           /\ IsRetryable(orders[o]) /\ new = "PAID"

Deletes(h) ==
    At(h, "delete") /\ handler'[h] = Idle /\ orders'[OrderOf(h)] = Absent

\* A handler goes on and writes nothing.
Passes(h) ==
    LET o == OrderOf(h)
        status == orders[o].status
        to == handler'[h].pc
    IN  /\ UNCHANGED orders
        /\ \/ handler[h].pc \in BeforeInsertPCs /\ to \in BeforeInsertPCs
           \/ Hop(h, "provider", "attach")
           \/ handler[h].pc \in {"provider", "attach", "audit_created"} /\ to = "delete"
           \/ At(h, "query") /\ to \in {"cancel_payment", "close"}
           \/ Hop(h, "query", "find") /\ collected[o] # NULL
           \/ Hop(h, "cancel_payment", "close")
           \/ Hop(h, "find", "mark_paid") /\ AmountAccepted(collected[o])
           \/ Hop(h, "mark_paid", "reread") /\ ~IsPayable(orders[o])
           \/ Hop(h, "reread", "exec") /\ status = "FAILED"
           \/ handler[h].pc \in {"audit_paid", "audit_retry"} /\ to = "exec"
           \/ Hop(h, "exec", "lock")
           \/ Hop(h, "redeem", "complete") /\ o \in redeemed'
           \/ Hop(h, "redeem", "fail")
           \/ Hop(h, "complete", "audit_success") /\ status # "RECHARGING"
           \/ handler[h].pc \in {"complete", "audit_success"} /\ to = "fail" /\ ~Faultless'
           \/ handler[h].pc \in ConfirmPCs /\ to = "close" /\ ~Faultless'

GoesOn(h) == ~At(h, "idle") /\ Kept(h) /\ (Writes(h) \/ Passes(h))

\* Without faults, who works on a fulfilment leaves only when it is settled.
Leaves(h) ==
    /\ ~At(h, "idle") /\ handler'[h] = Idle
    /\ Faultless' =>
         /\ handler[h].pc \notin {"audit_paid", "audit_retry", "redeem", "complete"}
         /\ At(h, "exec") => RowOf(h).status \notin {"PAID", "FAILED"}
         /\ At(h, "lock") => ~IsLockable(RowOf(h))
         /\ At(h, "fail") => ~Exists(RowOf(h))

Begins(h) ==
    LET o == handler'[h].order
        to == handler'[h].pc
    IN  /\ At(h, "idle") /\ o \in Orders /\ UNCHANGED orders
        /\ \/ to = "count_pending" /\ o \notin begun /\ o \in begun'
           \/ to \in {"query", "close"} /\ orders[o].status = "PENDING"
           \/ to = "find" /\ collected[o] # NULL
           \/ to = "reset" /\ IsRetryable(orders[o])

RowStep(o) ==
    \/ orders'[o] = orders[o]
    \/ \E h \in Handlers : OrderOf(h) = o /\ (Writes(h) \/ Deletes(h))

HandlerStep(h) ==
    handler'[h] = handler[h] \/ Begins(h) \/ GoesOn(h) \/ Leaves(h)

OneMoves ==
    \A x, y \in Handlers :
        handler'[x] # handler[x] /\ handler'[y] # handler[y] => x = y

\* The handler answers a notification with success.
Acks(h) ==
    /\ UNCHANGED orders
    /\ \/ At(h, "reread") /\ RowOf(h).status \notin {"PAID", "RECHARGING", "FAILED"}
       \/ At(h, "exec") /\ RowOf(h).status = "COMPLETED"
       \/ At(h, "lock") /\ ~IsLockable(RowOf(h))
       \/ At(h, "audit_success")

GatewayStep(o) ==
    \/ gateway'[o] = gateway[o] /\ collected'[o] = collected[o]
    \/ /\ \E h \in Handlers : /\ At(h, "provider") /\ OrderOf(h) = o
                             /\ handler'[h].pc # "provider"
       /\ gateway'[o] = "open" /\ collected'[o] = collected[o]
    \/ gateway[o] = "open" /\ gateway'[o] = "closed" /\ collected'[o] = collected[o]
    \/ gateway[o] = "open" /\ gateway'[o] = "paid" /\ collected'[o] # NULL

OutsideStep ==
    /\ begun \subseteq begun' /\ redeemed \subseteq redeemed'
    /\ now <= now' /\ (Faultless' => Faultless)
    /\ \A o \in Orders : GatewayStep(o)
    /\ \A o \in redeemed' \cup inflight' :
         \/ o \in redeemed \cup inflight
         \/ \E h \in Handlers : At(h, "redeem") /\ OrderOf(h) = o
    /\ \A o \in acked' :
         o \in acked \/ \E h \in Handlers : Acks(h) /\ OrderOf(h) = o

Summary ==
    /\ \A o \in Orders : RowStep(o)
    /\ \A h \in Handlers : HandlerStep(h)
    /\ OneMoves

\* What a step of one handler comes to.
Moved(h) ==
    /\ HandlersOK' /\ OthersSame(h) /\ HandlerStep(h)
    /\ OrdersOK'
    /\ \/ UNCHANGED orders
       \/ RowsSame(OrderOf(h)) /\ RowStep(OrderOf(h))

LEMMA MovedSummary == ASSUME NEW h \in Handlers, Moved(h) PROVE Summary
<1>1. \A o \in Orders : RowStep(o)
  BY DEF Moved, RowStep, RowsSame
<1>2. \A x \in Handlers : HandlerStep(x)
  BY DEF Moved, HandlerStep, OthersSame
<1>3. OneMoves
  BY DEF Moved, OneMoves, OthersSame
<1>4. QED BY <1>1, <1>2, <1>3 DEF Summary

\* A handler that is not idle has an order.
LEMMA OrderFacts ==
    ASSUME TypeOK, CreationInv, NEW h \in Handlers, ~At(h, "idle")
    PROVE  /\ OrderOf(h) \in begun /\ OrderOf(h) \in Orders
           /\ RowOf(h) = orders[OrderOf(h)] /\ RowOf(h) \in Row \cup {Absent}
           /\ HandlersOK /\ OrdersOK
  BY TypeParts DEF CreationInv, OutsideOK, OrdersOK, RowOf

\* A handler that goes on without a write, that writes, or that leaves.
LEMMA PassMoves ==
    ASSUME TypeOK, CreationInv, NEW h \in Handlers, ~At(h, "idle"),
           NEW pc \in PCs, Goto(h, pc), UNCHANGED orders,
           handler'[h].pc = pc => Passes(h)
    PROVE  Moved(h)
<1>1. HandlersOK /\ OrdersOK
  BY TypeParts
<1>2. handler'[h].pc = pc /\ Kept(h) /\ OthersSame(h) /\ HandlersOK'
  BY <1>1, HandlerEffect
<1>3. OrdersOK'
  BY <1>1 DEF OrdersOK
<1>4. QED BY <1>2, <1>3 DEF Moved, HandlerStep, GoesOn

LEMMA WriteMoves ==
    ASSUME TypeOK, CreationInv, NEW h \in Handlers, ~At(h, "idle"),
           NEW pc \in PCs, Goto(h, pc), NEW row \in Row, Write(OrderOf(h), row),
           handler'[h].pc = pc /\ orders'[OrderOf(h)] = row => Writes(h)
    PROVE  Moved(h)
<1>1. HandlersOK /\ OrdersOK /\ OrderOf(h) \in Orders
  BY OrderFacts
<1>2. handler'[h].pc = pc /\ Kept(h) /\ OthersSame(h) /\ HandlersOK'
  BY <1>1, HandlerEffect
<1>3. orders'[OrderOf(h)] = row /\ RowsSame(OrderOf(h)) /\ OrdersOK'
  BY <1>1, WriteEffect
<1>4. QED BY <1>2, <1>3 DEF Moved, HandlerStep, GoesOn, RowStep

LEMMA LeaveMoves ==
    ASSUME TypeOK, NEW h \in Handlers, ~At(h, "idle"), Finish(h), UNCHANGED orders,
           handler'[h] = Idle => Leaves(h)
    PROVE  Moved(h)
<1>1. HandlersOK /\ OrdersOK
  BY TypeParts
<1>2. handler'[h] = Idle /\ OthersSame(h) /\ HandlersOK'
  BY <1>1, HandlerEffect
<1>3. OrdersOK'
  BY <1>1 DEF OrdersOK
<1>4. QED BY <1>2, <1>3 DEF Moved, HandlerStep

\* Creation.
LEMMA CreateMoves ==
    ASSUME TypeOK, CreationInv, NEW h \in Handlers,
           \/ CountPending(h) \/ SumUser(h) \/ SumMethod(h) \/ InsertOrder(h)
           \/ CreatePayment(h) \/ AttachPayment(h) \/ AuditCreated(h)
           \/ DeleteOrder(h) \/ CreatePaymentFails(h)
    PROVE  Moved(h)
<1> USE DEF outside
<1>a. ASSUME NEW pc \in BeforeInsertPCs, NEW next \in BeforeInsertPCs,
             NEW admitted, Admit(h, pc, admitted, next)
      PROVE  Moved(h)
  <2>1. At(h, pc) /\ UNCHANGED orders /\ (Goto(h, next) \/ Finish(h))
    BY <1>a DEF Admit
  <2>2. ~At(h, "idle") /\ next \in PCs /\ handler[h].pc \in BeforeInsertPCs
    BY <1>a, <2>1 DEF At, BeforeInsertPCs, PCs, CreatePCs
  <2>3. CASE Goto(h, next)
    BY <1>a, <2>1, <2>2, <2>3, PassMoves DEF Passes
  <2>4. CASE Finish(h)
    BY <2>1, <2>2, <2>4, LeaveMoves DEF Leaves, At, BeforeInsertPCs
  <2>5. QED BY <2>1, <2>3, <2>4
<1>1. CASE CountPending(h) \/ SumUser(h) \/ SumMethod(h)
  BY <1>1, <1>a DEF CountPending, SumUser, SumMethod, BeforeInsertPCs
<1>2. CASE InsertOrder(h)
  <2> DEFINE row == [Absent EXCEPT !.status = "PENDING", !.expiresAt = now + Ttl]
  <2>1. /\ At(h, "insert") /\ Goto(h, "provider") /\ UNCHANGED gateway
        /\ Write(OrderOf(h), row)
    BY <1>2 DEF InsertOrder
  <2>2. now + Ttl \in Nat
    BY DEF TypeOK, Time
  <2>3. /\ row \in Row /\ row.status = "PENDING"
        /\ row.paidAt = FALSE /\ row.completedAt = FALSE
    BY <2>2, NewRow
  <2> HIDE DEF row
  <2>4. ~At(h, "idle") /\ "provider" \in PCs
    BY <2>1 DEF At, PCs, CreatePCs
  <2>5. QED BY <2>1, <2>3, <2>4, WriteMoves DEF Writes, Hop
<1>3. CASE CreatePayment(h) \/ CreatePaymentFails(h)
  <2>1. /\ At(h, "provider") /\ UNCHANGED orders
        /\ Goto(h, "attach") \/ Goto(h, "delete")
    BY <1>3 DEF CreatePayment, CreatePaymentFails
  <2>2. QED BY <2>1, PassMoves DEF Passes, Hop, At, PCs, CreatePCs
<1>4. CASE AttachPayment(h)
  <2> DEFINE row == [RowOf(h) EXCEPT !.tradeNo = TRUE]
  <2>1. At(h, "attach") /\ Goto(h, "audit_created") /\ Write(OrderOf(h), row)
    BY <1>4 DEF AttachPayment
  <2>2. ~At(h, "idle") /\ "audit_created" \in PCs
    BY <2>1 DEF At, PCs, CreatePCs
  <2>3. RowOf(h) \in Row
    BY <2>1, <2>2, OrderFacts, RowFacts
       DEF CreationInv, AfterInsertPCs, BeforeInsertPCs, CreatePCs, At
  <2>4. /\ row \in Row /\ row.status = RowOf(h).status
        /\ row.paidAt = RowOf(h).paidAt /\ row.completedAt = RowOf(h).completedAt
        /\ row.updatedAt = RowOf(h).updatedAt
    BY <2>3 DEF Row
  <2> HIDE DEF row
  <2>5. QED BY <2>1, <2>2, <2>4, WriteMoves DEF Writes, Hop, KeepsDates, RowOf
<1>5. CASE AuditCreated(h)
  BY <1>5, LeaveMoves DEF AuditCreated, Leaves, At
<1>6. CASE DeleteOrder(h)
  <2>1. At(h, "delete") /\ Finish(h) /\ Write(OrderOf(h), Absent) /\ ~At(h, "idle")
    BY <1>6 DEF DeleteOrder, At
  <2>2. HandlersOK /\ OrdersOK /\ OrderOf(h) \in Orders
    BY <2>1, OrderFacts
  <2>3. handler'[h] = Idle /\ OthersSame(h) /\ HandlersOK'
    BY <2>1, <2>2, HandlerEffect
  <2>4. orders'[OrderOf(h)] = Absent /\ RowsSame(OrderOf(h)) /\ OrdersOK'
    BY <2>1, <2>2, WriteEffect
  <2>5. Leaves(h) /\ Deletes(h)
    BY <2>1, <2>3, <2>4 DEF Leaves, Deletes, At
  <2>6. QED BY <2>3, <2>4, <2>5 DEF Moved, HandlerStep, RowStep
<1>7. QED
  BY <1>1, <1>2, <1>3, <1>4, <1>5, <1>6

\* Cancellation and expiry.
LEMMA CancelMoves ==
    ASSUME TypeOK, CreationInv, NEW h \in Handlers,
           \/ QueryOrder(h) \/ QueryOrderFails(h) \/ CancelPayment(h)
           \/ CloseOrder(h) \/ CloseOrderRefused(h) \/ AuditClosed(h)
    PROVE  Moved(h)
<1> USE DEF outside
<1>1. CASE QueryOrder(h)
  <2>1. /\ At(h, "query") /\ UNCHANGED orders
        /\ \/ Goto(h, "find") /\ collected[OrderOf(h)] # NULL
           \/ Goto(h, "cancel_payment")
    BY <1>1 DEF QueryOrder
  <2>2. QED BY <2>1, PassMoves DEF Passes, Hop, At, PCs, CancelPCs, ConfirmPCs
<1>2. CASE QueryOrderFails(h) \/ CancelPayment(h)
  <2>1. /\ At(h, "query") \/ At(h, "cancel_payment")
        /\ UNCHANGED orders /\ Goto(h, "close")
    BY <1>2 DEF QueryOrderFails, CancelPayment
  <2>2. QED BY <2>1, PassMoves DEF Passes, Hop, At, PCs, CancelPCs
<1>3. CASE CloseOrder(h)
  <2> DEFINE row == [RowOf(h) EXCEPT !.status = FinalStatus(h), !.updatedAt = now]
  <2>1. /\ At(h, "close") /\ Goto(h, "audit_closed") /\ Write(OrderOf(h), row)
        /\ RowOf(h).status = "PENDING" /\ ~At(h, "idle") /\ "audit_closed" \in PCs
    BY <1>3 DEF CloseOrder, At, PCs, CancelPCs
  <2>2. RowOf(h) \in Row /\ now \in Time
    BY <2>1, OrderFacts, RowFacts DEF TypeOK
  <2>3. FinalStatus(h) \in {"CANCELLED", "EXPIRED"} /\ FinalStatus(h) \in ORDER_STATUS
    BY DEF FinalStatus, ORDER_STATUS
  <2>4. /\ row \in Row /\ row.status = FinalStatus(h)
        /\ row.paidAt = RowOf(h).paidAt /\ row.completedAt = RowOf(h).completedAt
    BY <2>2, <2>3 DEF Row
  <2> HIDE DEF row
  <2>5. QED BY <2>1, <2>3, <2>4, WriteMoves DEF Writes, Hop, KeepsDates, RowOf
<1>4. CASE CloseOrderRefused(h) \/ AuditClosed(h)
  BY <1>4, LeaveMoves DEF CloseOrderRefused, AuditClosed, Leaves, At
<1>5. QED
  BY <1>1, <1>2, <1>3, <1>4

\* Confirmation of a payment.
LEMMA ConfirmMoves ==
    ASSUME TypeOK, CreationInv, NEW h \in Handlers,
           \/ FindOrder(h) \/ MarkPaid(h) \/ MarkPaidRefused(h)
           \/ RereadOrder(h) \/ AuditPaid(h)
    PROVE  Moved(h)
<1> USE DEF outside
<1>1. CASE FindOrder(h)
  <2>1. /\ At(h, "find") /\ UNCHANGED orders
        /\ \/ Goto(h, "mark_paid") /\ AmountAccepted(collected[OrderOf(h)])
           \/ Finish(h)
    BY <1>1 DEF FindOrder, Answer
  <2>2. QED BY <2>1, PassMoves, LeaveMoves DEF Passes, Leaves, Hop, At, PCs, ConfirmPCs
<1>2. CASE MarkPaid(h)
  <2>1. /\ At(h, "mark_paid") /\ Goto(h, "audit_paid")
        /\ Write(OrderOf(h), PaidRow(RowOf(h))) /\ IsPayable(RowOf(h))
        /\ ~At(h, "idle") /\ "audit_paid" \in PCs
    BY <1>2 DEF MarkPaid, PaidRow, At, PCs, ConfirmPCs
  <2>2. RowOf(h) \in Row
    BY <2>1, OrderFacts, RowFacts
  <2>3. /\ PaidRow(RowOf(h)) \in Row /\ PaidRow(RowOf(h)).status = "PAID"
        /\ PaidRow(RowOf(h)).paidAt = TRUE
        /\ PaidRow(RowOf(h)).completedAt = RowOf(h).completedAt
    BY <2>2, PaidRowOK
  <2>4. QED BY <2>1, <2>3, WriteMoves DEF Writes, Hop, RowOf
<1>3. CASE MarkPaidRefused(h)
  <2>1. At(h, "mark_paid") /\ UNCHANGED orders /\ ~IsPayable(RowOf(h)) /\ Goto(h, "reread")
    BY <1>3 DEF MarkPaidRefused
  <2>2. QED BY <2>1, PassMoves DEF Passes, Hop, At, RowOf, PCs, ConfirmPCs
<1>4. CASE RereadOrder(h)
  <2>1. /\ At(h, "reread") /\ UNCHANGED orders
        /\ \/ Goto(h, "exec") /\ RowOf(h).status = "FAILED"
           \/ Finish(h)
    BY <1>4 DEF RereadOrder, Answer
  <2>2. QED
    BY <2>1, PassMoves, LeaveMoves DEF Passes, Leaves, Hop, At, RowOf, PCs, FulfilPCs
<1>5. CASE AuditPaid(h)
  <2>1. At(h, "audit_paid") /\ UNCHANGED orders /\ Goto(h, "exec")
    BY <1>5 DEF AuditPaid
  <2>2. QED BY <2>1, PassMoves DEF Passes, Hop, At, PCs, FulfilPCs
<1>6. QED
  BY <1>1, <1>2, <1>3, <1>4, <1>5

\* Fulfilment and its retry.
LEMMA FulfilMoves ==
    ASSUME TypeOK, CreationInv, NEW h \in Handlers,
           \/ ReadForFulfilment(h) \/ LockOrder(h) \/ Redeem(h) \/ RedeemFails(h)
           \/ CompleteOrder(h) \/ AuditSuccess(h) \/ FailOrder(h)
           \/ FailOrderMissing(h) \/ AuditFailed(h) \/ ResetOrder(h) \/ AuditRetry(h)
    PROVE  Moved(h)
<1> USE DEF outside
<1>a. ASSUME NEW s \in ORDER_STATUS, RowOf(h) \in Row
      PROVE  LET row == [RowOf(h) EXCEPT !.status = s] IN
             /\ row \in Row /\ row.status = s
             /\ row.paidAt = RowOf(h).paidAt /\ row.completedAt = RowOf(h).completedAt
  BY <1>a DEF Row
<1>s. {"RECHARGING", "COMPLETED", "FAILED", "PAID"} \subseteq ORDER_STATUS
  BY DEF ORDER_STATUS
<1>r. ~At(h, "idle") => /\ RowOf(h) = orders[OrderOf(h)]
                        /\ RowOf(h).status # "ABSENT" \/ RowOf(h).paidAt \/ Exists(RowOf(h))
                             => RowOf(h) \in Row
  BY OrderFacts, RowFacts
<1>1. CASE ReadForFulfilment(h)
  <2>1. /\ At(h, "exec") /\ UNCHANGED orders
        /\ \/ Goto(h, "lock")
           \/ Finish(h) /\ RowOf(h).status \notin {"PAID", "FAILED"}
    BY <1>1 DEF ReadForFulfilment, Fulfilled, Answer
  <2>2. QED BY <2>1, PassMoves, LeaveMoves DEF Passes, Leaves, Hop, At, PCs, FulfilPCs
<1>2. CASE LockOrder(h)
  <2> DEFINE row == [RowOf(h) EXCEPT !.status = "RECHARGING"]
  <2>1. At(h, "lock") /\ ~At(h, "idle") /\ "redeem" \in PCs
    BY <1>2 DEF LockOrder, At, PCs, FulfilPCs, LockedPCs
  <2>2. CASE IsLockable(RowOf(h)) /\ Write(OrderOf(h), row) /\ Goto(h, "redeem")
    <3>1. RowOf(h) \in Row
      BY <1>r, <2>1, <2>2 DEF IsLockable
    <3>2. /\ row \in Row /\ row.status = "RECHARGING"
          /\ row.paidAt = RowOf(h).paidAt /\ row.completedAt = RowOf(h).completedAt
      BY <1>a, <1>s, <3>1
    <3> HIDE DEF row
    <3>3. QED BY <2>1, <2>2, <3>2, WriteMoves DEF Writes, Hop, KeepsDates, RowOf
  <2>3. CASE ~IsLockable(RowOf(h)) /\ UNCHANGED orders /\ Finish(h)
    BY <2>1, <2>3, LeaveMoves DEF Leaves, At
  <2>4. QED BY <1>2, <2>2, <2>3 DEF LockOrder, Fulfilled, Answer
<1>3. CASE Redeem(h) \/ RedeemFails(h)
  <2>1. /\ At(h, "redeem") /\ UNCHANGED orders
        /\ \/ Goto(h, "complete") /\ OrderOf(h) \in redeemed'
           \/ Goto(h, "fail")
    BY <1>3 DEF Redeem, RedeemFails
  <2>2. QED BY <2>1, PassMoves DEF Passes, Hop, At, PCs, FulfilPCs, LockedPCs
<1>4. CASE CompleteOrder(h)
  <2> DEFINE row == [RowOf(h) EXCEPT !.status = "COMPLETED", !.completedAt = TRUE]
  <2>1. /\ At(h, "complete") /\ ~At(h, "idle") /\ "audit_success" \in PCs
        /\ Goto(h, "audit_success")
    BY <1>4 DEF CompleteOrder, At, PCs, FulfilPCs, LockedPCs
  <2>2. CASE RowOf(h).status = "RECHARGING" /\ Write(OrderOf(h), row)
    <3>1. RowOf(h) \in Row
      BY <1>r, <2>1, <2>2
    <3>2. /\ row \in Row /\ row.status = "COMPLETED" /\ row.paidAt = RowOf(h).paidAt
      BY <1>s, <3>1 DEF Row
    <3> HIDE DEF row
    <3>3. QED BY <2>1, <2>2, <3>2, WriteMoves DEF Writes, Hop, RowOf
  <2>3. CASE RowOf(h).status # "RECHARGING" /\ UNCHANGED orders
    BY <2>1, <2>3, PassMoves DEF Passes, Hop, RowOf
  <2>4. QED BY <1>4, <2>2, <2>3 DEF CompleteOrder
<1>5. CASE AuditSuccess(h) \/ AuditFailed(h)
  BY <1>5, LeaveMoves DEF AuditSuccess, AuditFailed, Fulfilled, Answer, Leaves, At
<1>6. CASE FailOrder(h)
  <2> DEFINE row == [RowOf(h) EXCEPT !.status = "FAILED"]
  <2>1. /\ At(h, "fail") /\ ~At(h, "idle") /\ "audit_failed" \in PCs
        /\ Goto(h, "audit_failed") /\ Exists(RowOf(h)) /\ Write(OrderOf(h), row)
    BY <1>6 DEF FailOrder, At, PCs, FulfilPCs
  <2>2. /\ row \in Row /\ row.status = "FAILED"
        /\ row.paidAt = RowOf(h).paidAt /\ row.completedAt = RowOf(h).completedAt
    BY <1>a, <1>r, <1>s, <2>1
  <2> HIDE DEF row
  <2>3. QED BY <2>1, <2>2, WriteMoves DEF Writes, Hop, KeepsDates, RowOf
<1>7. CASE FailOrderMissing(h)
  BY <1>7, LeaveMoves DEF FailOrderMissing, Fulfilled, Answer, Leaves, At
<1>8. CASE ResetOrder(h)
  <2> DEFINE row == [RowOf(h) EXCEPT !.status = "PAID"]
  <2>1. At(h, "reset") /\ ~At(h, "idle") /\ "audit_retry" \in PCs
    BY <1>8 DEF ResetOrder, At, PCs, RetryPCs
  <2>2. CASE IsRetryable(RowOf(h)) /\ Write(OrderOf(h), row) /\ Goto(h, "audit_retry")
    <3>1. RowOf(h) \in Row
      BY <1>r, <2>1, <2>2 DEF IsRetryable
    <3>2. /\ row \in Row /\ row.status = "PAID"
          /\ row.paidAt = RowOf(h).paidAt /\ row.completedAt = RowOf(h).completedAt
      BY <1>a, <1>s, <3>1
    <3> HIDE DEF row
    <3>3. QED BY <2>1, <2>2, <3>2, WriteMoves DEF Writes, Hop, KeepsDates, RowOf
  <2>3. CASE UNCHANGED orders /\ Finish(h)
    BY <2>1, <2>3, LeaveMoves DEF Leaves, At
  <2>4. QED BY <1>8, <2>2, <2>3 DEF ResetOrder
<1>9. CASE AuditRetry(h)
  <2>1. At(h, "audit_retry") /\ UNCHANGED orders /\ Goto(h, "exec")
    BY <1>9 DEF AuditRetry
  <2>2. QED BY <2>1, PassMoves DEF Passes, Hop, At, PCs, FulfilPCs
<1>10. QED
  BY <1>1, <1>2, <1>3, <1>4, <1>5, <1>6, <1>7, <1>8, <1>9

\* A call that throws, a request that is lost.
LEMMA FaultMoves ==
    ASSUME TypeOK, CreationInv, NEW h \in Handlers, ThrowInTry(h) \/ Interrupt(h)
    PROVE  Moved(h)
<1>1. UNCHANGED orders /\ ~Faultless'
  BY DEF ThrowInTry, Interrupt, Fault, Faultless, TypeOK
<1>2. CASE ThrowInTry(h)
  <2>1. \/ /\ handler[h].pc \in {"provider", "attach", "audit_created"}
           /\ Goto(h, "delete")
        \/ handler[h].pc \in {"complete", "audit_success"} /\ Goto(h, "fail")
        \/ handler[h].pc \in ConfirmPCs /\ Goto(h, "close")
    BY <1>2 DEF ThrowInTry
  <2>2. /\ {"delete", "fail", "close"} \subseteq PCs
        /\ ~At(h, "idle")
    BY <2>1 DEF PCs, CreatePCs, FulfilPCs, LockedPCs, CancelPCs, ConfirmPCs, At
  <2>3. QED BY <1>1, <2>1, <2>2, PassMoves DEF Passes
<1>3. CASE Interrupt(h)
  BY <1>1, <1>3, LeaveMoves DEF Interrupt, Leaves
<1>4. QED BY <1>2, <1>3

\* A request begins.
LEMMA BeginMoves ==
    ASSUME TypeOK, CreationInv, NEW h \in Handlers, NEW o \in Orders,
           Requests(h, o) \/ BeginNotify(h, o)
    PROVE  Moved(h)
<1> USE DEF outside
<1>1. HandlersOK /\ OrdersOK /\ orders[o] \in Row \cup {Absent}
  BY TypeParts DEF OrdersOK
<1>2. orders[o].tradeNo \in BOOLEAN
  BY <1>1, RowFacts
<1>3. UNCHANGED orders
  BY DEF Requests, BeginCreate, BeginCancel, BeginExpire, BeginRetry, BeginNotify
<1>4. OrdersOK'
  BY <1>1, <1>3 DEF OrdersOK
<1>5. ASSUME NEW op \in Operations, NEW pc \in PCs, Begin(h, op, o, pc),
             \/ pc = "count_pending" /\ o \notin begun /\ o \in begun'
             \/ pc \in {"query", "close"} /\ orders[o].status = "PENDING"
             \/ pc = "find" /\ collected[o] # NULL
             \/ pc = "reset" /\ IsRetryable(orders[o])
      PROVE  Moved(h)
  <2>1. /\ At(h, "idle") /\ handler'[h].pc = pc /\ handler'[h].order = o
        /\ OthersSame(h) /\ HandlersOK'
    BY <1>1, <1>2, <1>5, HandlerEffect
  <2>2. Begins(h)
    BY <1>3, <1>5, <2>1 DEF Begins
  <2>3. QED BY <1>3, <1>4, <2>1, <2>2 DEF Moved, HandlerStep
<1>6. CancelStart(o) \in {"query", "close"}
  BY DEF CancelStart
<1>7. /\ {"count_pending", "query", "close", "find", "reset"} \subseteq PCs
      /\ {"create", "cancel", "expire", "retry", "notify"} \subseteq Operations
  BY DEF PCs, CreatePCs, CancelPCs, ConfirmPCs, RetryPCs, Operations
<1>8. QED
  BY <1>5, <1>6, <1>7
     DEF Requests, BeginCreate, BeginCancel, BeginExpire, BeginRetry, BeginNotify

\* Every step is summarised.
LEMMA StepSummary ==
    TypeOK /\ CreationInv /\ [Next]_vars => Summary /\ HandlersOK' /\ OrdersOK'
<1> SUFFICES ASSUME TypeOK, CreationInv, [Next]_vars
             PROVE  Summary /\ HandlersOK' /\ OrdersOK'
  OBVIOUS
<1>1. ASSUME NEW h \in Handlers, Moved(h) PROVE Summary /\ HandlersOK' /\ OrdersOK'
  BY <1>1, MovedSummary DEF Moved
<1>2. ASSUME NEW h \in Handlers, Steps(h) \/ Failures(h) PROVE Moved(h)
  BY <1>2, CreateMoves, CancelMoves, ConfirmMoves, FulfilMoves, FaultMoves
     DEF Steps, Failures
<1>3. ASSUME UNCHANGED <<orders, handler>> PROVE Summary /\ HandlersOK' /\ OrdersOK'
  <2>1. HandlersOK' /\ OrdersOK'
    BY <1>3, TypeParts DEF HandlersOK, OrdersOK
  <2>2. QED BY <1>3, <2>1 DEF Summary, RowStep, HandlerStep, OneMoves
<1>4. CASE \/ \E o \in Orders : RedemptionLands(o) \/ CustomerPays(o)
           \/ Tick \/ UNCHANGED vars
  BY <1>3, <1>4 DEF RedemptionLands, CustomerPays, Tick, vars
<1>5. QED BY <1>1, <1>2, <1>4, BeginMoves DEF Next

-----------------------------------------------------------------------------
(***************************************************************************)
(* What a step does to the world outside, and type correctness.            *)
(***************************************************************************)

World == OutsideStep /\ OutsideOK'

LEMMA WorldOutages == OutsideOK /\ Outage => outages' \in 0..MaxOutages
  BY DEF OutsideOK, Outage

LEMMA WorldSame ==
    ASSUME TypeOK, UNCHANGED outside, acked' \subseteq begun,
           \A o \in acked' :
             o \in acked \/ \E h \in Handlers : Acks(h) /\ OrderOf(h) = o
    PROVE  World
<1>1. OutsideOK /\ now \in Int
  BY TypeParts DEF OutsideOK, Time
<1>2. \A o \in Orders : GatewayStep(o)
  BY DEF GatewayStep, outside
<1>3. OutsideOK'
  BY <1>1 DEF OutsideOK, outside
<1>4. OutsideStep
  BY <1>1, <1>2 DEF OutsideStep, outside, Faultless
<1>5. QED BY <1>3, <1>4 DEF World

\* An answer with success adds the order of the handler to those acknowledged.
LEMMA WorldAnswers ==
    ASSUME TypeOK, CreationInv, NEW h \in Handlers, ~At(h, "idle"), UNCHANGED outside,
           acked' = acked \/ (Acks(h) /\ acked' = acked \cup {OrderOf(h)})
    PROVE  World
<1>1. OutsideOK /\ OrderOf(h) \in begun
  BY TypeParts, OrderFacts
<1>2. acked' \subseteq begun
  BY <1>1 DEF OutsideOK
<1>3. \A o \in acked' : o \in acked \/ \E x \in Handlers : Acks(x) /\ OrderOf(x) = o
  OBVIOUS
<1>4. QED BY <1>2, <1>3, WorldSame

LEMMA StepsWorld ==
    ASSUME TypeOK, CreationInv, NEW h \in Handlers, Steps(h)
    PROVE  World
<1>0. OutsideOK /\ now \in Int
  BY TypeParts DEF OutsideOK, Time
<1>a. ASSUME UNCHANGED <<acked, outside>> PROVE World
  <2>1. acked' \subseteq begun
    BY <1>0, <1>a DEF OutsideOK
  <2>2. QED BY <1>a, <2>1, WorldSame
<1>1. CASE \/ CountPending(h) \/ SumUser(h) \/ SumMethod(h) \/ InsertOrder(h)
           \/ AttachPayment(h) \/ AuditCreated(h) \/ DeleteOrder(h)
           \/ QueryOrder(h) \/ CloseOrder(h) \/ CloseOrderRefused(h)
           \/ AuditClosed(h) \/ MarkPaid(h) \/ MarkPaidRefused(h) \/ AuditPaid(h)
  BY <1>1, <1>a
     DEF CountPending, SumUser, SumMethod, Admit, InsertOrder, AttachPayment,
         AuditCreated, DeleteOrder, QueryOrder, CloseOrder, CloseOrderRefused,
         AuditClosed, MarkPaid, MarkPaidRefused, AuditPaid
<1>2. CASE CompleteOrder(h) \/ FailOrder(h) \/ ResetOrder(h) \/ AuditRetry(h)
  BY <1>2, <1>a DEF CompleteOrder, FailOrder, ResetOrder, AuditRetry
<1>3. CASE \/ FindOrder(h) \/ RereadOrder(h) \/ ReadForFulfilment(h) \/ LockOrder(h)
           \/ AuditSuccess(h) \/ FailOrderMissing(h) \/ AuditFailed(h)
  <2>1. UNCHANGED outside /\ ~At(h, "idle")
    BY <1>3 DEF FindOrder, RereadOrder, ReadForFulfilment, LockOrder, AuditSuccess,
                FailOrderMissing, AuditFailed, At
  <2>2. acked' = acked \/ (Acks(h) /\ acked' = acked \cup {OrderOf(h)})
    <3>1. CASE FindOrder(h) \/ FailOrderMissing(h) \/ AuditFailed(h)
      BY <3>1 DEF FindOrder, FailOrderMissing, AuditFailed, Fulfilled, Answer
    <3>2. CASE RereadOrder(h)
      BY <3>2 DEF RereadOrder, Answer, Acks
    <3>3. CASE ReadForFulfilment(h)
      BY <3>3 DEF ReadForFulfilment, Fulfilled, Answer, Acks
    <3>4. CASE LockOrder(h) \/ AuditSuccess(h)
      BY <3>4 DEF LockOrder, AuditSuccess, Fulfilled, Answer, Acks
    <3>5. QED BY <1>3, <3>1, <3>2, <3>3, <3>4
  <2>3. QED BY <2>1, <2>2, WorldAnswers
<1>4. CASE CreatePayment(h) \/ CancelPayment(h)
  <2>1. /\ UNCHANGED <<begun, now, collected, acked, redeemed, inflight, faults, outages>>
        /\ OrderOf(h) \in Orders
    BY <1>4, OrderFacts DEF CreatePayment, CancelPayment, At
  <2>a. CreatePayment(h) => handler'[h].pc = "attach"
    BY TypeParts, HandlerEffect DEF CreatePayment, PCs, CreatePCs
  <2>2. /\ \A o \in Orders : GatewayStep(o)
        /\ gateway' \in [Orders -> {"none", "open", "paid", "closed"}]
    BY <1>0, <1>4, <2>1, <2>a DEF CreatePayment, CancelPayment, GatewayStep, OutsideOK
  <2>3. QED BY <1>0, <2>1, <2>2 DEF World, OutsideStep, OutsideOK, Faultless
<1>5. CASE Redeem(h)
  <2>1. /\ UNCHANGED <<begun, now, gateway, collected, acked, inflight, faults, outages>>
        /\ At(h, "redeem") /\ redeemed' = redeemed \cup {OrderOf(h)}
        /\ OrderOf(h) \in begun
    BY <1>5, OrderFacts DEF Redeem, At
  <2>2. \A o \in Orders : GatewayStep(o)
    BY <2>1 DEF GatewayStep
  <2>3. QED BY <1>0, <2>1, <2>2 DEF World, OutsideStep, OutsideOK, Faultless
<1>6. QED
  BY <1>1, <1>2, <1>3, <1>4, <1>5 DEF Steps

LEMMA FailuresWorld ==
    ASSUME TypeOK, CreationInv, NEW h \in Handlers, Failures(h)
    PROVE  World
<1>0. OutsideOK /\ now \in Int /\ faults \in 0..MaxFaults
  BY TypeParts DEF OutsideOK, Time
<1>1. CASE CreatePaymentFails(h) \/ QueryOrderFails(h)
  <2>1. /\ UNCHANGED <<begun, now, collected, acked, redeemed, inflight, faults>>
        /\ OrderOf(h) \in Orders /\ outages' \in 0..MaxOutages
    BY <1>0, <1>1, OrderFacts, WorldOutages DEF CreatePaymentFails, QueryOrderFails, At
  <2>a. CreatePaymentFails(h) => handler'[h].pc = "delete"
    BY TypeParts, HandlerEffect DEF CreatePaymentFails, PCs, CreatePCs
  <2>2. /\ \A o \in Orders : GatewayStep(o)
        /\ gateway' \in [Orders -> {"none", "open", "paid", "closed"}]
    BY <1>0, <1>1, <2>1, <2>a
       DEF CreatePaymentFails, QueryOrderFails, GatewayStep, OutsideOK
  <2>3. QED BY <1>0, <2>1, <2>2 DEF World, OutsideStep, OutsideOK, Faultless
<1>2. CASE RedeemFails(h)
  <2>1. /\ UNCHANGED <<begun, now, gateway, collected, acked, redeemed, faults>>
        /\ At(h, "redeem") /\ inflight' \subseteq inflight \cup {OrderOf(h)}
        /\ OrderOf(h) \in begun /\ outages' \in 0..MaxOutages
    BY <1>0, <1>2, OrderFacts, WorldOutages DEF RedeemFails, At
  <2>2. \A o \in Orders : GatewayStep(o)
    BY <2>1 DEF GatewayStep
  <2>3. QED BY <1>0, <2>1, <2>2 DEF World, OutsideStep, OutsideOK, Faultless
<1>3. CASE ThrowInTry(h) \/ Interrupt(h)
  <2>1. /\ UNCHANGED <<begun, now, gateway, collected, acked, redeemed, inflight, outages>>
        /\ faults < MaxFaults /\ faults' = faults + 1
    BY <1>3 DEF ThrowInTry, Interrupt, Fault
  <2>2. \A o \in Orders : GatewayStep(o)
    BY <2>1 DEF GatewayStep
  <2>3. faults' \in 0..MaxFaults /\ ~Faultless'
    BY <1>0, <2>1 DEF Faultless
  <2>4. QED BY <1>0, <2>1, <2>2, <2>3 DEF World, OutsideStep, OutsideOK
<1>4. QED BY <1>1, <1>2, <1>3 DEF Failures

LEMMA StepWorld == TypeOK /\ CreationInv /\ [Next]_vars => World
<1> SUFFICES ASSUME TypeOK, CreationInv, [Next]_vars PROVE World
  OBVIOUS
<1>0. OutsideOK /\ now \in Int
  BY TypeParts DEF OutsideOK, Time
<1>1. ASSUME NEW h \in Handlers, NEW o \in Orders, Requests(h, o) \/ BeginNotify(h, o)
      PROVE  World
  <2>1. CASE BeginCreate(h, o)
    <3>1. /\ UNCHANGED <<now, gateway, collected, acked, redeemed, inflight, faults,
                         outages>>
          /\ begun' = begun \cup {o}
      BY <2>1 DEF BeginCreate
    <3>2. \A x \in Orders : GatewayStep(x)
      BY <3>1 DEF GatewayStep
    <3>3. QED BY <1>0, <3>1, <3>2 DEF World, OutsideStep, OutsideOK, Faultless
  <2>2. CASE UNCHANGED <<acked, outside>>
    BY <1>0, <2>2, WorldSame DEF OutsideOK
  <2>3. QED
    BY <1>1, <2>1, <2>2
       DEF Requests, BeginCancel, BeginExpire, BeginRetry, BeginNotify
<1>2. ASSUME NEW o \in Orders, RedemptionLands(o) PROVE World
  <2>1. /\ UNCHANGED <<begun, now, gateway, collected, acked, faults, outages>>
        /\ o \in inflight /\ inflight' = inflight \ {o} /\ redeemed' = redeemed \cup {o}
    BY <1>2 DEF RedemptionLands
  <2>2. \A x \in Orders : GatewayStep(x)
    BY <2>1 DEF GatewayStep
  <2>3. QED BY <1>0, <2>1, <2>2 DEF World, OutsideStep, OutsideOK, Faultless
<1>3. ASSUME NEW o \in Orders, CustomerPays(o) PROVE World
  <2>1. /\ UNCHANGED <<begun, now, acked, redeemed, inflight, faults, outages>>
        /\ gateway[o] = "open" /\ gateway' = [gateway EXCEPT ![o] = "paid"]
    BY <1>3 DEF CustomerPays
  <2>2. PICK paid \in PaidAmounts : collected' = [collected EXCEPT ![o] = paid]
    BY <1>3 DEF CustomerPays
  <2>3. paid # NULL
    OBVIOUS
  <2>4. \A x \in Orders : GatewayStep(x)
    BY <1>0, <2>1, <2>2, <2>3 DEF GatewayStep, OutsideOK
  <2>5. QED BY <1>0, <2>1, <2>2, <2>4 DEF World, OutsideStep, OutsideOK, Faultless
<1>4. CASE Tick
  <2>1. /\ UNCHANGED <<begun, gateway, collected, acked, redeemed, inflight, faults, outages>>
        /\ now < MaxNow /\ now' = now + 1
    BY <1>4 DEF Tick
  <2>2. \A x \in Orders : GatewayStep(x)
    BY <2>1 DEF GatewayStep
  <2>3. now' \in Time /\ now <= now'
    BY <1>0, <2>1 DEF OutsideOK, Time
  <2>4. QED BY <1>0, <2>1, <2>2, <2>3 DEF World, OutsideStep, OutsideOK, Faultless
<1>5. CASE UNCHANGED vars
  BY <1>0, <1>5, WorldSame DEF vars, outside, OutsideOK
<1>6. QED
  BY <1>1, <1>2, <1>3, <1>4, <1>5, StepsWorld, FailuresWorld DEF Next

\* The order service keeps its types.
LEMMA TypeStep == TypeOK /\ CreationInv /\ [Next]_vars => TypeOK'
  BY StepSummary, StepWorld, TypeParts DEF World

-----------------------------------------------------------------------------
(***************************************************************************)
(* Who knows of an order: CreationInv.                                     *)
(***************************************************************************)

Stepped == Summary /\ World /\ HandlersOK' /\ OrdersOK'

LEMMA StepIsStepped == TypeOK /\ CreationInv /\ [Next]_vars => Stepped
  BY StepSummary, StepWorld DEF Stepped

\* A handler that goes on keeps its order, and only a creation goes on creating.
LEMMA GoesOnFacts ==
    ASSUME TypeOK, CreationInv, NEW h \in Handlers, GoesOn(h)
    PROVE  /\ ~At(h, "idle") /\ handler'[h].pc # "idle"
           /\ handler'[h].order = OrderOf(h)
           /\ handler'[h].pc \in BeforeInsertPCs => handler[h].pc \in BeforeInsertPCs
           /\ handler'[h].pc \in AfterInsertPCs =>
                \/ handler[h].pc \in AfterInsertPCs
                \/ Hop(h, "insert", "provider") /\ Writes(h)
           /\ handler[h].pc \in AfterInsertPCs => handler'[h].pc \in AfterInsertPCs
           /\ handler'[h].pc = "provider" => At(h, "insert")
<1>1. ~At(h, "idle") /\ handler'[h].order = OrderOf(h)
  BY DEF GoesOn, Kept, OrderOf
<1>2. CASE Writes(h)
  BY <1>1, <1>2 DEF Writes, Hop, At, BeforeInsertPCs, AfterInsertPCs, CreatePCs
<1>3. CASE Passes(h)
  BY <1>1, <1>3
     DEF Passes, Hop, At, BeforeInsertPCs, AfterInsertPCs, CreatePCs, ConfirmPCs
<1>4. QED BY <1>2, <1>3 DEF GoesOn

\* What a handler writes is there afterwards.
LEMMA WritesFacts ==
    ASSUME TypeOK, CreationInv, OrdersOK', NEW h \in Handlers, ~At(h, "idle"), Writes(h)
    PROVE  /\ Exists(orders'[OrderOf(h)])
           /\ handler[h].pc \in BeforeInsertPCs => Hop(h, "insert", "provider")
<1>1. /\ OrderOf(h) \in Orders /\ RowOf(h) = orders[OrderOf(h)]
      /\ orders'[OrderOf(h)] \in Row \cup {Absent}
  BY OrderFacts DEF OrdersOK
<1>2. Exists(orders'[OrderOf(h)]) <=> orders'[OrderOf(h)].status # "ABSENT"
  BY <1>1, RowFacts
<1>3. At(h, "attach") => RowOf(h).status # "ABSENT"
  BY <1>1, OrderFacts, RowFacts DEF CreationInv, AfterInsertPCs, CreatePCs, BeforeInsertPCs, At
<1>4. QED BY <1>1, <1>2, <1>3 DEF Writes, Hop, At, BeforeInsertPCs

\* A request that is not a creation begins with an order that has its row.
LEMMA BeginsFacts ==
    ASSUME TypeOK, CreationInv, PaymentInv, NEW h \in Handlers, Begins(h)
    PROVE  LET o == handler'[h].order IN
             /\ At(h, "idle") /\ o \in Orders /\ handler'[h].pc # "idle"
             /\ \/ handler'[h].pc = "count_pending" /\ o \notin begun /\ o \in begun'
                \/ /\ handler'[h].pc \notin CreatePCs /\ o \in begun
                   /\ \A x \in Handlers :
                        OrderOf(x) = o => handler[x].pc \notin BeforeInsertPCs
<1> DEFINE o == handler'[h].order
<1>1. At(h, "idle") /\ o \in Orders /\ handler'[h].pc # "idle"
  BY DEF Begins
<1>2. CASE handler'[h].pc = "count_pending"
  BY <1>1, <1>2 DEF Begins
<1>3. CASE handler'[h].pc \in {"query", "close", "find", "reset"}
  <2>1. handler'[h].pc \notin CreatePCs
    BY <1>3 DEF CreatePCs
  <2>2. \/ orders[o].status = "PENDING" \/ collected[o] # NULL
        \/ IsRetryable(orders[o])
    BY <1>3 DEF Begins
  <2>3. orders[o] = Absent => orders[o].status # "PENDING" /\ ~IsRetryable(orders[o])
    BY DEF Absent, IsRetryable
  <2>4. gateway[o] = "none" => collected[o] = NULL
    BY <1>1 DEF PaymentInv
  <2>5. ~(orders[o] = Absent /\ gateway[o] = "none")
    BY <2>2, <2>3, <2>4
  <2>6. /\ o \in begun
        /\ \A x \in Handlers : OrderOf(x) = o => handler[x].pc \notin BeforeInsertPCs
    BY <1>1, <2>5 DEF CreationInv
  <2>7. QED BY <1>1, <2>1, <2>6
<1>4. QED BY <1>1, <1>2, <1>3 DEF Begins

LEMMA KnownStep ==
    ASSUME TypeOK, CreationInv, PaymentInv, Stepped, NEW h \in Handlers
    PROVE  IF handler'[h].pc = "idle" THEN handler'[h].order = NULL
           ELSE handler'[h].order \in begun'
<1>1. HandlerStep(h) /\ begun \subseteq begun'
  BY DEF Stepped, Summary, World, OutsideStep
<1>2. IF At(h, "idle") THEN OrderOf(h) = NULL ELSE OrderOf(h) \in begun
  BY DEF CreationInv
<1>3. QED
  BY <1>1, <1>2, GoesOnFacts, BeginsFacts, IdleOK DEF HandlerStep, Leaves, At, OrderOf

\* Of two handlers that have one order, a creation is past its insertion and the
\* other is no creation.
LEMMA OneCreationStep ==
    ASSUME TypeOK, CreationInv, PaymentInv, Stepped,
           NEW h \in Handlers, NEW k \in Handlers, h # k,
           handler'[h].order = handler'[k].order, handler'[h].pc \in CreatePCs
    PROVE  handler'[h].pc \in AfterInsertPCs /\ handler'[k].pc \notin CreatePCs
<1>1. HandlerStep(h) /\ HandlerStep(k) /\ begun \subseteq Orders
  BY TypeParts DEF Stepped, Summary, OutsideOK
<1>2. handler'[h] = handler[h] \/ handler'[k] = handler[k]
  BY DEF Stepped, Summary, OneMoves
<1>3. /\ handler'[h].pc # "idle"
      /\ \A x \in Handlers : ~At(x, "idle") => OrderOf(x) \in begun
      /\ \A x \in Handlers : At(x, "idle") => OrderOf(x) = NULL
      /\ NULL \notin Orders
      /\ "idle" \notin CreatePCs /\ "count_pending" \notin AfterInsertPCs
  BY DEF CreationInv, CreatePCs, AfterInsertPCs, BeforeInsertPCs
<1>a. handler[h].pc \in CreatePCs /\ OrderOf(h) = OrderOf(k) =>
        handler[h].pc \in AfterInsertPCs /\ handler[k].pc \notin CreatePCs
  BY DEF CreationInv
<1>b. CreatePCs = BeforeInsertPCs \cup AfterInsertPCs
  BY DEF CreatePCs, BeforeInsertPCs, AfterInsertPCs
<1>4. CASE handler'[h] = handler[h]
  <2>1. /\ OrderOf(h) \in begun /\ handler[h].pc \in CreatePCs
        /\ handler'[k].order = OrderOf(h)
    BY <1>3, <1>4 DEF At, OrderOf
  <2>2. CASE handler'[k] = handler[k]
    BY <1>4, <1>a, <2>1, <2>2 DEF OrderOf
  <2>3. CASE Begins(k)
    <3>1. /\ handler'[k].pc \notin CreatePCs
          /\ handler[h].pc \notin BeforeInsertPCs
      BY <2>1, <2>3, BeginsFacts
    <3>2. QED BY <1>4, <1>b, <2>1, <3>1
  <2>4. CASE GoesOn(k)
    <3>1. /\ handler[h].pc \in AfterInsertPCs /\ handler[k].pc \notin CreatePCs
      BY <1>a, <2>1, <2>4, GoesOnFacts
    <3>2. handler'[k].pc \notin CreatePCs
      BY <1>b, <2>4, <3>1, GoesOnFacts DEF Hop, At, CreatePCs
    <3>3. QED BY <1>4, <3>1, <3>2
  <2>5. CASE Leaves(k)
    BY <1>1, <1>3, <2>1, <2>5, IdleOK DEF Leaves
  <2>6. QED BY <1>1, <2>2, <2>3, <2>4, <2>5 DEF HandlerStep
<1>5. CASE handler'[k] = handler[k] /\ handler'[h] # handler[h]
  <2>1. OrderOf(k) = handler'[h].order
    BY <1>5 DEF OrderOf
  <2>2. CASE Begins(h)
    <3>1. OrderOf(k) \in Orders /\ OrderOf(k) \notin begun
      BY <2>1, <2>2, BeginsFacts
    <3>2. QED BY <1>3, <3>1
  <2>3. CASE GoesOn(h)
    <3>1. OrderOf(h) = OrderOf(k) /\ handler[h].pc \in CreatePCs
      BY <1>b, <2>1, <2>3, GoesOnFacts DEF Hop, At, CreatePCs
    <3>2. QED BY <1>5, <1>a, <1>b, <2>3, <3>1, GoesOnFacts
  <2>4. CASE Leaves(h)
    BY <1>3, <2>4, IdleOK DEF Leaves
  <2>5. QED BY <1>1, <1>5, <2>2, <2>3, <2>4 DEF HandlerStep
<1>6. QED BY <1>2, <1>4, <1>5

\* Before its creation inserts it, nobody touches an order.
LEMMA UntouchedStep ==
    ASSUME TypeOK, CreationInv, PaymentInv, Stepped, NEW o \in Orders,
           \/ o \notin begun'
           \/ \E h \in Handlers : /\ handler'[h].order = o
                                  /\ handler'[h].pc \in BeforeInsertPCs
    PROVE  orders'[o] = Absent /\ gateway'[o] = "none" /\ o \notin acked'
<1>1. /\ \A x \in Handlers : HandlerStep(x)
      /\ begun \subseteq begun' /\ RowStep(o) /\ GatewayStep(o)
      /\ o \in acked' => o \in acked \/ \E x \in Handlers : Acks(x) /\ OrderOf(x) = o
  BY DEF Stepped, Summary, World, OutsideStep
<1>2. \A x \in Handlers : IF At(x, "idle") THEN OrderOf(x) = NULL ELSE OrderOf(x) \in begun
  BY DEF CreationInv
<1>3. CASE \A x \in Handlers : OrderOf(x) # o
  <2>1. o \notin begun
    <3>1. CASE o \notin begun'
      BY <1>1, <3>1
    <3>2. CASE o \in begun'
      <4>1. PICK h \in Handlers : handler'[h].order = o /\ handler'[h].pc \in BeforeInsertPCs
        BY <3>2
      <4>2. CASE Begins(h)
        BY <4>1, <4>2, BeginsFacts DEF CreatePCs, BeforeInsertPCs
      <4>3. CASE ~Begins(h)
        BY <1>1, <1>3, <4>1, <4>3, GoesOnFacts, IdleOK
           DEF HandlerStep, Leaves, OrderOf, BeforeInsertPCs
      <4>4. QED BY <4>2, <4>3
    <3>3. QED BY <3>1, <3>2
  <2>2. orders[o] = Absent /\ gateway[o] = "none" /\ o \notin acked
    BY <2>1 DEF CreationInv
  <2>3. QED BY <1>1, <1>3, <2>2 DEF RowStep, GatewayStep
<1>4. ASSUME NEW h \in Handlers, OrderOf(h) = o
      PROVE  orders'[o] = Absent /\ gateway'[o] = "none" /\ o \notin acked'
  <2>1. o \in begun
    BY <1>2, <1>4
  <2>2. PICK k \in Handlers : handler'[k].order = o /\ handler'[k].pc \in BeforeInsertPCs
    BY <1>1, <2>1
  <2>3. OrderOf(k) = o /\ handler[k].pc \in BeforeInsertPCs
    <3>1. ~Begins(k)
      BY <2>1, <2>2, BeginsFacts DEF CreatePCs, BeforeInsertPCs
    <3>2. QED
      BY <1>1, <2>2, <3>1, GoesOnFacts, IdleOK
         DEF HandlerStep, Leaves, OrderOf, BeforeInsertPCs
  <2>4. \A x \in Handlers : OrderOf(x) = o => x = k
    BY <2>3 DEF CreationInv, AfterInsertPCs, CreatePCs, BeforeInsertPCs
  <2>5. orders[o] = Absent /\ gateway[o] = "none" /\ o \notin acked
    BY <2>3 DEF CreationInv
  <2>6. ~Writes(k)
    BY <2>2, <2>3, WritesFacts DEF Stepped, Hop, At, BeforeInsertPCs
  <2>7. ~Deletes(k) /\ ~Acks(k) /\ ~At(k, "provider")
    BY <2>3 DEF Deletes, Acks, At, BeforeInsertPCs
  <2>8. QED BY <1>1, <2>4, <2>5, <2>6, <2>7 DEF RowStep, GatewayStep
<1>5. QED BY <1>3, <1>4

\* The row of a creation is there until the creation takes it away.
LEMMA InsertedStep ==
    ASSUME TypeOK, CreationInv, PaymentInv, Stepped, NEW h \in Handlers,
           handler'[h].pc \in AfterInsertPCs
    PROVE  /\ Exists(orders'[handler'[h].order])
           /\ handler'[h].pc = "provider" => gateway'[handler'[h].order] = "none"
<1> DEFINE o == handler'[h].order
<1>1. /\ HandlerStep(h) /\ OrdersOK' /\ "idle" \notin AfterInsertPCs
  BY DEF Stepped, Summary, AfterInsertPCs, CreatePCs, BeforeInsertPCs
<1>2. ~Begins(h) /\ ~Leaves(h)
  BY BeginsFacts, IdleOK DEF Leaves, AfterInsertPCs, CreatePCs, BeforeInsertPCs
<1>3. /\ OrderOf(h) = o /\ ~At(h, "idle")
      /\ \/ handler[h].pc \in AfterInsertPCs
         \/ Hop(h, "insert", "provider") /\ Writes(h)
  BY <1>1, <1>2, GoesOnFacts DEF HandlerStep, OrderOf, At
<1>4. /\ o \in Orders /\ RowStep(o) /\ GatewayStep(o)
  BY <1>3, OrderFacts DEF Stepped, Summary, World, OutsideStep
<1>5. handler[h].pc \in CreatePCs
  BY <1>3 DEF Hop, At, AfterInsertPCs, CreatePCs
<1>6. \A x \in Handlers : OrderOf(x) = o /\ handler[x].pc \in CreatePCs => x = h
  BY <1>3, <1>5 DEF CreationInv, OrderOf
<1>7. Exists(orders'[o])
  <2>1. CASE orders'[o] = orders[o] /\ handler[h].pc \in AfterInsertPCs
    BY <1>3, <2>1 DEF CreationInv, RowOf
  <2>2. ASSUME NEW x \in Handlers, OrderOf(x) = o, Writes(x) PROVE Exists(orders'[o])
    BY <1>1, <2>2, WritesFacts DEF Writes, Hop, At
  <2>3. ASSUME NEW x \in Handlers, OrderOf(x) = o, Deletes(x) PROVE FALSE
    <3>1. x = h
      BY <1>6, <2>3 DEF Deletes, At, CreatePCs
    <3>2. QED BY <1>1, <2>3, <3>1, IdleOK DEF Deletes
  <2>4. QED BY <1>3, <1>4, <2>1, <2>2, <2>3 DEF RowStep
<1>8. handler'[h].pc = "provider" => gateway'[o] = "none"
  <2> SUFFICES ASSUME handler'[h].pc = "provider" PROVE gateway'[o] = "none"
    OBVIOUS
  <2>1. gateway[o] = "none"
    <3>1. CASE handler'[h] = handler[h]
      BY <1>3, <3>1 DEF CreationInv, At
    <3>2. CASE GoesOn(h)
      <4>1. handler[h].pc \in BeforeInsertPCs
        BY <3>2, GoesOnFacts DEF At, BeforeInsertPCs
      <4>2. QED BY <1>3, <1>4, <4>1 DEF CreationInv
    <3>3. QED BY <1>1, <1>2, <3>1, <3>2 DEF HandlerStep
  <2>2. \A x \in Handlers : At(x, "provider") /\ OrderOf(x) = o => handler'[x].pc = "provider"
    BY <1>6 DEF At, CreatePCs
  <2>3. QED BY <1>4, <2>1, <2>2 DEF GatewayStep
<1>9. QED BY <1>7, <1>8

LEMMA CreationStep ==
    ASSUME TypeOK, CreationInv, PaymentInv, Stepped PROVE CreationInv'
<1>1. \A h \in Handlers : IF At(h, "idle")' THEN OrderOf(h)' = NULL ELSE OrderOf(h)' \in begun'
  BY KnownStep DEF At, OrderOf
<1>2. \A h \in Handlers, k \in Handlers :
         OrderOf(h)' = OrderOf(k)' /\ handler'[h].pc \in CreatePCs =>
           \/ h = k
           \/ handler'[h].pc \in AfterInsertPCs /\ handler'[k].pc \notin CreatePCs
  BY OneCreationStep DEF OrderOf
<1>3. \A o \in Orders :
         o \notin begun' \/ (\E h \in Handlers : OrderOf(h)' = o
                                             /\ handler'[h].pc \in BeforeInsertPCs)
         => orders'[o] = Absent /\ gateway'[o] = "none" /\ o \notin acked'
  BY UntouchedStep DEF OrderOf
<1>4. \A h \in Handlers :
         /\ handler'[h].pc \in AfterInsertPCs => Exists(RowOf(h)')
         /\ At(h, "provider")' => gateway'[OrderOf(h)'] = "none"
  BY InsertedStep DEF OrderOf, At, RowOf, AfterInsertPCs, CreatePCs, BeforeInsertPCs
<1>5. QED
  BY <1>1, <1>2, <1>3, <1>4 DEF CreationInv, Exists, At, OrderOf, RowOf

-----------------------------------------------------------------------------
(***************************************************************************)
(* What was paid: PaymentInv.                                              *)
(***************************************************************************)

\* Where the amount collected has been compared with what is due.
PaidPCs == {"mark_paid", "reread", "audit_paid"} \cup FulfilPCs \cup RetryPCs

\* What was collected stays as it is.
LEMMA CollectedStays ==
    ASSUME TypeOK, CreationInv, PaymentInv, Stepped, NEW o \in Orders
    PROVE  /\ gateway'[o] = "paid" <=> collected'[o] # NULL
           /\ collected[o] # NULL => collected'[o] = collected[o]
<1>1. GatewayStep(o)
  BY DEF Stepped, World, OutsideStep
<1>2. gateway[o] = "paid" <=> collected[o] # NULL
  BY DEF PaymentInv
<1>3. \A x \in Handlers : At(x, "provider") /\ OrderOf(x) = o => gateway[o] = "none"
  BY DEF CreationInv
<1>4. QED BY <1>1, <1>2, <1>3 DEF GatewayStep

LEMMA PaidStays ==
    ASSUME TypeOK, CreationInv, PaymentInv, Stepped, NEW o \in Orders, AmountPaid(o)
    PROVE  AmountPaid(o)'
  BY CollectedStays DEF AmountPaid, AmountAccepted

LEMMA PaidHandlerStep ==
    ASSUME TypeOK, CreationInv, PaymentInv, Stepped, NEW h \in Handlers
    PROVE  /\ handler'[h].pc = "find" => collected'[handler'[h].order] # NULL
           /\ handler'[h].pc \in PaidPCs =>
                /\ collected'[handler'[h].order] # NULL
                /\ AmountAccepted(collected'[handler'[h].order])
<1> DEFINE o == handler'[h].order
<1>1. HandlerStep(h)
  BY DEF Stepped, Summary
<1>2. CASE Leaves(h)
  BY <1>2, IdleOK DEF Leaves, PaidPCs, FulfilPCs, LockedPCs, RetryPCs
<1>3. CASE Begins(h)
  <2>1. o \in Orders
    BY <1>3 DEF Begins
  <2>2. handler'[h].pc = "find" => collected[o] # NULL
    BY <1>3 DEF Begins
  <2>3. handler'[h].pc \in PaidPCs => AmountPaid(o)
    <3>1. handler'[h].pc \in PaidPCs => IsRetryable(orders[o])
      BY <1>3 DEF Begins, PaidPCs, FulfilPCs, LockedPCs, RetryPCs
    <3>2. QED BY <2>1, <3>1 DEF IsRetryable, PaymentInv
  <2>4. QED BY <2>1, <2>2, <2>3, CollectedStays DEF AmountPaid
<1>4. ASSUME GoesOn(h) \/ (handler'[h] = handler[h] /\ ~At(h, "idle"))
      PROVE  /\ handler'[h].pc = "find" => collected'[o] # NULL
             /\ handler'[h].pc \in PaidPCs =>
                  collected'[o] # NULL /\ AmountAccepted(collected'[o])
  <2>1. OrderOf(h) = o /\ ~At(h, "idle")
    BY <1>4, GoesOnFacts DEF OrderOf
  <2>2. o \in Orders
    BY <2>1, OrderFacts
  <2>3. /\ At(h, "find") => collected[o] # NULL
        /\ handler[h].pc \in PaidPCs => AmountPaid(o)
    BY <2>1 DEF PaymentInv, PaidPCs
  <2>4. CASE handler'[h] = handler[h]
    BY <2>2, <2>3, <2>4, CollectedStays DEF AmountPaid, At
  <2>5. CASE Writes(h)
    <3>1. handler'[h].pc # "find" /\ (handler'[h].pc \in PaidPCs => handler[h].pc \in PaidPCs)
      BY <2>5 DEF Writes, Hop, At, PaidPCs, FulfilPCs, LockedPCs, RetryPCs
    <3>2. QED BY <2>2, <2>3, <3>1, CollectedStays DEF AmountPaid
  <2>6. CASE Passes(h)
    <3>1. /\ handler'[h].pc = "find" => collected[o] # NULL
          /\ handler'[h].pc \in PaidPCs =>
               \/ handler[h].pc \in PaidPCs
               \/ At(h, "find") /\ AmountAccepted(collected[o])
      BY <2>1, <2>6
         DEF Passes, Hop, At, PaidPCs, FulfilPCs, LockedPCs, RetryPCs, BeforeInsertPCs
    <3>2. QED BY <2>2, <2>3, <3>1, CollectedStays DEF AmountPaid
  <2>7. QED BY <1>4, <2>4, <2>5, <2>6 DEF GoesOn
<1>5. CASE handler'[h] = handler[h] /\ At(h, "idle")
  BY <1>5 DEF At, PaidPCs, FulfilPCs, LockedPCs, RetryPCs
<1>6. QED BY <1>1, <1>2, <1>3, <1>4, <1>5 DEF HandlerStep

LEMMA PaymentStep ==
    ASSUME TypeOK, CreationInv, PaymentInv, Stepped PROVE PaymentInv'
<1>1. \A o \in Orders : gateway'[o] = "paid" <=> collected'[o] # NULL
  BY CollectedStays
<1>2. ASSUME NEW o \in Orders, orders'[o].paidAt PROVE AmountPaid(o)'
  <2>1. CASE orders'[o] = orders[o]
    BY <1>2, <2>1, PaidStays DEF PaymentInv
  <2>2. ASSUME NEW x \in Handlers, OrderOf(x) = o, Writes(x) PROVE AmountPaid(o)
    <3>1. At(x, "mark_paid") \/ orders[o].paidAt
      BY <1>2, <2>2 DEF Writes, KeepsDates, Hop
    <3>2. QED BY <2>2, <3>1 DEF PaymentInv, At
  <2>3. ASSUME NEW x \in Handlers, OrderOf(x) = o, Deletes(x) PROVE FALSE
    BY <1>2, <2>3 DEF Deletes, Absent
  <2>4. QED BY <2>1, <2>2, <2>3, PaidStays DEF Stepped, Summary, RowStep
<1>3. ASSUME NEW o \in redeemed' \cup inflight' PROVE AmountPaid(o)'
  <2>1. o \in Orders
    BY DEF Stepped, World, OutsideOK
  <2>2. \/ o \in redeemed \cup inflight
        \/ \E h \in Handlers : At(h, "redeem") /\ OrderOf(h) = o
    BY DEF Stepped, World, OutsideStep
  <2>3. AmountPaid(o)
    BY <2>2 DEF PaymentInv, At, FulfilPCs, LockedPCs
  <2>4. QED BY <2>1, <2>3, PaidStays
<1>4. QED
  BY <1>1, <1>2, <1>3, PaidHandlerStep
     DEF PaymentInv, AmountPaid, AmountAccepted, At, OrderOf, PaidPCs

-----------------------------------------------------------------------------
(***************************************************************************)
(* The statuses of a row: RowInv.                                          *)
(***************************************************************************)

\* Where a handler works on an order that was marked paid.
RowPCs == {"audit_paid"} \cup FulfilPCs \cup RetryPCs

\* Whoever writes a row moves, so the row of a handler that moves is written by
\* that handler or not at all.
LEMMA WriterMoves ==
    ASSUME NEW x \in Handlers, ~At(x, "idle"), Writes(x) \/ Deletes(x)
    PROVE  handler'[x] # handler[x]
  BY IdleOK DEF Writes, Deletes, Hop, At

LEMMA MoverWrites ==
    ASSUME TypeOK, CreationInv, Stepped, NEW h \in Handlers, ~At(h, "idle"),
           handler'[h] # handler[h]
    PROVE  orders'[OrderOf(h)] = orders[OrderOf(h)] \/ Writes(h) \/ Deletes(h)
<1>1. /\ OrderOf(h) \in Orders /\ OneMoves
      /\ RowStep(OrderOf(h))
  BY OrderFacts DEF Stepped, Summary
<1>2. ASSUME NEW x \in Handlers, OrderOf(x) = OrderOf(h), Writes(x) \/ Deletes(x)
      PROVE  x = h
  <2>1. ~At(x, "idle")
    BY <1>2 DEF Writes, Deletes, Hop, At
  <2>2. QED BY <1>1, <1>2, <2>1, WriterMoves DEF OneMoves
<1>3. QED BY <1>1, <1>2 DEF RowStep

\* An order that somebody other than its creation knows of is not inserted any
\* more, and neither is one that was acknowledged.
LEMMA NotInserted ==
    ASSUME TypeOK, CreationInv, NEW o \in Orders,
           \/ o \in acked
           \/ orders[o] # Absent
           \/ \E h \in Handlers : OrderOf(h) = o /\ handler[h].pc \notin BeforeInsertPCs
    PROVE  ~ \E x \in Handlers : OrderOf(x) = o /\ At(x, "insert")
  BY DEF CreationInv, At, BeforeInsertPCs, AfterInsertPCs, CreatePCs

\* What a row can become, once it was inserted.
LEMMA RowChange ==
    ASSUME TypeOK, CreationInv, Stepped, NEW o \in Orders,
           ~ \E x \in Handlers : OrderOf(x) = o /\ At(x, "insert")
    PROVE  \/ orders'[o] = orders[o]
           \/ orders'[o] = Absent
           \/ \E x \in Handlers :
                OrderOf(x) = o /\ Writes(x) /\ ~At(x, "insert") /\ Exists(orders[o])
<1>1. RowStep(o)
  BY DEF Stepped, Summary
<1>2. ASSUME NEW x \in Handlers, OrderOf(x) = o, Deletes(x) PROVE orders'[o] = Absent
  BY <1>2 DEF Deletes
<1>3. ASSUME NEW x \in Handlers, OrderOf(x) = o, Writes(x) PROVE Exists(orders[o])
  <2>1. CASE At(x, "attach")
    BY <1>3, <2>1 DEF CreationInv, At, RowOf, AfterInsertPCs, BeforeInsertPCs, CreatePCs
  <2>2. CASE ~At(x, "attach")
    BY <1>3, <2>2
       DEF Writes, Hop, Exists, Absent, IsPayable, IsLockable, IsRetryable
  <2>3. QED BY <2>1, <2>2
<1>4. QED BY <1>1, <1>2, <1>3 DEF RowStep

\* A row is paid in the statuses that say so.
LEMMA PaidStatusStep ==
    ASSUME TypeOK, CreationInv, RowInv, Stepped, NEW o \in Orders
    PROVE  orders'[o].paidAt <=> orders'[o].status \in PaidStatuses
<1>1. /\ RowStep(o) /\ orders'[o] \in Row \cup {Absent} /\ orders[o] \in Row \cup {Absent}
  BY TypeParts DEF Stepped, Summary, OrdersOK
<1>2. /\ orders[o].paidAt \in BOOLEAN /\ orders'[o].paidAt \in BOOLEAN
  BY <1>1, RowFacts
<1>3. orders[o].paidAt <=> orders[o].status \in PaidStatuses
  BY DEF RowInv
<1>4. ASSUME NEW x \in Handlers, OrderOf(x) = o, Writes(x)
      PROVE  orders'[o].paidAt <=> orders'[o].status \in PaidStatuses
  <2>1. At(x, "fail") /\ Exists(orders[o]) => orders[o].paidAt
    BY <1>4 DEF RowInv, At, RowOf, FulfilPCs, LockedPCs
  <2>2. QED
    BY <1>2, <1>3, <1>4, <2>1
       DEF Writes, Hop, KeepsDates, PaidStatuses, IsLockable, IsRetryable
<1>5. ASSUME NEW x \in Handlers, OrderOf(x) = o, Deletes(x)
      PROVE  orders'[o].paidAt <=> orders'[o].status \in PaidStatuses
  BY <1>5 DEF Deletes, Absent, PaidStatuses
<1>6. QED BY <1>1, <1>3, <1>4, <1>5 DEF RowStep

\* A completion date is written after the redemption.
LEMMA CompletedStep ==
    ASSUME TypeOK, CreationInv, RowInv, LockInv, Stepped, NEW o \in Orders,
           orders'[o].completedAt \/ orders'[o].status = "COMPLETED"
    PROVE  o \in redeemed'
<1>1. RowStep(o) /\ redeemed \subseteq redeemed'
  BY DEF Stepped, Summary, World, OutsideStep
<1>2. orders[o].completedAt \/ orders[o].status = "COMPLETED" => o \in redeemed
  BY DEF RowInv, CompletedIsCredited
<1>3. ASSUME NEW x \in Handlers, OrderOf(x) = o, Writes(x) PROVE o \in redeemed
  <2>1. At(x, "complete") => o \in redeemed
    BY <1>3 DEF LockInv, At
  <2>2. QED BY <1>2, <1>3, <2>1 DEF Writes, Hop, KeepsDates
<1>4. ASSUME NEW x \in Handlers, OrderOf(x) = o, Deletes(x) PROVE FALSE
  BY <1>4 DEF Deletes, Absent
<1>5. QED BY <1>1, <1>2, <1>3, <1>4 DEF RowStep

\* A row that took a payment keeps it, or is deleted.
LEMMA PaidRowStays ==
    ASSUME TypeOK, CreationInv, Stepped, NEW o \in Orders, orders[o].paidAt,
           Exists(orders'[o])
    PROVE  orders'[o].paidAt
<1>1. orders[o] # Absent
  BY DEF Absent
<1>2. QED
  BY <1>1, NotInserted, RowChange DEF Writes, Hop, KeepsDates, Exists

LEMMA WorkIsPaidStep ==
    ASSUME TypeOK, CreationInv, PaymentInv, RowInv, Stepped, NEW h \in Handlers,
           handler'[h].pc \in RowPCs, Exists(orders'[handler'[h].order])
    PROVE  orders'[handler'[h].order].paidAt
<1> DEFINE o == handler'[h].order
<1>1. HandlerStep(h)
  BY DEF Stepped, Summary
<1>2. ~Leaves(h) /\ "idle" \notin RowPCs
  BY IdleOK DEF Leaves, RowPCs, FulfilPCs, LockedPCs, RetryPCs
<1>3. CASE Begins(h)
  BY <1>3 DEF Begins, IsRetryable, RowPCs, FulfilPCs, LockedPCs, RetryPCs
<1>4. CASE handler'[h] = handler[h] \/ GoesOn(h)
  <2>1. OrderOf(h) = o /\ ~At(h, "idle")
    BY <1>2, <1>4, GoesOnFacts DEF OrderOf, At
  <2>2. o \in Orders
    BY <2>1, OrderFacts
  <2>3. CASE handler[h].pc \in RowPCs
    <3>1. ~ \E x \in Handlers : OrderOf(x) = o /\ At(x, "insert")
      BY <2>1, <2>2, <2>3, NotInserted
         DEF RowPCs, FulfilPCs, LockedPCs, RetryPCs, BeforeInsertPCs
    <3>2. Exists(orders[o])
      BY <2>2, <3>1, RowChange DEF Exists
    <3>3. orders[o].paidAt
      BY <2>1, <2>3, <3>2 DEF RowInv, RowOf, RowPCs
    <3>4. QED BY <2>2, <3>3, PaidRowStays
  <2>4. CASE handler[h].pc \notin RowPCs
    <3>1. GoesOn(h)
      BY <1>4, <2>4
    <3>2. CASE Writes(h)
      BY <2>1, <2>4, <3>2
         DEF Writes, Hop, At, RowPCs, FulfilPCs, LockedPCs, RetryPCs
    <3>3. CASE Passes(h)
      <4>1. UNCHANGED orders /\ orders[o].status = "FAILED"
        BY <2>1, <2>4, <3>3
           DEF Passes, Hop, At, RowPCs, FulfilPCs, LockedPCs, RetryPCs, BeforeInsertPCs
      <4>2. QED BY <2>2, <4>1 DEF RowInv, PaidStatuses
    <3>4. QED BY <3>1, <3>2, <3>3 DEF GoesOn
  <2>5. QED BY <2>3, <2>4
<1>5. QED BY <1>1, <1>2, <1>3, <1>4 DEF HandlerStep

LEMMA RowInvStep ==
    ASSUME TypeOK, CreationInv, PaymentInv, RowInv, LockInv, Stepped PROVE RowInv'
<1>1. CompletedIsCredited'
  BY CompletedStep DEF CompletedIsCredited
<1>2. \A h \in Handlers :
        handler'[h].pc \in RowPCs /\ Exists(RowOf(h))' => RowOf(h)'.paidAt
  BY WorkIsPaidStep DEF Exists, RowOf, OrderOf
<1>3. QED
  BY <1>1, <1>2, PaidStatusStep DEF RowInv, RowPCs, Exists, RowOf, OrderOf

-----------------------------------------------------------------------------
(***************************************************************************)
(* The fulfilment lock: LockInv.                                           *)
(***************************************************************************)

\* The lock is taken on a row that no holder can have.
LEMMA LockTaken ==
    ASSUME TypeOK, CreationInv, RowInv, LockInv, Stepped,
           NEW h \in Handlers, NEW k \in Handlers, h # k,
           handler'[h].pc \in LockedPCs, handler'[k] = handler[k],
           handler[k].pc \in LockedPCs, handler'[h].order = OrderOf(k)
    PROVE  FALSE
<1>1. HandlerStep(h)
  BY DEF Stepped, Summary
<1>2. ~At(k, "idle")
  BY DEF At, LockedPCs
<1>3. OrderOf(h) = OrderOf(k) => handler[h].pc \notin LockedPCs
  BY DEF LockInv, SingleFulfiller
<1>4. CASE GoesOn(h)
  <2>1. OrderOf(h) = OrderOf(k)
    BY <1>4, GoesOnFacts
  <2>2. Hop(h, "lock", "redeem") /\ IsLockable(orders[OrderOf(k)])
    <3>1. CASE Writes(h)
      BY <1>3, <2>1, <3>1 DEF Writes, Hop, At, LockedPCs
    <3>2. CASE Passes(h)
      BY <1>3, <2>1, <3>2 DEF Passes, Hop, At, LockedPCs, BeforeInsertPCs
    <3>3. QED BY <1>4, <3>1, <3>2 DEF GoesOn
  <2>3. Exists(orders[OrderOf(k)])
    BY <2>2 DEF IsLockable, Exists, Absent
  <2>4. orders[OrderOf(k)].status \in {"RECHARGING", "COMPLETED"}
    BY <2>3 DEF LockInv, RowOf, At, LockedPCs
  <2>5. QED BY <2>2, <2>4 DEF IsLockable
<1>5. CASE Begins(h) \/ Leaves(h)
  BY <1>5, IdleOK DEF Begins, Leaves, LockedPCs
<1>6. CASE handler'[h] = handler[h]
  BY <1>3, <1>6 DEF OrderOf
<1>7. QED BY <1>1, <1>4, <1>5, <1>6 DEF HandlerStep

LEMMA SingleFulfillerStep ==
    ASSUME TypeOK, CreationInv, RowInv, LockInv, Stepped PROVE SingleFulfiller'
<1> SUFFICES ASSUME NEW h \in Handlers, NEW k \in Handlers, h # k,
                    handler'[h].pc \in LockedPCs, handler'[k].pc \in LockedPCs,
                    handler'[h].order = handler'[k].order
             PROVE  FALSE
  BY DEF SingleFulfiller, OrderOf
<1>1. handler'[h] = handler[h] \/ handler'[k] = handler[k]
  BY DEF Stepped, Summary, OneMoves
<1>2. CASE handler'[h] = handler[h]
  BY <1>2, LockTaken DEF OrderOf
<1>3. CASE handler'[k] = handler[k]
  BY <1>3, LockTaken DEF OrderOf
<1>4. QED BY <1>1, <1>2, <1>3

\* Nobody but the holder of the lock changes the status of its row.
LEMMA HolderRowStays ==
    ASSUME TypeOK, CreationInv, RowInv, LockInv, Stepped, NEW h \in Handlers,
           handler[h].pc \in LockedPCs, handler'[h] = handler[h],
           Exists(orders'[OrderOf(h)])
    PROVE  /\ Exists(orders[OrderOf(h)])
           /\ orders'[OrderOf(h)].status = orders[OrderOf(h)].status
<1> DEFINE o == OrderOf(h)
<1>1. ~At(h, "idle") /\ handler[h].pc \notin BeforeInsertPCs
  BY DEF At, LockedPCs, BeforeInsertPCs
<1>2. o \in Orders
  BY <1>1, OrderFacts
<1>3. ~ \E x \in Handlers : OrderOf(x) = o /\ At(x, "insert")
  BY <1>1, <1>2, NotInserted
<1>4. CASE orders'[o] = orders[o]
  BY <1>4
<1>5. ASSUME NEW x \in Handlers, OrderOf(x) = o, Writes(x), ~At(x, "insert"),
             Exists(orders[o])
      PROVE  orders'[o].status = orders[o].status
  <2>1. orders[o].status \in {"RECHARGING", "COMPLETED"}
    BY <1>5 DEF LockInv, RowOf, At, LockedPCs
  <2>2. ~At(x, "idle") /\ x # h
    <3>1. ~At(x, "idle")
      BY <1>5 DEF Writes, Hop, At
    <3>2. QED BY <1>5, <3>1, WriterMoves
  <2>3. handler[x].pc \notin LockedPCs
    BY <1>5, <2>2 DEF LockInv, SingleFulfiller
  <2>4. QED
    BY <1>5, <2>1, <2>3
       DEF Writes, Hop, At, LockedPCs, IsPayable, IsLockable, IsRetryable
<1>6. QED BY <1>2, <1>3, <1>4, <1>5, RowChange DEF Exists

LEMMA HolderStep ==
    ASSUME TypeOK, CreationInv, RowInv, LockInv, Stepped, NEW h \in Handlers,
           handler'[h].pc \in LockedPCs
    PROVE  LET row == orders'[handler'[h].order]
               to == handler'[h].pc
           IN  /\ to \in {"redeem", "complete"} /\ Exists(row) =>
                    row.status = "RECHARGING"
               /\ to = "audit_success" /\ Exists(row) => row.status = "COMPLETED"
               /\ to = "fail" /\ Exists(row) => row.status \in {"RECHARGING", "COMPLETED"}
               /\ to \in {"complete", "audit_success"} => handler'[h].order \in redeemed'
<1>1. HandlerStep(h) /\ redeemed \subseteq redeemed'
  BY DEF Stepped, Summary, World, OutsideStep
<1>2. ~Leaves(h) /\ ~Begins(h)
  BY IdleOK DEF Leaves, Begins, LockedPCs
<1>3. CASE handler'[h] = handler[h]
  <2>1. CASE Exists(orders'[OrderOf(h)])
    BY <1>1, <1>3, <2>1, HolderRowStays DEF LockInv, At, OrderOf, RowOf
  <2>2. CASE ~Exists(orders'[OrderOf(h)])
    BY <1>1, <1>3, <2>2 DEF LockInv, At, OrderOf
  <2>3. QED BY <2>1, <2>2
<1>4. CASE Writes(h) /\ GoesOn(h)
  <2>1. handler'[h].order = OrderOf(h)
    BY <1>4, GoesOnFacts
  <2>2. QED BY <1>1, <1>4, <2>1 DEF Writes, Hop, At, LockInv, LockedPCs
<1>5. CASE Passes(h) /\ GoesOn(h)
  <2>1. handler'[h].order = OrderOf(h) /\ UNCHANGED orders
    BY <1>5, GoesOnFacts DEF Passes
  <2>2. \/ Hop(h, "redeem", "complete") /\ OrderOf(h) \in redeemed'
        \/ Hop(h, "redeem", "fail")
        \/ Hop(h, "complete", "audit_success") /\ RowOf(h).status # "RECHARGING"
        \/ handler[h].pc \in {"complete", "audit_success"} /\ handler'[h].pc = "fail"
    BY <1>5 DEF Passes, Hop, At, LockedPCs, BeforeInsertPCs, RowOf
  <2>3. QED BY <1>1, <2>1, <2>2 DEF Hop, At, LockInv, RowOf, Exists
<1>6. QED BY <1>1, <1>2, <1>3, <1>4, <1>5 DEF HandlerStep, GoesOn

LEMMA LockStep ==
    ASSUME TypeOK, CreationInv, RowInv, LockInv, Stepped PROVE LockInv'
<1>1. SingleFulfiller'
  BY SingleFulfillerStep
<1>2. QED
  BY <1>1, HolderStep DEF LockInv, At, RowOf, OrderOf, Exists, LockedPCs

-----------------------------------------------------------------------------
(***************************************************************************)
(* Acknowledgements: AckInv.                                               *)
(***************************************************************************)

\* IsPayable, for a row at a time.
PayableAt(row, t) ==
    \/ row.status = "PENDING"
    \/ row.status = "EXPIRED" /\ row.updatedAt >= t - Grace

\* A row that cannot be paid any more never can be again.
LEMMA UnpayableStays ==
    ASSUME TypeOK, CreationInv, Stepped, NEW o \in Orders, ~IsPayable(orders[o]),
           ~ \E x \in Handlers : OrderOf(x) = o /\ At(x, "insert")
    PROVE  ~PayableAt(orders'[o], now')
<1>1. /\ now \in Int /\ now' \in Int /\ now <= now' /\ Grace \in Int
      /\ orders[o] \in Row \cup {Absent}
  BY TypeParts DEF Stepped, World, OutsideStep, OutsideOK, OrdersOK, Time
<1>2. orders[o].updatedAt \in Int
  <2>1. orders[o].updatedAt \in Time
    BY <1>1, RowFacts
  <2>2. QED BY <2>1 DEF Time
<1>3. /\ orders[o].status # "PENDING"
      /\ orders[o].status = "EXPIRED" => ~(orders[o].updatedAt >= now' - Grace)
  BY <1>1, <1>2 DEF IsPayable
<1>4. CASE orders'[o] = orders[o]
  BY <1>3, <1>4 DEF PayableAt
<1>5. CASE orders'[o] = Absent
  BY <1>5 DEF PayableAt, Absent
<1>6. ASSUME NEW x \in Handlers, OrderOf(x) = o, Writes(x), ~At(x, "insert")
      PROVE  ~PayableAt(orders'[o], now')
  <2>1. CASE At(x, "attach")
    BY <1>3, <1>6, <2>1 DEF Writes, Hop, At, PayableAt
  <2>2. CASE ~At(x, "attach")
    <3>1. orders'[o].status \in PaidStatuses
      BY <1>3, <1>6, <2>2 DEF Writes, Hop, PaidStatuses
    <3>2. QED BY <3>1 DEF PayableAt, PaidStatuses
  <2>3. QED BY <2>1, <2>2
<1>7. QED BY <1>4, <1>5, <1>6, RowChange

\* Who works on a fulfilment works on a row that cannot be paid any more.
LEMMA WorkIsUnpayable ==
    ASSUME TypeOK, RowInv, NEW h \in Handlers, handler[h].pc \in RowPCs,
           OrderOf(h) \in Orders
    PROVE  ~IsPayable(RowOf(h))
<1>1. RowOf(h) \in Row \cup {Absent}
  BY TypeParts DEF OrdersOK, RowOf
<1>2. CASE Exists(RowOf(h))
  BY <1>2 DEF RowInv, RowPCs, RowOf, PaidStatuses, IsPayable
<1>3. CASE ~Exists(RowOf(h))
  BY <1>1, <1>3, RowFacts
<1>4. QED BY <1>2, <1>3

\* An answer with success is about an order that cannot be paid any more.
LEMMA AcksAreFinal ==
    ASSUME TypeOK, CreationInv, RowInv, AckInv, NEW h \in Handlers, Acks(h)
    PROVE  ~IsPayable(RowOf(h)) /\ UNCHANGED orders
<1>1. ~At(h, "idle")
  BY DEF Acks, At
<1>2. CASE At(h, "reread")
  BY <1>2 DEF Acks, AckInv
<1>3. CASE ~At(h, "reread")
  <2>1. handler[h].pc \in RowPCs
    BY <1>3 DEF Acks, At, RowPCs, FulfilPCs, LockedPCs
  <2>2. QED BY <1>1, <2>1, OrderFacts, WorkIsUnpayable DEF Acks
<1>4. QED BY <1>2, <1>3 DEF Acks

LEMMA AckedStep ==
    ASSUME TypeOK, CreationInv, RowInv, AckInv, Stepped, NEW o \in Orders, o \in acked'
    PROVE  ~PayableAt(orders'[o], now')
<1>1. o \in acked \/ \E h \in Handlers : Acks(h) /\ OrderOf(h) = o
  BY DEF Stepped, World, OutsideStep
<1>2. CASE o \in acked
  BY <1>2, NotInserted, UnpayableStays DEF AckInv
<1>3. ASSUME NEW h \in Handlers, Acks(h), OrderOf(h) = o
      PROVE  ~PayableAt(orders'[o], now')
  <2>1. ~IsPayable(orders[o])
    BY <1>3, AcksAreFinal DEF RowOf
  <2>2. handler[h].pc \notin BeforeInsertPCs
    BY <1>3 DEF Acks, At, BeforeInsertPCs
  <2>3. QED BY <1>3, <2>1, <2>2, NotInserted, UnpayableStays
<1>4. QED BY <1>1, <1>2, <1>3

LEMMA RereadStep ==
    ASSUME TypeOK, CreationInv, AckInv, Stepped, NEW h \in Handlers,
           handler'[h].pc = "reread"
    PROVE  ~PayableAt(orders'[handler'[h].order], now')
<1>1. HandlerStep(h)
  BY DEF Stepped, Summary
<1>2. ~Leaves(h) /\ ~Begins(h)
  BY IdleOK DEF Leaves, Begins
<1>3. /\ handler'[h].order = OrderOf(h) /\ ~IsPayable(orders[OrderOf(h)])
      /\ ~At(h, "idle") /\ handler[h].pc \notin BeforeInsertPCs
  <2>1. CASE handler'[h] = handler[h]
    BY <2>1 DEF AckInv, At, RowOf, OrderOf, BeforeInsertPCs
  <2>2. CASE GoesOn(h)
    <3>1. At(h, "mark_paid") /\ ~IsPayable(orders[OrderOf(h)])
      BY <2>2 DEF GoesOn, Writes, Passes, Hop, At, BeforeInsertPCs
    <3>2. QED BY <2>2, <3>1, GoesOnFacts DEF At, BeforeInsertPCs
  <2>3. QED BY <1>1, <1>2, <2>1, <2>2 DEF HandlerStep
<1>4. OrderOf(h) \in Orders
  BY <1>3, OrderFacts
<1>5. QED BY <1>3, <1>4, NotInserted, UnpayableStays

\* Without lost requests, whoever works on a fulfilment stays at it as long as the
\* row says so: the places PCs are left to each other only.
StaysAt(o, pcs) ==
    AtWork(o, pcs) =>
      \E h \in Handlers : handler'[h].order = o /\ handler'[h].pc \in pcs

LEMMA PaidKeepsWorker ==
    ASSUME TypeOK, CreationInv, Stepped, Faultless', NEW o \in Orders,
           orders[o].status = "PAID", orders'[o].status = "PAID"
    PROVE  /\ StaysAt(o, {"audit_paid", "audit_retry", "exec", "lock"})
           /\ StaysAt(o, {"audit_retry", "exec", "lock"})
<1> SUFFICES ASSUME NEW h \in Handlers, OrderOf(h) = o,
                    handler[h].pc \in {"audit_paid", "audit_retry", "exec", "lock"}
             PROVE  /\ handler'[h].order = o
                    /\ handler'[h].pc \in {"audit_paid", "audit_retry", "exec", "lock"}
                    /\ handler[h].pc # "audit_paid" => handler'[h].pc # "audit_paid"
  BY DEF StaysAt, AtWork
<1>1. HandlerStep(h)
  BY DEF Stepped, Summary
<1>2. ~Begins(h) /\ ~Leaves(h)
  BY DEF Begins, Leaves, At, RowOf, IsLockable
<1>3. CASE handler'[h] = handler[h]
  BY <1>3 DEF OrderOf
<1>4. CASE GoesOn(h)
  <2>1. handler'[h].order = o
    BY <1>4, GoesOnFacts
  <2>2. ~Writes(h)
    BY DEF Writes, Hop, At
  <2>3. CASE Passes(h)
    BY <2>1, <2>3 DEF Passes, Hop, At, BeforeInsertPCs, ConfirmPCs
  <2>4. QED BY <1>4, <2>2, <2>3 DEF GoesOn
<1>5. QED BY <1>1, <1>2, <1>3, <1>4 DEF HandlerStep

LEMMA RechargingKeepsWorker ==
    ASSUME TypeOK, CreationInv, LockInv, Stepped, Faultless', NEW o \in Orders,
           orders[o].status = "RECHARGING", orders'[o].status = "RECHARGING"
    PROVE  StaysAt(o, LockedPCs)
<1> SUFFICES ASSUME NEW h \in Handlers, OrderOf(h) = o, handler[h].pc \in LockedPCs
             PROVE  handler'[h].order = o /\ handler'[h].pc \in LockedPCs
  BY DEF StaysAt, AtWork
<1>1. HandlerStep(h)
  BY DEF Stepped, Summary
<1>2. Exists(RowOf(h)) /\ RowOf(h).status = "RECHARGING"
  BY DEF Exists, RowOf, Absent
<1>3. ~At(h, "audit_success")
  BY <1>2 DEF LockInv
<1>4. ~Begins(h) /\ ~Leaves(h)
  BY <1>2, <1>3 DEF Begins, Leaves, At, LockedPCs
<1>5. CASE handler'[h] = handler[h]
  BY <1>5 DEF OrderOf
<1>6. CASE GoesOn(h)
  <2>1. handler'[h].order = o
    BY <1>6, GoesOnFacts
  <2>2. ~Writes(h)
    BY DEF Writes, Hop, At, LockedPCs
  <2>3. CASE Passes(h)
    BY <2>1, <2>3 DEF Passes, Hop, At, LockedPCs, BeforeInsertPCs, ConfirmPCs
  <2>4. QED BY <1>6, <2>2, <2>3 DEF GoesOn
<1>7. QED BY <1>1, <1>4, <1>5, <1>6 DEF HandlerStep

\* A row becomes paid, or taken, by a handler that then works on it.
LEMMA NewWorker ==
    ASSUME TypeOK, CreationInv, Stepped, NEW o \in Orders,
           orders'[o].status # orders[o].status
    PROVE  /\ orders'[o].status = "PAID" =>
                \E h \in Handlers :
                  /\ handler'[h].order = o
                  /\ \/ handler'[h].pc = "audit_paid" /\ IsPayable(orders[o])
                     \/ handler'[h].pc = "audit_retry"
           /\ orders'[o].status = "RECHARGING" =>
                \E h \in Handlers : handler'[h].order = o /\ handler'[h].pc \in LockedPCs
<1>1. CASE \E h \in Handlers : OrderOf(h) = o /\ Deletes(h)
  BY <1>1 DEF Deletes, Absent
<1>2. ASSUME NEW h \in Handlers, OrderOf(h) = o, Writes(h)
      PROVE  /\ handler'[h].order = o
             /\ orders'[o].status = "PAID" =>
                  \/ handler'[h].pc = "audit_paid" /\ IsPayable(orders[o])
                  \/ handler'[h].pc = "audit_retry"
             /\ orders'[o].status = "RECHARGING" => handler'[h].pc \in LockedPCs
  <2>1. ~At(h, "idle") /\ handler'[h] # handler[h]
    BY <1>2 DEF Writes, Hop, At
  <2>2. handler'[h].pc # "idle"
    BY <1>2 DEF Writes, Hop
  <2>3. GoesOn(h)
    BY <2>1, <2>2, IdleOK DEF Stepped, Summary, HandlerStep, Begins, Leaves
  <2>4. handler'[h].order = o
    BY <1>2, <2>3, GoesOnFacts
  <2>5. QED BY <1>2, <2>4 DEF Writes, Hop, LockedPCs
<1>3. QED BY <1>1, <1>2 DEF Stepped, Summary, RowStep

LEMMA WorkerStep ==
    ASSUME TypeOK, CreationInv, RowInv, LockInv, AckInv, Stepped, Faultless',
           NEW o \in Orders
    PROVE  /\ orders'[o].status = "PAID" =>
                \E h \in Handlers :
                  /\ handler'[h].order = o
                  /\ handler'[h].pc \in {"audit_paid", "audit_retry", "exec", "lock"}
           /\ orders'[o].status = "PAID" /\ o \in acked' =>
                \E h \in Handlers :
                  /\ handler'[h].order = o
                  /\ handler'[h].pc \in {"audit_retry", "exec", "lock"}
           /\ orders'[o].status = "RECHARGING" =>
                \E h \in Handlers : handler'[h].order = o /\ handler'[h].pc \in LockedPCs
<1>1. Faultless
  BY DEF Stepped, World, OutsideStep
<1>2. /\ orders[o].status = "PAID" =>
           AtWork(o, {"audit_paid", "audit_retry", "exec", "lock"})
      /\ orders[o].status = "PAID" /\ o \in acked =>
           AtWork(o, {"audit_retry", "exec", "lock"})
      /\ orders[o].status = "RECHARGING" => AtWork(o, LockedPCs)
  BY <1>1 DEF AckInv
<1>3. o \in acked' => o \in acked \/ \E h \in Handlers : Acks(h) /\ OrderOf(h) = o
  BY DEF Stepped, World, OutsideStep
<1>4. CASE orders'[o].status = orders[o].status
  <2>1. orders[o].status = "PAID" /\ o \in acked' => o \in acked
    <3>1. ASSUME NEW h \in Handlers, Acks(h), OrderOf(h) = o, orders[o].status = "PAID"
          PROVE  FALSE
      <4>1. Exists(RowOf(h)) /\ RowOf(h).status = "PAID"
        BY <3>1 DEF RowOf, Exists, Absent
      <4>2. QED BY <3>1, <4>1 DEF Acks, IsLockable, LockInv
    <3>2. QED BY <1>3, <3>1
  <2>2. QED
    BY <1>2, <1>4, <2>1, PaidKeepsWorker, RechargingKeepsWorker DEF StaysAt
<1>5. CASE orders'[o].status # orders[o].status
  <2>1. o \in acked' => ~IsPayable(orders[o])
    BY <1>3, AcksAreFinal DEF AckInv, RowOf
  <2>2. QED BY <1>5, <2>1, NewWorker
<1>6. QED BY <1>4, <1>5

LEMMA AckStep ==
    ASSUME TypeOK, CreationInv, RowInv, LockInv, AckInv, Stepped PROVE AckInv'
<1>1. \A h \in Handlers : At(h, "reread")' => ~IsPayable(RowOf(h))'
  BY RereadStep DEF At, RowOf, OrderOf, IsPayable, PayableAt
<1>2. \A o \in acked' : ~IsPayable(orders[o])'
  BY AckedStep DEF IsPayable, PayableAt, Stepped, World, OutsideOK
<1>3. Faultless' =>
        \A o \in Orders :
           /\ orders'[o].status = "PAID" =>
                AtWork(o, {"audit_paid", "audit_retry", "exec", "lock"})'
           /\ orders'[o].status = "PAID" /\ o \in acked' =>
                AtWork(o, {"audit_retry", "exec", "lock"})'
           /\ orders'[o].status = "RECHARGING" => AtWork(o, LockedPCs)'
  BY WorkerStep DEF AtWork, OrderOf
<1>4. QED BY <1>1, <1>2, <1>3 DEF AckInv

-----------------------------------------------------------------------------
(***************************************************************************)
(* The theorems.                                                           *)
(***************************************************************************)

LEMMA InitIInv == Init => IInv
<1> SUFFICES ASSUME Init PROVE IInv
  OBVIOUS
<1> USE DEF Init, At, OrderOf, RowOf
<1>1. \A h \in Handlers : handler[h] = Idle
  OBVIOUS
<1>2. TypeOK
  <2>1. HandlersOK
    BY IdleOK DEF HandlersOK
  <2>2. QED BY <2>1 DEF TypeOK, HandlersOK, HandlerState, PCs, Time
<1>3. CreationInv
  BY <1>1, IdleOK DEF CreationInv, CreatePCs, BeforeInsertPCs, AfterInsertPCs
<1>4. PaymentInv
  BY <1>1, IdleOK DEF PaymentInv, Absent, FulfilPCs, LockedPCs, RetryPCs
<1>5. RowInv
  BY <1>1, IdleOK
     DEF RowInv, CompletedIsCredited, Absent, PaidStatuses, FulfilPCs, LockedPCs, RetryPCs
<1>6. LockInv
  BY <1>1, IdleOK DEF LockInv, SingleFulfiller, LockedPCs
<1>7. AckInv
  BY <1>1, IdleOK DEF AckInv, Absent
<1>8. QED BY <1>2, <1>3, <1>4, <1>5, <1>6, <1>7 DEF IInv

LEMMA NextIInv == IInv /\ [Next]_vars => IInv'
<1> SUFFICES ASSUME IInv, [Next]_vars PROVE IInv'
  OBVIOUS
<1>1. /\ TypeOK /\ CreationInv /\ PaymentInv /\ RowInv /\ LockInv /\ AckInv
      /\ Stepped
  BY StepIsStepped DEF IInv
<1>2. TypeOK'
  BY <1>1, TypeStep
<1>3. QED
  BY <1>1, <1>2, CreationStep, PaymentStep, RowInvStep, LockStep, AckStep DEF IInv

\* The inductive invariant: who knows of an order, what was paid, what the row
\* says, who holds the lock and who was answered.
THEOREM InvariantHolds == Spec => []IInv
  BY InitIInv, NextIInv, PTL DEF Spec

\* The service in frontend/src/lib/order keeps its types.
THEOREM TypeCorrect == Spec => []TypeOK
<1>1. IInv => TypeOK
  BY DEF IInv
<1>2. QED BY <1>1, InvariantHolds, PTL

\* However many notifications, cancellations, sweeps and retries run at once, one
\* of them fulfils the order.
THEOREM FulfilmentIsSingle == Spec => []SingleFulfiller
<1>1. IInv => SingleFulfiller
  BY DEF IInv, LockInv
<1>2. QED BY <1>1, InvariantHolds, PTL

\* No code is redeemed, now or by a redemption still on its way, for an order
\* whose customer did not pay what was due.
THEOREM CreditIsPaidFor == Spec => []CreditIsFunded
<1>1. IInv => CreditIsFunded
  <2> SUFFICES ASSUME IInv, NEW o \in redeemed \cup inflight
               PROVE  collected[o] \in (Due - 1)..(Due + 1)
    BY DEF CreditIsFunded
  <2>1. o \in Orders /\ AmountPaid(o)
    BY DEF IInv, TypeOK, PaymentInv
  <2>2. collected[o] \in Int
    <3>1. collected \in [Orders -> PaidAmounts \cup {NULL}]
      BY DEF IInv, TypeOK
    <3>2. collected[o] \in PaidAmounts
      BY <2>1, <3>1 DEF AmountPaid
    <3>3. \A n \in PaidAmounts : n \in Nat
      OBVIOUS
    <3>4. collected[o] \in Nat
      BY <3>2, <3>3, Zenon
    <3>5. QED BY <3>4
  <2>3. QED BY <2>1, <2>2 DEF AmountPaid, AmountAccepted
<1>2. QED BY <1>1, InvariantHolds, PTL

\* No order is completed, or keeps a completion date, that was not credited.
THEOREM CompletionIsCredited == Spec => []CompletedIsCredited
<1>1. IInv => CompletedIsCredited
  BY DEF IInv, RowInv
<1>2. QED BY <1>1, InvariantHolds, PTL

\* Neither a cancellation nor the sweep closes an order that took a payment.
THEOREM PaidStaysOpen == Spec => []PaidIsNotClosed
<1>1. IInv => PaidIsNotClosed
  BY DEF IInv, RowInv, PaidIsNotClosed, PaidStatuses
<1>2. QED BY <1>1, InvariantHolds, PTL

\* What was acknowledged is settled, or somebody is still settling it.
THEOREM AcksAreSettled == Spec => []AckedIsSettled
<1>1. IInv => AckedIsSettled
  <2> SUFFICES ASSUME IInv, Faultless, NEW o \in acked, orders[o].paidAt,
                      o \notin redeemed, orders[o].status # "FAILED"
               PROVE  \E h \in Handlers :
                        /\ OrderOf(h) = o
                        /\ handler[h].pc \in LockedPCs \cup {"audit_retry", "exec", "lock"}
    BY DEF AckedIsSettled
  <2>1. o \in Orders
    BY DEF IInv, TypeOK
  <2>2. orders[o].status \in {"PAID", "RECHARGING"}
    BY <2>1 DEF IInv, RowInv, PaidStatuses, CompletedIsCredited
  <2>3. AtWork(o, {"audit_retry", "exec", "lock"}) \/ AtWork(o, LockedPCs)
    BY <2>1, <2>2 DEF IInv, AckInv
  <2>4. QED BY <2>3 DEF AtWork
<1>2. QED BY <1>1, InvariantHolds, PTL

=============================================================================
