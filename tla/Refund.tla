------------------------------- MODULE Refund -------------------------------
(***************************************************************************)
(* Refunds of delivered balance orders: request_refund and process_refund  *)
(* of src/order/service.rs.  A refund changes three systems in turn: the   *)
(* platform takes the credit back, the payment gateway returns the money,  *)
(* and the row records the outcome.  When the gateway fails the deduction  *)
(* is rolled back.  Any call may fail, be answered late or not at all; the *)
(* UPDATE that ends a refund may fail, and so may the audit row after it,  *)
(* which sends a handler whose lock is already gone to the Err arm.        *)
(*                                                                         *)
(* Each action is one awaited call with the local decisions up to the next *)
(* one.  The reads before the lock change nothing: they are part of        *)
(* BeginRefund, whose plan is whatever the balance that was read allows,   *)
(* and a refund that ends there is one that does not begin.  A delivered   *)
(* order has a payment_trade_no (it was marked paid), so the gateway is    *)
(* always asked.  Deducting days of a subscription follows the same path   *)
(* with days for cents.                                                    *)
(***************************************************************************)
EXTENDS OrderRepository, FiniteSets

CONSTANTS
    Orders,        \* the orders, delivered and of one amount
    Handlers,      \* bound on the requests in progress at one time
    Amount,        \* amount_cents: what was credited
    PayAmount,     \* pay_amount_cents: what was paid, the fee included
    RefundAmounts, \* the amounts users and administrators enter
    MaxTries,      \* bound on the refunds begun for an order
    MaxNow,        \* bound on the clock
    Interruptions, \* may a handler be cut short?
    DbErrors       \* may the UPDATE that ends a refund, or the audit row
                   \* written after it, return an error?

ASSUME RefundAssumption ==
    /\ Amount \in Nat \ {0} /\ PayAmount \in Nat \ {0}
    /\ RefundAmounts \subseteq 1..Amount
    /\ MaxTries \in Nat /\ MaxNow \in Nat
    /\ Interruptions \in BOOLEAN /\ DbErrors \in BOOLEAN
    /\ NULL \notin Orders

VARIABLES
    orders,     \* the orders table
    handler,    \* what each handler is doing
    now,        \* the clock
    calls,      \* balance operations on their way to the platform
    applied,    \* idempotency keys the platform has recorded
    taken,      \* what the platform took back for each order, net
    asked,      \* refunds on their way to the gateway
    returned,   \* refunds the gateway made
    tries,      \* refunds begun for each order
    history     \* what the properties need to remember

platformVars == <<calls, applied, taken>>
gatewayVars  == <<asked, returned>>
vars == <<orders, handler, now, calls, applied, taken, asked, returned, tries,
          history>>

Time == 0..MaxNow

\* The places at which a handler holds the refund lock.
LockedPCs ==
    {"deduct", "deduct_answer", "gateway", "gateway_answer", "rollback",
     "rollback_answer", "restore", "record", "failed"}

\* After its UPDATE a handler writes an audit row; the error of that write
\* still leads to the Err arm of process_refund.
PCs == {"idle", "request", "lock", "audit", "audit_failed"} \cup LockedPCs

\* amount and gateway are what is recorded and what the gateway is asked for;
\* plan is the DeductionPlan; seen is the status read before the lock; at is
\* the second of the last balance operation.
Idle == [pc |-> "idle", order |-> NULL, try |-> 0, amount |-> 0, gateway |-> 0,
         plan |-> 0, seen |-> "COMPLETED", at |-> 0]

HandlerState ==
    [pc : PCs, order : Orders \cup {NULL}, try : Nat, amount : 0..Amount,
     gateway : Nat, plan : 0..Amount, seen : Statuses, at : Time]

CallSet  == [kind : {"subtract", "add"}, order : Orders, at : Time, amount : Nat]
KeySet   == [kind : {"subtract", "add"}, order : Orders, at : Time]
AskSet   == [order : Orders, try : Nat, amount : 1..Amount, gateway : Nat,
             plan : 0..Amount]

TypeOK ==
    /\ orders \in [Orders -> Row(Time, Int)]
    /\ handler \in [Handlers -> HandlerState]
    /\ \A h \in Handlers : handler[h].pc # "idle" =>
         handler[h].order \in Orders /\ handler[h].amount > 0
    /\ now \in Time
    /\ calls \subseteq CallSet
    /\ applied \subseteq KeySet
    /\ taken \in [Orders -> Int]
    /\ asked \subseteq AskSet /\ returned \subseteq AskSet
    /\ tries \in [Orders -> Nat]
    /\ history \in [abandoned  : SUBSET Orders, \* cut short while locked
                    unrecorded : SUBSET Orders, \* refunded, UPDATE failed
                    overtaken  : SUBSET Orders, \* ended by a late Err arm
                    collided   : SUBSET Orders, \* a key was used twice
                    keys       : SUBSET KeySet, \* the keys used
                    confirmed  : SUBSET AskSet] \* refunds answered success

DeliveredRow ==
    [PendingRow(PayAmount, 0, 0) EXCEPT
        !.status = "COMPLETED", !.paid_at = 0, !.completed_at = 0]

Init ==
    /\ orders = [o \in Orders |-> DeliveredRow]
    /\ handler = [h \in Handlers |-> Idle]
    /\ now = 0
    /\ calls = {} /\ applied = {}
    /\ taken = [o \in Orders |-> 0]
    /\ asked = {} /\ returned = {}
    /\ tries = [o \in Orders |-> 0]
    /\ history = [abandoned |-> {}, unrecorded |-> {}, overtaken |-> {},
                  collided |-> {}, keys |-> {}, confirmed |-> {}]

-----------------------------------------------------------------------------
OrderOf(h) == handler[h].order
RowOf(h) == orders[OrderOf(h)]
At(h, pc) == handler[h].pc = pc
Goto(h, pc) == handler' = [handler EXCEPT ![h].pc = pc]
Finish(h) == handler' = [handler EXCEPT ![h] = Idle]
SetRow(h, row) == orders' = [orders EXCEPT ![OrderOf(h)] = row]

-----------------------------------------------------------------------------
(***************************************************************************)
(* request_refund: a user asks for a refund of a delivered order.          *)
(***************************************************************************)

BeginRequest(h, o, amount) ==
    /\ At(h, "idle")
    /\ orders[o].status = "COMPLETED"
    /\ handler' = [handler EXCEPT ![h] =
                     [Idle EXCEPT !.pc = "request", !.order = o, !.amount = amount]]
    /\ UNCHANGED <<orders, now, platformVars, gatewayVars, tries, history>>

\* The request fails when the row is no longer COMPLETED, and writes nothing.
MarkRefundRequested(h) ==
    /\ At(h, "request")
    /\ IF IsRefundRequestable(RowOf(h), TRUE)
       THEN SetRow(h, RefundRequestedRow(RowOf(h), handler[h].amount, now))
       ELSE UNCHANGED orders
    /\ Finish(h)
    /\ UNCHANGED <<now, platformVars, gatewayVars, tries, history>>

-----------------------------------------------------------------------------
(***************************************************************************)
(* process_refund: an administrator refunds an order.  Without an amount   *)
(* the whole order is refunded, and the gateway returns the fee as well.   *)
(* The plan takes back at most the amount and at most the balance that was *)
(* read; it is nothing when the administrator says so, or forces a refund  *)
(* although the balance cannot be read.                                    *)
(***************************************************************************)

BeginRefund(h, o) ==
    /\ At(h, "idle")
    /\ IsRefundable(orders[o])
    /\ tries[o] < MaxTries
    /\ \E input \in RefundAmounts \cup {NULL} :
       LET amount == IF input = NULL THEN Amount ELSE input IN
       \E plan \in 0..amount :
         handler' = [handler EXCEPT ![h] =
            [Idle EXCEPT
               !.pc = "lock", !.order = o, !.try = tries[o] + 1,
               !.amount = amount, !.plan = plan, !.seen = orders[o].status,
               !.gateway = IF input = NULL THEN orders[o].pay_amount ELSE input]]
    /\ tries' = [tries EXCEPT ![o] = @ + 1]
    /\ UNCHANGED <<orders, now, platformVars, gatewayVars, history>>

MarkRefunding(h) ==
    /\ At(h, "lock")
    /\ IsRefundable(RowOf(h))
    /\ SetRow(h, RefundingRow(RowOf(h), now))
    /\ Goto(h, "deduct")
    /\ UNCHANGED <<now, platformVars, gatewayVars, tries, history>>

MarkRefundingRefused(h) ==
    /\ At(h, "lock")
    /\ ~IsRefundable(RowOf(h))
    /\ Finish(h)
    /\ UNCHANGED <<orders, now, platformVars, gatewayVars, tries, history>>

-----------------------------------------------------------------------------
(***************************************************************************)
(* The balance operations.  Their idempotency keys name the order and the  *)
(* second at which the handler asks.                                       *)
(***************************************************************************)

Key(kind, o, t) == [kind |-> kind, order |-> o, at |-> t]

KeyOf(call) == Key(call.kind, call.order, call.at)

AdjustBalance(h, kind) ==
    LET key == Key(kind, OrderOf(h), now) IN
    /\ calls' = calls \cup {[kind |-> kind, order |-> OrderOf(h), at |-> now,
                             amount |-> handler[h].plan]}
    /\ history' = [history EXCEPT
                     !.keys = @ \cup {key},
                     !.collided = IF key \in history.keys
                                  THEN @ \cup {OrderOf(h)} ELSE @]
    /\ handler' = [handler EXCEPT
                     ![h].pc = IF kind = "subtract" THEN "deduct_answer"
                               ELSE "rollback_answer",
                     ![h].at = now]

BalanceAdjusted(h, kind) == Key(kind, OrderOf(h), handler[h].at) \in applied

SubtractBalance(h) ==
    /\ At(h, "deduct")
    /\ handler[h].plan > 0
    /\ AdjustBalance(h, "subtract")
    /\ UNCHANGED <<orders, now, applied, taken, gatewayVars, tries>>

NothingToDeduct(h) ==
    /\ At(h, "deduct")
    /\ handler[h].plan = 0
    /\ Goto(h, "gateway")
    /\ UNCHANGED <<orders, now, platformVars, gatewayVars, tries, history>>

DeductionOk(h) ==
    /\ At(h, "deduct_answer")
    /\ BalanceAdjusted(h, "subtract")
    /\ Goto(h, "gateway")
    /\ UNCHANGED <<orders, now, platformVars, gatewayVars, tries, history>>

\* Mutants: a deduction that was not confirmed does not stop the refund; the
\* handler passes the error on without ending the refund.
MutantIgnoresDeduction(h) ==
    /\ At(h, "deduct_answer")
    /\ Goto(h, "gateway")
    /\ UNCHANGED <<orders, now, platformVars, gatewayVars, tries, history>>

MutantForgetsRefunding(h) ==
    /\ At(h, "deduct_answer")
    /\ Finish(h)
    /\ UNCHANGED <<orders, now, platformVars, gatewayVars, tries, history>>

\* A refusal, a timeout, a lost answer: the refund ends as REFUND_FAILED.
DeductionError(h) ==
    /\ At(h, "deduct_answer")
    /\ Goto(h, "failed")
    /\ UNCHANGED <<orders, now, platformVars, gatewayVars, tries, history>>

-----------------------------------------------------------------------------
(***************************************************************************)
(* The gateway's refund, which carries no idempotency key, and what        *)
(* follows a failure: roll the deduction back, then restore the row.       *)
(***************************************************************************)

RefundOf(h) ==
    [order |-> OrderOf(h), try |-> handler[h].try, amount |-> handler[h].amount,
     gateway |-> handler[h].gateway, plan |-> handler[h].plan]

AskGateway(h) ==
    /\ At(h, "gateway")
    /\ asked' = asked \cup {RefundOf(h)}
    /\ Goto(h, "gateway_answer")
    /\ UNCHANGED <<orders, now, platformVars, returned, tries, history>>

GatewayOk(h) ==
    /\ At(h, "gateway_answer")
    /\ RefundOf(h) \in returned
    /\ history' = [history EXCEPT !.confirmed = @ \cup {RefundOf(h)}]
    /\ Goto(h, "record")
    /\ UNCHANGED <<orders, now, platformVars, gatewayVars, tries>>

\* No provider is configured, or it refuses, or no answer arrives.
GatewayError(h) ==
    /\ handler[h].pc \in {"gateway", "gateway_answer"}
    /\ Goto(h, IF handler[h].plan > 0 THEN "rollback" ELSE "restore")
    /\ UNCHANGED <<orders, now, platformVars, gatewayVars, tries, history>>

\* Mutant: the rollback gives the amount of the refund back, not that of the
\* deduction.
MutantRollsBackAll(h) ==
    /\ At(h, "rollback")
    /\ handler' = [handler EXCEPT ![h].pc = "rollback_answer", ![h].at = now]
    /\ calls' = calls \cup {[kind |-> "add", order |-> OrderOf(h), at |-> now,
                             amount |-> handler[h].amount]}
    /\ history' = [history EXCEPT !.keys = @ \cup {Key("add", OrderOf(h), now)}]
    /\ UNCHANGED <<orders, now, applied, taken, gatewayVars, tries>>

AddBalance(h) ==
    /\ At(h, "rollback")
    /\ AdjustBalance(h, "add")
    /\ UNCHANGED <<orders, now, applied, taken, gatewayVars, tries>>

RollbackOk(h) ==
    /\ At(h, "rollback_answer")
    /\ BalanceAdjusted(h, "add")
    /\ Goto(h, "restore")
    /\ UNCHANGED <<orders, now, platformVars, gatewayVars, tries, history>>

RollbackError(h) ==
    /\ At(h, "rollback_answer")
    /\ Goto(h, "failed")
    /\ UNCHANGED <<orders, now, platformVars, gatewayVars, tries, history>>

-----------------------------------------------------------------------------
(***************************************************************************)
(* The UPDATE that ends the refund, and the audit row after it.  No UPDATE *)
(* looks at whether it touched the row, nor whose lock it ends: all it     *)
(* asks is that the row is REFUNDING.                                      *)
(***************************************************************************)

\* Mutant: what is restored is the lock itself.
MutantRestoresLock(seen) ==
    IF seen = "REFUND_REQUESTED" THEN "REFUND_REQUESTED" ELSE "REFUNDING"

RestoreStatus(seen) ==
    IF seen = "REFUND_REQUESTED" THEN "REFUND_REQUESTED" ELSE "COMPLETED"

FinalStatus(amount) ==
    IF amount < Amount THEN "PARTIALLY_REFUNDED" ELSE "REFUNDED"

EndRefund(h, row) ==
    /\ IF IsRefunding(RowOf(h)) THEN SetRow(h, row) ELSE UNCHANGED orders
    /\ UNCHANGED <<now, platformVars, gatewayVars, tries>>

Restore(h) ==
    /\ At(h, "restore")
    /\ EndRefund(h, RestoredRow(RowOf(h), RestoreStatus(handler[h].seen), now))
    /\ Goto(h, "audit") /\ UNCHANGED history

MarkRefunded(h) ==
    /\ At(h, "record")
    /\ EndRefund(h, RefundedRow(RowOf(h), FinalStatus(handler[h].amount),
                                handler[h].amount, now))
    /\ Goto(h, "audit") /\ UNCHANGED history

AuditRefund(h) ==
    /\ At(h, "audit")
    /\ Finish(h)
    /\ UNCHANGED <<orders, now, platformVars, gatewayVars, tries, history>>

\* The Err arm of process_refund.  It drops the error of its UPDATE, which then
\* leaves the row as an interruption at this place does.
MarkRefundFailed(h) ==
    /\ At(h, "failed")
    /\ EndRefund(h, RefundFailedRow(RowOf(h), now))
    /\ Finish(h) /\ UNCHANGED history

\* The same arm after the audit row failed, when the handler's own lock is
\* gone: a row that is REFUNDING now is another refund's.
LateRefundFailed(h) ==
    /\ At(h, "audit_failed")
    /\ EndRefund(h, RefundFailedRow(RowOf(h), now))
    /\ Finish(h)
    /\ history' = [history EXCEPT
                     !.overtaken = IF IsRefunding(RowOf(h))
                                   THEN @ \cup {OrderOf(h)} ELSE @]

\* The database refuses the UPDATE, or the audit row after it.
DbError(h) ==
    /\ DbErrors
    /\ handler[h].pc \in {"restore", "record", "audit"}
    /\ Goto(h, IF At(h, "audit") THEN "audit_failed" ELSE "failed")
    /\ history' = [history EXCEPT
                     !.unrecorded = IF At(h, "record") THEN @ \cup {OrderOf(h)} ELSE @]
    /\ UNCHANGED <<orders, now, platformVars, gatewayVars, tries>>

-----------------------------------------------------------------------------
(***************************************************************************)
(* The platform, the gateway, the clock, and interruptions.                *)
(***************************************************************************)

\* A balance operation takes effect at most once per key.
PlatformApplies(call) ==
    /\ calls' = calls \ {call}
    /\ applied' = applied \cup {KeyOf(call)}
    /\ taken' = IF KeyOf(call) \in applied THEN taken
                ELSE [taken EXCEPT ![call.order] =
                        IF call.kind = "subtract" THEN @ + call.amount
                        ELSE @ - call.amount]
    /\ UNCHANGED <<orders, handler, now, gatewayVars, tries, history>>

GatewayRefunds(refund) ==
    /\ asked' = asked \ {refund}
    /\ returned' = returned \cup {refund}
    /\ UNCHANGED <<orders, handler, now, platformVars, tries, history>>

Tick ==
    /\ now < MaxNow
    /\ now' = now + 1
    /\ UNCHANGED <<orders, handler, platformVars, gatewayVars, tries, history>>

Interrupt(h) ==
    /\ Interruptions
    /\ ~At(h, "idle")
    /\ Finish(h)
    /\ history' = [history EXCEPT
                     !.abandoned = IF handler[h].pc \in LockedPCs
                                   THEN @ \cup {OrderOf(h)} ELSE @]
    /\ UNCHANGED <<orders, now, platformVars, gatewayVars, tries>>

Progress(h) ==
    \/ MarkRefundRequested(h) \/ MarkRefunding(h) \/ MarkRefundingRefused(h)
    \/ SubtractBalance(h) \/ NothingToDeduct(h) \/ DeductionOk(h)
    \/ DeductionError(h) \/ AskGateway(h) \/ GatewayOk(h) \/ GatewayError(h)
    \/ AddBalance(h) \/ RollbackOk(h) \/ RollbackError(h)
    \/ Restore(h) \/ MarkRefunded(h) \/ AuditRefund(h)
    \/ MarkRefundFailed(h) \/ LateRefundFailed(h)

Next ==
    \/ \E h \in Handlers :
         \/ Progress(h)
         \/ DbError(h)
         \/ Interrupt(h)
         \/ \E o \in Orders :
              \/ BeginRefund(h, o)
              \/ \E amount \in RefundAmounts : BeginRequest(h, o, amount)
    \/ \E call \in calls : PlatformApplies(call)
    \/ \E refund \in asked : GatewayRefunds(refund)
    \/ Tick

Spec == Init /\ [][Next]_vars

FairSpec == Spec /\ \A h \in Handlers : WF_vars(Progress(h))

-----------------------------------------------------------------------------
(***************************************************************************)
(* Safety.                                                                 *)
(***************************************************************************)

HoldsLock(h, o) == handler[h].pc \in LockedPCs /\ OrderOf(h) = o

Reversed == {"PARTIALLY_REFUNDED", "REFUNDED"}

\* The conditional UPDATE to REFUNDING is a lock: two administrators never
\* refund one order at the same time, unless a handler that had restored the
\* order and could not write its audit row marked the refund of another failed.
SingleRefunder ==
    \A h1, h2 \in Handlers, o \in Orders \ history.overtaken :
        HoldsLock(h1, o) /\ HoldsLock(h2, o) => h1 = h2

\* A REFUNDING row is in the hands of a running handler unless that handler
\* was cut short: every path out of a refund ends the REFUNDING status.
RefundingHasHolder ==
    \A o \in Orders : orders[o].status = "REFUNDING" =>
        o \in history.abandoned \/ \E h \in Handlers : HoldsLock(h, o)

\* The gateway confirms at most one refund of an order, however many attempts
\* fail before it, unless the database could not record a confirmed one or a
\* late Err arm let a second refund in.
RefundedOnce ==
    \A r1, r2 \in history.confirmed :
        r1.order = r2.order =>
          r1 = r2 \/ r1.order \in history.unrecorded \cup history.overtaken

\* A row shown as refunded is one the gateway refunded, in the amount that is
\* recorded, partially exactly if that is less than the order; and the
\* customer no longer has the balance which that refund was to take back,
\* whatever earlier attempts, late answers, late Err arms and refunds let in by
\* them did (a key used twice in one second apart).
ReversedIsBacked ==
    \A o \in Orders : orders[o].status \in Reversed =>
        \E r \in history.confirmed \cap returned :
            /\ r.order = o
            /\ r.amount = orders[o].refund_amount
            /\ r.gateway \in {r.amount, orders[o].pay_amount}
            /\ r.amount < Amount <=> orders[o].status = "PARTIALLY_REFUNDED"
            /\ o \in history.collided \/ taken[o] >= r.plan

\* Failed refunds never give a customer more balance than they took, even
\* several that work on one order at a time.
NeverMinted ==
    \A o \in Orders : taken[o] >= 0 \/ o \in history.collided

\* A refunded order is final: its row does not change again, not by a late Err
\* arm either, and the gateway is not asked again unless such an arm had let a
\* second refund in before.
ReversedIsFinal ==
    [][\A o \in Orders : orders[o].status \in Reversed =>
         /\ orders'[o] = orders[o]
         /\ \A r \in asked' \ asked : r.order = o => o \in history.overtaken]_vars

\* README.md: a failed refund is compensated by rolling the deduction back, or
\* left to manual handling.  So an order that shows no refund in progress and
\* no failed one has nothing of its balance taken or about to be.
ClearedIsWhole ==
    \A o \in Orders :
        /\ orders[o].status \in {"COMPLETED", "REFUND_REQUESTED"}
        /\ calls = {}
        => taken[o] = 0

\* Nothing stays REFUNDING as long as handlers run to their end.
RefundEnds ==
    \A o \in Orders :
        orders[o].status = "REFUNDING" ~> orders[o].status # "REFUNDING"

-----------------------------------------------------------------------------
(***************************************************************************)
(* The inductive invariant behind the safety properties, in parts.         *)
(***************************************************************************)

\* What is paid for an order never changes; a refund returns the amount that
\* was entered, or the whole order with its fee.
AmountInv ==
    /\ \A o \in Orders : orders[o].pay_amount = PayAmount
    /\ \A h \in Handlers : handler[h].pc \notin {"idle", "request"} =>
         handler[h].gateway \in {handler[h].amount, PayAmount}

\* The status REFUNDING and the handlers inside a refund agree.
LockInv ==
    /\ \A h \in Handlers :
         handler[h].pc \in LockedPCs =>
           RowOf(h).status = "REFUNDING" \/ OrderOf(h) \in history.overtaken
    /\ SingleRefunder
    /\ RefundingHasHolder

\* A confirmed refund is recorded, about to be recorded, abandoned with its
\* row still REFUNDING, or one whose recording failed or was overtaken.
ConfirmedInv ==
    /\ RefundedOnce
    /\ \A h \in Handlers :
         At(h, "record") => RefundOf(h) \in history.confirmed \cap returned
    /\ \A r \in history.confirmed :
         \/ r.order \in history.unrecorded \cup history.overtaken
         \/ orders[r.order].status \in Reversed
         \/ /\ orders[r.order].status = "REFUNDING"
            /\ \A h \in Handlers : HoldsLock(h, r.order) =>
                 At(h, "record") /\ RefundOf(h) = r

\* The handler asked for a deduction, and has not asked to have it undone.
Deducting(h) ==
    /\ handler[h].pc \in {"deduct_answer", "gateway", "gateway_answer",
                          "rollback", "record"}
    /\ handler[h].plan > 0

DeductionKey(h) == Key("subtract", OrderOf(h), handler[h].at)

\* Every operation on its way, or recorded by the platform, has its key among
\* the keys used; and no two share one, unless their order collided.
CallInv ==
    /\ applied \subseteq history.keys
    /\ \A c \in calls :
         /\ KeyOf(c) \in history.keys
         /\ c.order \notin history.collided =>
              /\ KeyOf(c) \notin applied
              /\ \A d \in calls : KeyOf(d) = KeyOf(c) => d = c
    /\ \A h \in Handlers : Deducting(h) =>
         /\ DeductionKey(h) \in history.keys
         /\ OrderOf(h) \notin history.collided =>
              /\ \A c \in calls :
                   KeyOf(c) = DeductionKey(h) => c.amount = handler[h].plan
              /\ \A g \in Handlers :
                   Deducting(g) /\ DeductionKey(g) = DeductionKey(h) => g = h

\* The deduction of this handler took place and was not rolled back.
Deducted(h) ==
    /\ Deducting(h)
    /\ At(h, "deduct_answer") => DeductionKey(h) \in applied

\* What an order's balance has still to pay for: the rollbacks on their way,
\* and the deductions its handlers count on.
Rollbacks(o) == {c \in calls : c.kind = "add" /\ c.order = o}

Deductions(o) ==
    {[at |-> handler[h].at, amount |-> handler[h].plan] :
        h \in {g \in Handlers : Deducted(g) /\ OrderOf(g) = o}}

\* Claims of distinct seconds laid end to end: level[t] is what those made
\* before t add up to, or more.
LaidOut(level, claims) ==
    /\ \A i, j \in 0..(MaxNow + 1) : i <= j => level[i] <= level[j]
    /\ \A c \in claims : level[c.at] + c.amount <= level[c.at + 1]

\* What was taken covers all these claims and amount besides.
Covers(o, amount) ==
    \E f, g \in [0..(MaxNow + 1) -> 0..taken[o]] :
        /\ LaidOut(f, Rollbacks(o)) /\ LaidOut(g, Deductions(o))
        /\ f[MaxNow + 1] + g[MaxNow + 1] + amount <= taken[o]

LedgerInv ==
    /\ \A o \in Orders \ history.collided : Covers(o, 0)
    /\ \A o \in Orders : orders[o].status \in Reversed =>
         \E r \in history.confirmed \cap returned :
            /\ r.order = o
            /\ r.amount = orders[o].refund_amount
            /\ r.gateway \in {r.amount, orders[o].pay_amount}
            /\ r.amount < Amount <=> orders[o].status = "PARTIALLY_REFUNDED"
            /\ o \in history.collided \/ Covers(o, r.plan)

IInv == /\ TypeOK /\ AmountInv /\ LockInv
        /\ ConfirmedInv /\ CallInv /\ LedgerInv

=============================================================================
