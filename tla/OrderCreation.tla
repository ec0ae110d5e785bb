--------------------------- MODULE OrderCreation ---------------------------
(***************************************************************************)
(* create_order of src/http/orders.rs for one user and the orders of one   *)
(* provider instance: select the instance, count the user's pending        *)
(* orders, insert the row, create the payment, attach it, and answer.      *)
(* Each is a transaction or a call of its own, and any may be the last one *)
(* of a request that fails or is cut short.                                *)
(*                                                                         *)
(* A slot is a request and the order it makes.  Amounts are one, so daily  *)
(* limits are numbers of orders.  What happens to the row elsewhere is in  *)
(* OrderFulfillment; here it may be paid, expire or be cancelled at any    *)
(* time.                                                                   *)
(***************************************************************************)
EXTENDS Naturals, FiniteSets

CONSTANTS
    Slots,               \* bound: orders that are not settled
    MaxInFlight,         \* bound: requests between the count and the insert
    MaxSetAside,         \* bound: paid orders that do not count at a time
    MaxPendingOrders,    \* MAX_PENDING_ORDERS
    InstanceDailyLimit   \* dailyLimit of the instance

ASSUME CreationAssumption ==
    /\ IsFiniteSet(Slots)
    /\ {MaxInFlight, MaxPendingOrders, InstanceDailyLimit} \subseteq Nat \ {0}
    /\ MaxSetAside \in Nat

VARIABLES
    creation,   \* slot -> the request, its row and its payment
    usedToday,  \* orders of the instance that were paid today and count
    setAside    \* those that do not: FAILED, or on the way to a refund

creationVars == <<creation, usedToday, setAside>>

\* pc: what the request does next; "handed" once the customer has the way to
\* pay, "failed" without.  attached: payment_trade_no is set.
NoCreation ==
    [pc |-> "idle", row |-> "absent", attached |-> FALSE, intent |-> "none"]

CreationInit ==
    creation = [s \in Slots |-> NoCreation] /\ usedToday = 0 /\ setAside = 0

At(pc) == {s \in Slots : creation[s].pc = pc}
PendingRows == {s \in Slots : creation[s].row = "PENDING"}

\* The request of slot s, which is at from, goes on with the record after.
Step(s, from, after) ==
    creation[s].pc = from /\ creation' = [creation EXCEPT ![s] = after]

-----------------------------------------------------------------------------
(* The request.                                                            *)

\* A limit counts the orders that are PAID, RECHARGING or COMPLETED, whatever
\* is on its way.
instance_accepts_amount == usedToday + 1 <= InstanceDailyLimit

resolve_payment_selection(s) ==
    /\ instance_accepts_amount
    /\ Step(s, "idle", [creation[s] EXCEPT !.pc = "count"])
    /\ UNCHANGED <<usedToday, setAside>>

\* Mutant: one order more than the limit.
Mutantcount_pending_by_user(s) ==
    /\ Cardinality(At("insert")) < MaxInFlight
    /\ Cardinality(PendingRows) <= MaxPendingOrders
    /\ Step(s, "count", [creation[s] EXCEPT !.pc = "insert"])
    /\ UNCHANGED <<usedToday, setAside>>

count_pending_by_user(s) ==
    /\ Cardinality(At("insert")) < MaxInFlight
    /\ Cardinality(PendingRows) < MaxPendingOrders
    /\ Step(s, "count", [creation[s] EXCEPT !.pc = "insert"])
    /\ UNCHANGED <<usedToday, setAside>>

insert_pending(s) ==
    /\ Step(s, "insert", [creation[s] EXCEPT !.pc = "create", !.row = "PENDING"])
    /\ UNCHANGED <<usedToday, setAside>>

create_payment_for_order(s) ==
    /\ Step(s, "create", [creation[s] EXCEPT !.pc = "attach", !.intent = "made"])
    /\ UNCHANGED <<usedToday, setAside>>

\* Mutant: a row whose payment details were not stored is handed out.
Mutantattach_payment_creation(s) ==
    /\ \E ok \in BOOLEAN :
          Step(s, "attach", [creation[s] EXCEPT !.pc = "handed", !.attached = ok])
    /\ UNCHANGED <<usedToday, setAside>>

\* An UPDATE by the key alone, whatever the status is by now.
attach_payment_creation(s) ==
    /\ Step(s, "attach", [creation[s] EXCEPT !.pc = "handed", !.attached = TRUE])
    /\ UNCHANGED <<usedToday, setAside>>

\* No payment, perhaps because the provider's answer was lost: the row is
\* deleted, whatever its status is by now.  The result is ignored.
delete_order(s) ==
    /\ \E known \in {"none", "made"}, row \in {"absent", creation[s].row} :
          Step(s, "create",
               [creation[s] EXCEPT !.pc = "failed", !.row = row, !.intent = known])
    /\ UNCHANGED <<usedToday, setAside>>

\* A refusal, a failed statement (the audit entry after one that succeeded
\* included), or a request that is cut short.
RequestEnds(s) ==
    /\ creation[s].pc \in {"count", "insert", "create", "attach"}
    /\ \E row \in {creation[s].row} \cup
                  (IF creation[s].pc = "insert" THEN {"PENDING"} ELSE {}),
          attached \in {FALSE, creation[s].pc = "attach"} :
          creation' = [creation EXCEPT ![s].pc = "failed", ![s].row = row,
                                       ![s].attached = attached]
    /\ UNCHANGED <<usedToday, setAside>>

-----------------------------------------------------------------------------
(* The row and the payment elsewhere.                                      *)

CustomerPaysIntent(s) ==
    /\ creation[s].intent = "made"
    /\ Step(s, "handed", [creation[s] EXCEPT !.intent = "paid"])
    /\ UNCHANGED <<usedToday, setAside>>

\* confirm_payment: a PENDING row, or one that has not been EXPIRED for long.
PaymentConfirmed(s) ==
    /\ creation[s].intent = "paid" /\ creation[s].row \in {"PENDING", "EXPIRED"}
    /\ creation' = [creation EXCEPT ![s].row = "PAID"]
    /\ usedToday' = usedToday + 1
    /\ UNCHANGED setAside

\* A paid order is FAILED, or a refund of it is asked for or begun.
PaidOrderFails ==
    /\ usedToday > 0 /\ setAside < MaxSetAside
    /\ usedToday' = usedToday - 1 /\ setAside' = setAside + 1
    /\ UNCHANGED creation

\* It is RECHARGING again, or COMPLETED since its refund was rolled back; or
\* it is REFUNDED and never counts again.
PaidOrderReturns ==
    /\ setAside > 0
    /\ usedToday' \in {usedToday, usedToday + 1} /\ setAside' = setAside - 1
    /\ UNCHANGED creation

RowCloses(s) ==
    /\ creation[s].row = "PENDING"
    /\ \E closed \in {"CANCELLED", "EXPIRED"} :
          creation' = [creation EXCEPT ![s].row = closed]
    /\ UNCHANGED <<usedToday, setAside>>

\* The row can no longer become PAID, or is.  A row that EXPIRED long ago is
\* one; nobody can pay for a row that was not handed out.
Forgotten(s) ==
    /\ creation[s].pc \in {"handed", "failed"}
    /\ creation[s].row # "PENDING"
    /\ creation' = [creation EXCEPT ![s] = NoCreation]
    /\ UNCHANGED <<usedToday, setAside>>

BizDayEnds ==
    /\ usedToday + setAside > 0
    /\ usedToday' = 0 /\ setAside' = 0
    /\ UNCHANGED creation

CreationNext ==
    \/ \E s \in Slots :
          \/ resolve_payment_selection(s) \/ count_pending_by_user(s)
          \/ insert_pending(s) \/ create_payment_for_order(s)
          \/ attach_payment_creation(s) \/ delete_order(s) \/ RequestEnds(s)
          \/ CustomerPaysIntent(s) \/ PaymentConfirmed(s) \/ RowCloses(s)
          \/ Forgotten(s)
    \/ PaidOrderFails \/ PaidOrderReturns \/ BizDayEnds

-----------------------------------------------------------------------------

\* However requests interleave, fail and are cut short, a user has no more
\* pending orders than the limit and the requests that had counted when it was
\* reached; and the orders of a day that an instance is left with exceed its
\* limit by no more than the orders that were on their way and those that did
\* not count when the limit was checked, which may all count in the end
\* (service.rs:186-216, payment.rs:186-201, 384-389, 684-697).
OpenStaysBounded ==
    /\ Cardinality(PendingRows) <= MaxPendingOrders - 1 + MaxInFlight
    /\ usedToday + setAside
         <= InstanceDailyLimit - 1 + Cardinality(Slots) + MaxSetAside

\* Nobody is asked to pay for an order the server does not know: while the
\* customer has the way to pay, the row is there with its trade number, and a
\* payment never meets a deleted row (orders.rs:346-395, service.rs:373-409).
PayableIsKnown ==
    \A s \in Slots :
        /\ creation[s].pc = "handed" => creation[s].row # "absent" /\ creation[s].attached
        /\ creation[s].intent = "paid" => creation[s].row # "absent"

=============================================================================
