---------------------------- MODULE OrderServer ----------------------------
(***************************************************************************)
(* The orders as the pages of frontend/src see them through the HTTP       *)
(* interface: a status that moves on by itself, and the answers of the     *)
(* read, create and cancel endpoints.  How the server gets from one status *)
(* to the next is the business of OrderFulfillment; here any step it may   *)
(* take is taken at any time.  Orders are numbered in creation order.      *)
(***************************************************************************)
EXTENDS Naturals, FiniteSets, LibStatus

CONSTANTS MaxOrders,    \* bound: orders one page may create
          MaxPending    \* MAX_PENDING_ORDERS of the server

ASSUME ServerAssumption == MaxOrders \in Nat \ {0} /\ MaxPending \in Nat \ {0}

VARIABLE order          \* the status of each order, or "absent"

Orders == 1..MaxOrders

\* The pages make no difference between the statuses of a paid order whose
\* recharge is not done: "PAID" stands for RECHARGING and FAILED as well.
PaidStatuses == {"PAID", "COMPLETED"}

Statuses == {"PENDING", "EXPIRED", "CANCELLED"} \cup PaidStatuses

\* The steps of an order short of a refund: payment (also in the grace after
\* expiry), closing, and fulfilment.
Advances ==
    {<<"PENDING", "PAID">>, <<"PENDING", "EXPIRED">>,
     <<"PENDING", "CANCELLED">>, <<"EXPIRED", "PAID">>,
     <<"PAID", "COMPLETED">>}

\* The statuses an order may have once it has had status s.
Since(s) ==
    CASE s = "PENDING"   -> Statuses
      [] s = "EXPIRED"   -> {"EXPIRED"} \cup PaidStatuses
      [] s = "PAID"      -> PaidStatuses
      [] OTHER           -> {s}

OrderMoves(o) ==
    \E s \in Statuses :
        /\ <<order[o], s>> \in Advances
        /\ order' = [order EXCEPT ![o] = s]

PendingNow == Cardinality({o \in Orders : order[o] = "PENDING"})

\* What a page is told of order o: the status s, and, for the properties
\* only, the status the order had when the server said so.
Told(o, s, was) == [id |-> o, status |-> s, was |-> was]

\* GET /api/orders/{id}.
SnapshotOf(o) == Told(o, order[o], order[o])

Derived(snap) ==
    deriveOrderState([status |-> snap.status,
                      paidAt |-> snap.status \in PaidStatuses,
                      completedAt |-> snap.status = "COMPLETED"])

\* What the customer reads of a snapshot: credited, received and on its way,
\* the status, or that something is wrong.
getStatusConfig(snap) ==
    IF Derived(snap).rechargeSuccess THEN "credited"
    ELSE IF Derived(snap).paymentSuccess THEN "received"
    ELSE IF snap.status \in {"PENDING", "EXPIRED", "CANCELLED"} THEN snap.status
    ELSE "abnormal"

\* POST /api/orders: the answer and the order it leaves behind.
Refused == 0

CreateAnswers(ans) ==
    IF PendingNow >= MaxPending \/ order[MaxOrders] # "absent"
    THEN ans = Refused /\ UNCHANGED order
    ELSE /\ ans \in Orders /\ order[ans] = "absent"
         /\ \A p \in 1..(ans - 1) : order[p] # "absent"
         /\ order' = [order EXCEPT ![ans] = "PENDING"]

\* POST /api/orders/{id}/cancel.  An order that is no longer pending when it
\* is read is refused; one that lapses between the read and the update is
\* answered as cancelled, one that is paid in between as paid.
CancelAnswers(o, ans) ==
    \/ /\ order[o] = "PENDING"
       /\ ans = "cancelled"
       /\ order' = [order EXCEPT ![o] = "CANCELLED"]
    \/ /\ order[o] \in {"EXPIRED", "CANCELLED"}
       /\ ans = "cancelled"
       /\ UNCHANGED order
    \/ /\ order[o] \in PaidStatuses
       /\ ans = "paid"
       /\ UNCHANGED order
    \/ /\ order[o] # "PENDING"
       /\ ans = "refused"
       /\ UNCHANGED order

=============================================================================
