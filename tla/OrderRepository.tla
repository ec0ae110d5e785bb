-------------------------- MODULE OrderRepository --------------------------
(***************************************************************************)
(* The conditional UPDATEs of src/order/repository.rs, each as a pair:     *)
(* the WHERE clause as a predicate on the current row, and the SET clause  *)
(* as the row it writes.  Every UPDATE is a transaction of its own         *)
(* (BEGIN CONCURRENT ... COMMIT), so a model that uses one evaluates the   *)
(* WHERE and applies the SET in a single step; the number of affected rows *)
(* that the method reports is whether the WHERE held.                      *)
(*                                                                         *)
(* A row carries the columns some guard or some property reads: status,    *)
(* pay_amount, paid_at, completed_at, refund_amount, updated_at and        *)
(* expires_at.  Wherever the SQL calls unixepoch() the operator takes the  *)
(* current time; a timestamp the caller captured earlier is passed apart.  *)
(***************************************************************************)
EXTENDS OrderStatus

Row(Time, Amount) ==
    [status        : Statuses,
     pay_amount    : Amount,
     paid_at       : Time \cup {NULL},
     completed_at  : Time \cup {NULL},
     refund_amount : Amount \cup {NULL},
     updated_at    : Time,
     expires_at    : Nat]

\* insert_pending: a fresh row.
PendingRow(payAmount, expiresAt, now) ==
    [status |-> "PENDING", pay_amount |-> payAmount, paid_at |-> NULL,
     completed_at |-> NULL, refund_amount |-> NULL, updated_at |-> now,
     expires_at |-> expiresAt]

WithStatus(row, status, now) ==
    [row EXCEPT !.status = status, !.updated_at = now]

\* mark_status_if_pending, for CANCELLED and for EXPIRED.
IsPending(row) == row.status = "PENDING"

\* Mutant: the list of overdue rows forgets to ask for PENDING.
MutantListsAnyStatus(row, now) == row.expires_at < now

\* list_expired_pending: strictly past its deadline.
IsExpiredPending(row, now) == IsPending(row) /\ row.expires_at < now

\* Mutant: a late payment also revives a cancelled order.
MutantRevivesCancelled(row, cutoff) ==
    \/ row.status \in {"PENDING", "CANCELLED"}
    \/ row.status = "EXPIRED" /\ row.updated_at >= cutoff

\* mark_paid_if_pending_or_recent_expired: the caller computes the cutoff.
IsPayable(row, cutoff) ==
    \/ row.status = "PENDING"
    \/ row.status = "EXPIRED" /\ row.updated_at >= cutoff

PaidRow(row, paidAmount, paidAt, now) ==
    [row EXCEPT !.status = "PAID", !.pay_amount = paidAmount,
                !.paid_at = paidAt, !.updated_at = now]

\* Mutants: a RECHARGING row may be locked again; a FAILED one may not.
MutantLocksTwice(row) == row.status \in {"PAID", "FAILED", "RECHARGING"}
MutantForgetsFailed(row) == row.status = "PAID"

\* mark_recharging_if_paid_or_failed: the lock taken before a fulfilment.
IsLockable(row) == row.status \in {"PAID", "FAILED"}

RechargingRow(row, now) == WithStatus(row, "RECHARGING", now)

\* reset_to_paid_if_retryable.
IsResettable(row) == row.status \in {"FAILED", "PAID"} /\ row.paid_at # NULL

ResetRow(row, now) == WithStatus(row, "PAID", now)

\* mark_completed_after_fulfillment.
IsCompletable(row) == row.status \in {"RECHARGING", "PAID", "FAILED"}

CompletedRow(row, completedAt, now) ==
    [row EXCEPT !.status = "COMPLETED", !.completed_at = completedAt,
                !.updated_at = now]

\* mark_failed_if_recharging.
IsFailable(row) == row.status = "RECHARGING"

\* Mutant: a status word that no reader knows.
MutantUnknownStatus(row, now) == WithStatus(row, "RECHARGE_FAILED", now)

FailedRow(row, now) == WithStatus(row, "FAILED", now)

\* mark_refund_requested: a balance order of the user who asks.
IsRefundRequestable(row, isBalance) == row.status = "COMPLETED" /\ isBalance

RefundRequestedRow(row, amount, now) ==
    [row EXCEPT !.status = "REFUND_REQUESTED", !.refund_amount = amount,
                !.updated_at = now]

\* Mutants: a REFUNDING row may be locked again; the rest of a partially
\* refunded order may be refunded.
MutantRefundsTwice(row) ==
    row.status \in {"COMPLETED", "REFUND_REQUESTED", "REFUND_FAILED", "REFUNDING"}

MutantRefundsTheRest(row) ==
    row.status \in
        {"COMPLETED", "REFUND_REQUESTED", "REFUND_FAILED", "PARTIALLY_REFUNDED"}

\* mark_refunding_if_refundable: the lock taken before a refund.
IsRefundable(row) ==
    row.status \in {"COMPLETED", "REFUND_REQUESTED", "REFUND_FAILED"}

RefundingRow(row, now) == WithStatus(row, "REFUNDING", now)

\* restore_after_refund_gateway_failure, mark_refund_failed and
\* mark_refunded all ask for the lock.
IsRefunding(row) == row.status = "REFUNDING"

RestoredRow(row, restoreStatus, now) == WithStatus(row, restoreStatus, now)

\* Mutant: a status word that no reader knows.
MutantUnknownFailure(row, now) == WithStatus(row, "REFUND_ERROR", now)

RefundFailedRow(row, now) == WithStatus(row, "REFUND_FAILED", now)

RefundedRow(row, finalStatus, amount, now) ==
    [row EXCEPT !.status = finalStatus, !.refund_amount = amount,
                !.updated_at = now]

=============================================================================
