---------------------------- MODULE OrderStatus ----------------------------
(***************************************************************************)
(* The status words of an order row and the functions of                   *)
(* src/order/status.rs that read them: which statuses belong to a refund,  *)
(* which orders an administrator may retry, and the payment and recharge   *)
(* state that the HTTP layer derives from a row and shows to users.        *)
(*                                                                         *)
(* A row is a record with at least the columns status, paid_at and         *)
(* completed_at.  NULL is SQL's NULL.                                      *)
(***************************************************************************)
EXTENDS Integers

CONSTANT NULL

ASSUME NullIsNotATime == NULL \notin Int

RefundStatuses ==
    {"REFUND_REQUESTED", "REFUNDING", "PARTIALLY_REFUNDED", "REFUNDED",
     "REFUND_FAILED"}

Statuses ==
    {"PENDING", "PAID", "RECHARGING", "COMPLETED", "EXPIRED", "CANCELLED",
     "FAILED"} \cup RefundStatuses

IsRefundStatus(status) == status \in RefundStatuses

IsRechargeRetryable(row) ==
    /\ row.paid_at # NULL
    /\ row.status = "FAILED"
    /\ ~IsRefundStatus(row.status)

PaymentSuccess(row) == row.paid_at # NULL

\* Mutant: a payment that has not failed is shown as recharged.
MutantPaidIsRecharged(row) == row.paid_at # NULL /\ row.status # "FAILED"

RechargeSuccess(row) == row.completed_at # NULL \/ row.status = "COMPLETED"

RechargeStatus(row) ==
    CASE RechargeSuccess(row)         -> "Success"
      [] ~RechargeSuccess(row) /\ row.status = "RECHARGING" -> "Recharging"
      [] ~RechargeSuccess(row) /\ row.status = "FAILED"     -> "Failed"
      [] ~RechargeSuccess(row)
           /\ row.status \in {"EXPIRED", "CANCELLED"} \cup RefundStatuses
                                      -> "Closed"
      [] OTHER -> IF PaymentSuccess(row) THEN "PaidPending" ELSE "NotPaid"

DeriveOrderState(row) ==
    [payment_success  |-> PaymentSuccess(row),
     recharge_success |-> RechargeSuccess(row),
     recharge_status  |-> RechargeStatus(row)]

=============================================================================
