------------------------------ MODULE LibStatus ------------------------------
(***************************************************************************)
(* The order states as the TypeScript of frontend/src/lib sees them: the   *)
(* status words and sets of constants.ts, and the functions of             *)
(* order/status.ts that derive from a row what the pages show.             *)
(*                                                                         *)
(* A row is a record with at least the fields status, paidAt and           *)
(* completedAt; the two dates are kept as whether they are set, which is   *)
(* all that hasDate reads.  A display state is kept as one word per        *)
(* label: the texts, colours and icons that go with it are constants.      *)
(***************************************************************************)

REFUND_STATUSES ==
    {"REFUND_REQUESTED", "REFUNDING", "PARTIALLY_REFUNDED", "REFUNDED",
     "REFUND_FAILED"}

ORDER_STATUS ==
    {"PENDING", "PAID", "RECHARGING", "COMPLETED", "EXPIRED", "CANCELLED",
     "FAILED"} \cup REFUND_STATUSES

\* The statuses at which a page stops polling.
TERMINAL_STATUSES ==
    {"COMPLETED", "FAILED", "CANCELLED", "EXPIRED", "PARTIALLY_REFUNDED",
     "REFUNDED", "REFUND_FAILED"}

CLOSED_STATUSES == {"EXPIRED", "CANCELLED"} \cup REFUND_STATUSES

RechargeStatuses ==
    {"not_paid", "paid_pending", "recharging", "success", "failed", "closed"}

\* Mutant: an order is recharged only once its status says so.
MutantOrderState(row) ==
    LET recharged == row.status = "COMPLETED"
    IN [paymentSuccess  |-> row.paidAt,
        rechargeSuccess |-> recharged,
        rechargeStatus  |->
          CASE recharged -> "success"
            [] ~recharged /\ row.status = "RECHARGING" -> "recharging"
            [] ~recharged /\ row.status = "FAILED" -> "failed"
            [] ~recharged /\ row.status \in CLOSED_STATUSES -> "closed"
            [] OTHER -> IF row.paidAt THEN "paid_pending" ELSE "not_paid"]

deriveOrderState(row) ==
    LET recharged == row.completedAt \/ row.status = "COMPLETED"
    IN [paymentSuccess  |-> row.paidAt,
        rechargeSuccess |-> recharged,
        rechargeStatus  |->
          CASE recharged -> "success"
            [] ~recharged /\ row.status = "RECHARGING" -> "recharging"
            [] ~recharged /\ row.status = "FAILED" -> "failed"
            [] ~recharged /\ row.status \in CLOSED_STATUSES -> "closed"
            [] OTHER -> IF row.paidAt THEN "paid_pending" ELSE "not_paid"]

\* A snapshot is a status together with the state derived from it.
Snapshot(row) == [status |-> row.status, derived |-> deriveOrderState(row)]

\* Which label getOrderDisplayState shows for a snapshot.
getOrderDisplayState(s) ==
    LET d == s.derived
        \* the branches after the refund statuses, in their order
        afterRefunds ==
            IF d.rechargeSuccess \/ d.rechargeStatus = "success"
            THEN "recharged"
            ELSE IF d.paymentSuccess
                      /\ d.rechargeStatus \in {"paid_pending", "recharging"}
            THEN "recharging"
            ELSE IF d.paymentSuccess /\ d.rechargeStatus = "failed"
            THEN "paid_not_recharged"
            ELSE IF s.status = "FAILED" THEN "payment_failed"
            ELSE IF s.status \in {"PENDING", "EXPIRED", "CANCELLED"}
            THEN s.status
            ELSE "abnormal"
    IN IF s.status \in REFUND_STATUSES THEN s.status ELSE afterRefunds

=============================================================================
