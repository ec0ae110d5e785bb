--------------------------- MODULE OrderLifecycle ---------------------------
(***************************************************************************)
(* What the order service promises about one purchase, with no handler, no *)
(* clock and no database in sight.  An order is open until it lapses, is   *)
(* cancelled or is settled; a settled order is owed to the customer until  *)
(* it is delivered; a delivered order may be reversed by a refund.  The    *)
(* customer's account is credited at most once, only while the order is    *)
(* owed, and only an order the customer really funded becomes owed.        *)
(***************************************************************************)
EXTENDS Integers

CONSTANT Orders

VARIABLES phase,      \* where each order stands
          funded,     \* the orders whose payment was collected
          credits     \* how often each order was credited to the account

lvars == <<phase, funded, credits>>

Phases == {"open", "lapsed", "cancelled", "owed", "delivered", "reversing",
           "reversed"}

LInit ==
    /\ phase = [o \in Orders |-> "open"]
    /\ funded = {}
    /\ credits = [o \in Orders |-> 0]

Move(o, from, to) ==
    /\ phase[o] \in from
    /\ phase' = [phase EXCEPT ![o] = to]
    /\ UNCHANGED <<funded, credits>>

Fund(o) ==
    /\ funded' = funded \cup {o}
    /\ UNCHANGED <<phase, credits>>

Lapse(o)  == Move(o, {"open"}, "lapsed")
Cancel(o) == Move(o, {"open"}, "cancelled")
Settle(o) == o \in funded /\ Move(o, {"open", "lapsed"}, "owed")

Credit(o) ==
    /\ phase[o] = "owed"
    /\ credits[o] = 0
    /\ credits' = [credits EXCEPT ![o] = 1]
    /\ UNCHANGED <<phase, funded>>

Deliver(o) == credits[o] = 1 /\ Move(o, {"owed"}, "delivered")
Reverse(o) == Move(o, {"delivered"}, "reversing")
Restore(o) == Move(o, {"reversing"}, "delivered")
Finish(o)  == Move(o, {"reversing"}, "reversed")

LNext ==
    \E o \in Orders :
        \/ Fund(o) \/ Lapse(o) \/ Cancel(o) \/ Settle(o) \/ Credit(o)
        \/ Deliver(o) \/ Reverse(o) \/ Restore(o) \/ Finish(o)

LSpec == LInit /\ [][LNext]_lvars

=============================================================================
