------------------------- MODULE MCOrderFulfillment -------------------------
(***************************************************************************)
(* OrderFulfillment on small instances.                                    *)
(***************************************************************************)
EXTENDS OrderFulfillment, TLC

MCSymmetry == Permutations(Handlers)

=============================================================================
