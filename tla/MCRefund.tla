------------------------------ MODULE MCRefund ------------------------------
(***************************************************************************)
(* Refund on small instances.                                              *)
(***************************************************************************)
EXTENDS Refund, TLC

MCSymmetry == Permutations(Handlers)

=============================================================================
