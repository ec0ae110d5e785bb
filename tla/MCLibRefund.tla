----------------------------- MODULE MCLibRefund -----------------------------
\* Instances of the TypeScript refunds for model checking.
EXTENDS LibRefund, TLC

\* Requests, and administrators, only differ in name.
Symmetry == Permutations(Handlers) \cup Permutations(Admins)

=============================================================================
