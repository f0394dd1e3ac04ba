--------------------------- MODULE MCPaymentOrder ---------------------------
(* Model values and symmetry for the runs of PaymentOrder.                 *)
EXTENDS PaymentOrder, TLC

CONSTANTS w1, w2

MCWorkers == {w1, w2}
Symmetry == Permutations(MCWorkers)
=============================================================================
