-------------------------- MODULE MCPaymentRefund --------------------------
(* Two administrators or users at one order of two units.                 *)
EXTENDS PaymentRefund, TLC

CONSTANTS w1, w2

MCWorkers == {w1, w2}

Symmetry == Permutations(MCWorkers)

=============================================================================
