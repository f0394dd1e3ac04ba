--------------------------- MODULE MCIdempotency ---------------------------
(* Requests for one key with two payloads.                                 *)
EXTENDS Idempotency, TLC

CONSTANTS r1, r2, r3

Two == {r1, r2}
Three == {r1, r2, r3}

TwoSymmetry == Permutations(Two)
ThreeSymmetry == Permutations(Three)

=============================================================================
