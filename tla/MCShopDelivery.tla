--------------------------- MODULE MCShopDelivery ---------------------------
(* Two orders, of two cards and of one card, compete for two cards.        *)
EXTENDS ShopDelivery, TLC

CONSTANTS o1, o2, c1, c2, w1, w2

MCOrders == {o1, o2}
MCCards == {c1, c2}
MCWorkers == {w1, w2}
MCQuantity == [o \in MCOrders |-> IF o = o1 THEN 2 ELSE 1]

Symmetry == Permutations(MCCards) \cup Permutations(MCWorkers)

=============================================================================
