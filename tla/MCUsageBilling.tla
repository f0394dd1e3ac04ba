--------------------------- MODULE MCUsageBilling ---------------------------
(* Usages u1 and u2 of an event by one account, of which u2 is shared and   *)
(* takes points, too, and u3 by another account.                           *)
EXTENDS UsageBilling

CONSTANTS e1, e2, u1, u2, u3, a1, a2

OnlyEvent == [u \in Usages |-> e1]
Accounts == [u \in Usages |-> IF u = u3 THEN a2 ELSE a1]
Costs12 == [u \in Usages |-> IF u = u2 THEN 2 ELSE 1]

Symmetry == Permutations(Calls)

=============================================================================
