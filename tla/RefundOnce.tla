----------------------------- MODULE RefundOnce -----------------------------
(***************************************************************************)
(* What a refund promises, without requests, claims or answers: the gateway*)
(* returns money, then something may be taken back from the user, once and *)
(* never more than was returned, and then the order shows, for good, an    *)
(* amount that was returned and that covers what was taken.  PaymentRefund *)
(* implements this.                                                        *)
(***************************************************************************)
EXTENDS Naturals

CONSTANT Amount

VARIABLES
  returned,  \* the amounts the gateway is known to have returned
  times,     \* how often something was taken back
  taken,     \* how much was taken from the balance
  shown      \* the refund the order shows; 0 while it shows none

vars == <<returned, times, taken, shown>>

\* An order without a payment at the gateway has nothing to wait for.
Init ==
  /\ returned \in {{}, 0..Amount}
  /\ times = 0
  /\ taken = 0
  /\ shown = 0

GatewayReturns ==
  /\ \E amount \in 0..Amount : returned' = returned \cup {amount}
  /\ UNCHANGED <<times, taken, shown>>

TakeBack ==
  /\ times = 0 /\ shown = 0
  /\ times' = 1
  /\ \E amount \in returned : taken' \in 0..amount
  /\ UNCHANGED <<returned, shown>>

Show ==
  /\ shown = 0
  /\ shown' \in returned
  /\ taken <= shown'
  /\ UNCHANGED <<returned, times, taken>>

Next == GatewayReturns \/ TakeBack \/ Show

Spec == Init /\ [][Next]_vars

=============================================================================
