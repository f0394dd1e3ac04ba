------------------------ MODULE PaymentEntitlement ------------------------
(***************************************************************************)
(* What an order promises, without leases, workers or statuses: a payment  *)
(* is recorded, it is turned into one credit or one subscription, and only *)
(* then may the order be reported as completed.  PaymentOrder implements   *)
(* this under a mapping of its row.                                        *)
(***************************************************************************)
EXTENDS Naturals

VARIABLES
  recorded,  \* the order carries a payment
  granted,   \* how often its entitlement was granted
  done       \* the order is reported as completed

vars == <<recorded, granted, done>>

Init == recorded = FALSE /\ granted = 0 /\ done = FALSE

Record == ~recorded /\ recorded' = TRUE /\ UNCHANGED <<granted, done>>

Grant == recorded /\ granted = 0 /\ granted' = 1 /\ UNCHANGED <<recorded, done>>

Report == granted = 1 /\ ~done /\ done' = TRUE /\ UNCHANGED <<recorded, granted>>

\* CreateOrder overwrites the status when its provider call fails late; the
\* report is lost, the grant and the payment are not.
LoseReport == done /\ done' = FALSE /\ UNCHANGED <<recorded, granted>>

Next == Record \/ Grant \/ Report \/ LoseReport

Spec == Init /\ [][Next]_vars
=============================================================================
