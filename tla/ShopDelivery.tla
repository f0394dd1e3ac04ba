---------------------------- MODULE ShopDelivery ----------------------------
(***************************************************************************)
(* The shop of card keys and rewards (service/shop.go): orders paid through*)
(* a payment provider reserve their cards, are delivered when the payment  *)
(* is confirmed, and give the cards up after a cancellation; orders paid   *)
(* from the balance or with points are delivered at once.  An action is one*)
(* database transaction or one call of the provider: every transaction that*)
(* decides on an order locks the order's row, and the cards it takes are   *)
(* locked with SKIP LOCKED, so that other transactions pass them by.  The  *)
(* payment order is reduced to what the shop reads and writes of it; its   *)
(* own life is in PaymentOrder.                                            *)
(***************************************************************************)
EXTENDS Integers, FiniteSets

CONSTANTS
  Orders,    \* shop orders, each with its payment order
  Cards,     \* card keys of the one product that is sold
  Workers,   \* requests that create or deliver orders
  NoOrder,   \* order_id IS NULL
  Quantity,  \* how many cards each order buys
  Kinds,     \* which products are sold: "card", "reward" (draws, load factor credits)
  Assigned   \* bound: the statuses admins give to cards

ASSUME ShopAssumption ==
  /\ NoOrder \notin Orders
  /\ Quantity \in [Orders -> Nat \ {0}]
  /\ Kinds \subseteq {"card", "reward"}
  /\ Assigned \subseteq {"available", "locked", "disabled"}
  /\ IsFiniteSet(Cards)

VARIABLES
  shop,       \* shop_orders.status; "none" is no row
  kind,       \* what the order buys
  delivered,  \* delivered_cards
  rewards,    \* how often the reward of the order was credited
  pay,        \* status of the linked payment order; "none" for balance and points
  paidAt,     \* payment_orders.paid_at is set
  card,       \* shop_card_keys: status and order_id; "absent" is no row
  phase,      \* now against expires_at = locked_until, and the grace after it
  upstream,   \* the payment at the provider; "none" when it cannot be paid (any more)
  task        \* what each request does next, and what it read

shopVars == <<shop, kind, delivered, rewards>>
payVars == <<pay, paidAt>>
worldVars == <<phase, upstream>>
vars == <<shopVars, payVars, card, worldVars, task>>

ShopStatus == {"none", "PENDING", "COMPLETED", "CANCELLED", "FAILED"}
PayStatus == {"none", "PENDING", "PAID", "COMPLETED", "FAILED", "CANCELLED", "EXPIRED",
              "REFUNDED"}
CardStatus == {"absent", "available", "locked", "sold", "disabled"}

Idle == [pc |-> "idle"]
Tasks ==
  {Idle}
    \cup [pc : {"invoke", "read"}, order : Orders]
    \cup [pc : {"fail"}, order : Orders, release : BOOLEAN]
    \cup [pc : {"confirm"}, order : Orders, read : {"PAID", "FAILED", "COMPLETED"}]

TypeOK ==
  /\ shop \in [Orders -> ShopStatus]
  /\ kind \in [Orders -> {"card", "reward"}]
  /\ delivered \in [Orders -> SUBSET Cards]
  /\ rewards \in [Orders -> Nat]
  /\ pay \in [Orders -> PayStatus]
  /\ paidAt \in [Orders -> BOOLEAN]
  /\ card \in [Cards -> [status : CardStatus, order : Orders \cup {NoOrder}]]
  /\ \A c \in Cards : card[c].status = "sold" => card[c].order # NoOrder
  /\ phase \in [Orders -> {"open", "grace", "late"}]
  /\ upstream \in [Orders -> {"none", "unpaid", "paid"}]
  /\ task \in [Workers -> Tasks]

Init ==
  /\ shop = [o \in Orders |-> "none"]
  /\ kind = [o \in Orders |-> "card"]
  /\ delivered = [o \in Orders |-> {}]
  /\ rewards = [o \in Orders |-> 0]
  /\ pay = [o \in Orders |-> "none"]
  /\ paidAt = [o \in Orders |-> FALSE]
  /\ card = [c \in Cards |-> [status |-> "available", order |-> NoOrder]]
  /\ phase = [o \in Orders |-> "open"]
  /\ upstream = [o \in Orders |-> "none"]
  /\ task = [w \in Workers |-> Idle]

-----------------------------------------------------------------------------
(* The statements on shop_card_keys.                                       *)

Available == {c \in Cards : card[c].status = "available" /\ card[c].order = NoOrder}
Held(o) == {c \in Cards : card[c].status = "locked" /\ card[c].order = o}
SoldTo(o) == {c \in Cards : card[c].status = "sold" /\ card[c].order = o}

Put(S, status, o) ==
  [c \in Cards |-> IF c \in S THEN [status |-> status, order |-> o] ELSE card[c]]

\* Mutant: fewer cards than ordered are enough.
ReservableSome(o) == {S \in SUBSET Available : Cardinality(S) <= Quantity[o]}

\* Which cards SKIP LOCKED finds depends on the other transactions; fewer than
\* the quantity are refused.
Reservable(o) == {S \in SUBSET Available : Cardinality(S) = Quantity[o]}

\* Mutant: the reserved cards are not looked for.
DeliverableAnew(o) == Reservable(o)

\* deliverOrderInTx: the reserved cards if there are any, available ones if not.
Deliverable(o) ==
  IF Held(o) = {} THEN Reservable(o)
  ELSE {S \in SUBSET Held(o) : Cardinality(S) = Quantity[o]}

\* markCardsSoldInTx.
Sell(S, o) == Put(S, "sold", o)

\* releaseReservedCardsInTx.
Released(o) == Put(Held(o), "available", NoOrder)

-----------------------------------------------------------------------------
(* A request creates an order.                                             *)

\* createPlatformPaymentOrder up to the commit: stock, both orders, reservation.
CreatePlatformOrder(w, o, k) ==
  /\ task[w] = Idle
  /\ shop[o] = "none"
  /\ \/ k = "reward" /\ UNCHANGED card
     \/ k = "card" /\ \E S \in Reservable(o) : card' = Put(S, "locked", o)
  /\ kind' = [kind EXCEPT ![o] = k]
  /\ shop' = [shop EXCEPT ![o] = "PENDING"]
  /\ pay' = [pay EXCEPT ![o] = "PENDING"]
  /\ task' = [task EXCEPT ![w] = [pc |-> "invoke", order |-> o]]
  /\ UNCHANGED <<delivered, rewards, paidAt, worldVars>>

\* createBalanceOrder, createPointsOrder: paid and delivered in one transaction.
CreatePaidOrder(o, k) ==
  /\ shop[o] = "none"
  /\ kind' = [kind EXCEPT ![o] = k]
  /\ \/ /\ k = "reward"
        /\ rewards' = [rewards EXCEPT ![o] = @ + 1]
        /\ UNCHANGED <<card, delivered>>
     \/ /\ k = "card"
        /\ \E S \in Deliverable(o) :
             /\ card' = Sell(S, o)
             /\ delivered' = [delivered EXCEPT ![o] = S]
        /\ UNCHANGED rewards
  /\ shop' = [shop EXCEPT ![o] = "COMPLETED"]
  /\ UNCHANGED <<payVars, worldVars, task>>

\* invokeProvider: the payment exists now; or the call was not made; or it failed
\* when the provider may have created the payment.
InvokeProvider(w) ==
  /\ task[w].pc = "invoke"
  /\ LET o == task[w].order IN
     \/ /\ upstream' = [upstream EXCEPT ![o] = "unpaid"]
        /\ task' = [task EXCEPT ![w] = Idle]
     \/ /\ task' = [task EXCEPT ![w] = [pc |-> "fail", order |-> o, release |-> TRUE]]
        /\ UNCHANGED upstream
     \/ /\ task' = [task EXCEPT ![w] = [pc |-> "fail", order |-> o, release |-> FALSE]]
        /\ upstream' \in {upstream, [upstream EXCEPT ![o] = "unpaid"]}
  /\ UNCHANGED <<shopVars, payVars, card, phase>>

\* Mutant: the payment order is failed whatever its status is.
FailPendingPaymentAny(o) == pay' = [pay EXCEPT ![o] = "FAILED"]

FailPendingPayment(o) == pay' = [pay EXCEPT ![o] = IF @ = "PENDING" THEN "FAILED" ELSE @]

\* failPendingPlatformPayment: the payment order if it is still pending, and the
\* shop order unless it is delivered.  A CANCELLED shop order rolls back.
FailPendingPlatformPayment(w) ==
  /\ task[w].pc = "fail"
  /\ LET o == task[w].order IN
     \/ /\ shop[o] \in {"PENDING", "FAILED"}
        /\ FailPendingPayment(o)
        /\ shop' = [shop EXCEPT ![o] = "FAILED"]
        /\ card' = IF task[w].release THEN Released(o) ELSE card
     \/ /\ shop[o] = "COMPLETED"
        /\ FailPendingPayment(o)
        /\ UNCHANGED <<shop, card>>
     \/ /\ shop[o] = "CANCELLED"
        /\ UNCHANGED <<shop, pay, card>>
  /\ task' = [task EXCEPT ![w] = Idle]
  /\ UNCHANGED <<kind, delivered, rewards, paidAt, worldVars>>

-----------------------------------------------------------------------------
(* The payment is cancelled or expires, and its reservation is given up.   *)

\* Mutant: the shop order is left alone.
CancelPendingPaymentSkipped(o, status) == UNCHANGED shop

\* cancelPendingPaymentInTx with releaseNow = false.
CancelPendingPayment(o, status) ==
  /\ shop[o] \in {"PENDING", "FAILED", "COMPLETED"}
  /\ shop' = [shop EXCEPT ![o] = IF @ = "COMPLETED" THEN @ ELSE status]

\* cancelCore after its query of the provider said "not paid", which may no
\* longer be so, and which closes a payment that is still unpaid.
Cancel(o, payStatus, shopStatus) ==
  /\ pay[o] = "PENDING"
  /\ pay' = [pay EXCEPT ![o] = payStatus]
  /\ CancelPendingPayment(o, shopStatus)
  /\ \/ UNCHANGED upstream
     \/ upstream[o] = "unpaid" /\ upstream' = [upstream EXCEPT ![o] = "none"]
  /\ UNCHANGED <<kind, delivered, rewards, paidAt, card, phase, task>>

CancelOrder(o) == Cancel(o, "CANCELLED", "CANCELLED")
ExpireOrder(o) == phase[o] # "open" /\ Cancel(o, "EXPIRED", "FAILED")

\* Mutant: locked_until is not compared with the end of the grace.
ReleasableAlways(o) == shop[o] \in {"CANCELLED", "FAILED"}

Releasable(o) == shop[o] \in {"CANCELLED", "FAILED"} /\ phase[o] = "late"

\* ReleaseStalePaymentReservations, of the expiry task and of every listing, for
\* one order, whose status it reads again under the row lock.
ReleaseStaleReservation(o) ==
  /\ Releasable(o)
  /\ Held(o) # {}
  /\ card' = Released(o)
  /\ UNCHANGED <<shopVars, payVars, worldVars, task>>

-----------------------------------------------------------------------------
(* The payment is confirmed, and the order is delivered.                   *)

\* The WHERE clause of toPaid.  The grace of an EXPIRED order runs from the later
\* updated_at, so past the deadline both outcomes are possible.
Payable(o) ==
  \/ pay[o] \in {"PENDING", "CANCELLED", "EXPIRED"}
  \/ pay[o] = "FAILED" /\ phase[o] # "late"

Deliver(w, o) == task' = [task EXCEPT ![w] = [pc |-> "read", order |-> o]]

SetPaid(o) ==
  /\ pay' = [pay EXCEPT ![o] = "PAID"]
  /\ paidAt' = [paidAt EXCEPT ![o] = TRUE]

\* A notification, or a query that finds the payment: toPaid, or alreadyProcessed.
Notify(w, o) ==
  /\ task[w] = Idle
  /\ upstream[o] = "paid"
  /\ \/ Payable(o) /\ SetPaid(o)
     \/ pay[o] = "PAID" /\ UNCHANGED payVars
     \/ pay[o] = "FAILED" /\ paidAt[o] /\ ~Payable(o) /\ UNCHANGED payVars
  /\ Deliver(w, o)
  /\ UNCHANGED <<shopVars, card, worldVars>>

\* RetryFulfillment: an admin repeats the delivery of a paid order.
RetryFulfillment(w, o) ==
  /\ task[w] = Idle
  /\ paidAt[o]
  /\ pay[o] \in {"PAID", "FAILED"}
  /\ Deliver(w, o)
  /\ UNCHANGED <<shopVars, payVars, card, worldVars>>

\* AdminManualFulfillOrder: an admin vouches for the payment.
AdminManualFulfill(w, o) ==
  /\ task[w] = Idle
  /\ pay[o] \in {"PENDING", "CANCELLED", "EXPIRED", "FAILED", "PAID"}
  /\ SetPaid(o)
  /\ Deliver(w, o)
  /\ UNCHANGED <<shopVars, card, worldVars>>

\* ConfirmPaidAndDeliver before its transaction: the payment order is read.
ReadPaymentOrder(w) ==
  /\ task[w].pc = "read"
  /\ LET o == task[w].order IN
     task' = [task EXCEPT ![w] =
       IF pay[o] \in {"PAID", "FAILED", "COMPLETED"}
       THEN [pc |-> "confirm", order |-> o, read |-> pay[o]] ELSE Idle]
  /\ UNCHANGED <<shopVars, payVars, card, worldVars>>

\* Mutant: a completed order is not recognised.
OpenToDeliveryAlways(o, read) == shop[o] # "none"

\* The order's status under the row lock, after a cancellation was taken back.
OpenToDelivery(o, read) ==
  \/ shop[o] \in {"PENDING", "FAILED"}
  \/ shop[o] = "CANCELLED" /\ read = "PAID"

\* The order is delivered already, or not in a status to be delivered.
ConfirmNothing(w) ==
  /\ task[w].pc = "confirm"
  /\ ~OpenToDelivery(task[w].order, task[w].read)
  /\ task' = [task EXCEPT ![w] = Idle]
  /\ UNCHANGED <<shopVars, payVars, card, worldVars>>

\* The last update of both transactions, conditional on the payment's status.
SettlePayment(o, status) ==
  pay' = [pay EXCEPT ![o] = IF @ \in {"PAID", "FAILED", "COMPLETED"} THEN status ELSE @]

ConfirmPaidAndDeliver(w) ==
  /\ task[w].pc = "confirm"
  /\ LET o == task[w].order IN
     /\ OpenToDelivery(o, task[w].read)
     /\ \/ /\ kind[o] = "reward"
           /\ rewards' = [rewards EXCEPT ![o] = @ + 1]
           /\ UNCHANGED <<card, delivered>>
        \/ /\ kind[o] = "card"
           /\ \E S \in Deliverable(o) :
                /\ card' = Sell(S, o)
                /\ delivered' = [delivered EXCEPT ![o] = S]
           /\ UNCHANGED rewards
     /\ shop' = [shop EXCEPT ![o] = "COMPLETED"]
     /\ SettlePayment(o, "COMPLETED")
  /\ task' = [task EXCEPT ![w] = Idle]
  /\ UNCHANGED <<kind, paidAt, worldVars>>

\* markShopFulfillmentFailedInTx: without a reservation the stock, or what
\* SKIP LOCKED left of it, may be too small; the product or the user of a draw may
\* be gone.
FulfillmentFails(w) ==
  /\ task[w].pc = "confirm"
  /\ LET o == task[w].order IN
     /\ OpenToDelivery(o, task[w].read)
     /\ kind[o] = "reward" \/ Held(o) = {} \/ Deliverable(o) = {}
     /\ shop' = [shop EXCEPT ![o] = "FAILED"]
     /\ card' = Released(o)
     /\ SettlePayment(o, "FAILED")
  /\ task' = [task EXCEPT ![w] = Idle]
  /\ UNCHANGED <<kind, delivered, rewards, paidAt, worldVars>>

-----------------------------------------------------------------------------
(* Admins, payers, refunds, time and crashes.                              *)

Assignable(c) ==
  /\ card[c].status \notin {"absent", "sold"}
  /\ card[c].order = NoOrder

AdminSet(c, status) == card' = [card EXCEPT ![c] = [status |-> status, order |-> NoOrder]]

\* AdminUpdateCardKey, AdminBulkUpdateCardKeyStatus (for one card).
AdminUpdateCardKey(c, status) ==
  /\ Assignable(c)
  /\ AdminSet(c, status)
  /\ UNCHANGED <<shopVars, payVars, worldVars, task>>

AdminDeleteCardKey(c) ==
  /\ Assignable(c)
  /\ AdminSet(c, "absent")
  /\ UNCHANGED <<shopVars, payVars, worldVars, task>>

\* AdminCreateCardKey, AdminImportCardKeys.
AdminCreateCardKey(c, status) ==
  /\ card[c].status = "absent"
  /\ AdminSet(c, status)
  /\ UNCHANGED <<shopVars, payVars, worldVars, task>>

PayerPays(o) ==
  /\ upstream[o] = "unpaid"
  /\ upstream' = [upstream EXCEPT ![o] = "paid"]
  /\ UNCHANGED <<shopVars, payVars, card, phase, task>>

\* A delivered order is refunded (PaymentRefund); its cards are not taken back.
Refund(o) ==
  /\ pay[o] = "COMPLETED"
  /\ pay' = [pay EXCEPT ![o] = "REFUNDED"]
  /\ UNCHANGED <<shopVars, paidAt, card, worldVars, task>>

TimePasses(o) ==
  /\ pay[o] # "none"
  /\ \/ phase[o] = "open" /\ phase' = [phase EXCEPT ![o] = "grace"]
     \/ phase[o] = "grace" /\ phase' = [phase EXCEPT ![o] = "late"]
  /\ UNCHANGED <<shopVars, payVars, card, upstream, task>>

\* The process dies, or a transaction fails and is rolled back.
Crash(w) ==
  /\ task[w] # Idle
  /\ task' = [task EXCEPT ![w] = Idle]
  /\ UNCHANGED <<shopVars, payVars, card, worldVars>>

Continue(w) ==
  \/ InvokeProvider(w) \/ FailPendingPlatformPayment(w)
  \/ ReadPaymentOrder(w) \/ ConfirmNothing(w) \/ ConfirmPaidAndDeliver(w)
  \/ FulfillmentFails(w)

Start(w, o) ==
  \/ \E k \in Kinds : CreatePlatformOrder(w, o, k)
  \/ Notify(w, o) \/ RetryFulfillment(w, o) \/ AdminManualFulfill(w, o)

OrderStep(o) ==
  \/ \E k \in Kinds : CreatePaidOrder(o, k)
  \/ CancelOrder(o) \/ ExpireOrder(o) \/ ReleaseStaleReservation(o)
  \/ PayerPays(o) \/ Refund(o) \/ TimePasses(o)

AdminStep(c) ==
  \/ \E s \in Assigned : AdminUpdateCardKey(c, s) \/ AdminCreateCardKey(c, s)
  \/ AdminDeleteCardKey(c)

Next ==
  \/ \E w \in Workers : Continue(w) \/ Crash(w) \/ \E o \in Orders : Start(w, o)
  \/ \E o \in Orders : OrderStep(o)
  \/ \E c \in Cards : AdminStep(c)

Spec == Init /\ [][Next]_vars

-----------------------------------------------------------------------------
(* Properties.                                                             *)

\* An order is delivered once and in full: the cards it was given are SOLD to it
\* and to nobody else, as many as it bought; its reward is credited once; and
\* no card is sold for an order that is not COMPLETED.
DeliveredOnce ==
  \A o \in Orders :
    /\ SoldTo(o) = delivered[o]
    /\ IF shop[o] # "COMPLETED" THEN delivered[o] = {} /\ rewards[o] = 0
       ELSE \/ kind[o] = "card" /\ Cardinality(delivered[o]) = Quantity[o] /\ rewards[o] = 0
            \/ kind[o] = "reward" /\ delivered[o] = {} /\ rewards[o] = 1

\* Whoever reserves reserves everything, nobody gets or frees a part of it, and
\* nothing stays reserved for an order that is delivered.
ReservationIsWhole ==
  \A o \in Orders : Held(o) # {} =>
    /\ Cardinality(Held(o)) = Quantity[o]
    /\ shop[o] \notin {"none", "COMPLETED"} /\ kind[o] = "card"

\* The two tables agree although the payment order is read before the shop order
\* is locked: what was paid through a provider is COMPLETED in both or in none,
\* and nothing is delivered without a payment.
PaymentMatchesDelivery ==
  \A o \in Orders : pay[o] # "none" =>
    /\ shop[o] = "COMPLETED" <=> pay[o] \in {"COMPLETED", "REFUNDED"}
    /\ shop[o] = "COMPLETED" => paidAt[o]

\* As long as the payer of an order can pay in time, its cards wait for it:
\* unless it was paid before, a payment at the provider that the grace still
\* covers has its reservation, cancelled or not.
PayableIsReserved ==
  \A o \in Orders :
    (/\ kind[o] = "card" /\ ~paidAt[o] /\ phase[o] # "late"
     /\ pay[o] # "none" /\ upstream[o] \in {"unpaid", "paid"})
      => Cardinality(Held(o)) = Quantity[o]

\* No reservation is left behind: while an order holds cards, its payment is open
\* (the expiry task ends it), or it was given up (the release finds it), or it is
\* paid and the delivery, or its repetition, takes the cards or frees them.
ReservationEnds ==
  \A o \in Orders : Held(o) # {} =>
    \/ pay[o] \in {"PENDING", "PAID"}
    \/ shop[o] \in {"CANCELLED", "FAILED"}

\* Statuses, reservations, late payments and concurrent requests implement the
\* stock of CardStock: whole promises, one delivery per order, and no way back from
\* a sale, step by step.
Stock == INSTANCE CardStock WITH
  offered <- Available, promised <- [o \in Orders |-> Held(o)],
  sold <- delivered, credited <- rewards

KeepsStock == Stock!Spec

=============================================================================
