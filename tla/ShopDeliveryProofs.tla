------------------------- MODULE ShopDeliveryProofs -------------------------
(***************************************************************************)
(* Proofs about ShopDelivery for any orders, quantities, cards, requests   *)
(* and products.  The properties are proved together, with four facts on   *)
(* what a request may rely on between its transactions: a request that has *)
(* an order to deliver knows it is paid, one that still creates its payment*)
(* is the only one, and the payer cannot pay before it succeeds.           *)
(***************************************************************************)
EXTENDS ShopDelivery, FiniteSetTheorems, TLAPS

Settled == {"PAID", "FAILED", "COMPLETED", "REFUNDED"}

\* What the columns of the two order tables say of each other.
OrderFacts ==
  \A o \in Orders :
    /\ paidAt[o] => pay[o] \in Settled
    /\ pay[o] = "PAID" => paidAt[o]
    /\ pay[o] # "none" => shop[o] # "none"
    /\ pay[o] = "none" => upstream[o] = "none"

\* What a request knows of the order it works at.
TaskFacts ==
  \A w \in Workers :
    /\ task[w].pc # "idle" => pay[task[w].order] # "none"
    /\ task[w].pc \in {"read", "confirm"} => paidAt[task[w].order]
    /\ task[w].pc = "invoke" => upstream[task[w].order] = "none"
    /\ (task[w].pc = "fail" /\ task[w].release) => upstream[task[w].order] = "none"

\* An order's payment is created by one request.
OneCreator ==
  \A v, w \in Workers :
    (/\ task[v].pc \in {"invoke", "fail"} /\ task[w].pc \in {"invoke", "fail"}
     /\ task[v].order = task[w].order) => v = w

\* The reservation is there when the provider is called.
CreationReserved ==
  \A w \in Workers : task[w].pc = "invoke" =>
    LET o == task[w].order IN
      (kind[o] = "card" /\ ~paidAt[o] /\ phase[o] # "late")
        => Cardinality(Held(o)) = Quantity[o]

IInv ==
  /\ TypeOK
  /\ OrderFacts /\ TaskFacts /\ OneCreator /\ CreationReserved
  /\ DeliveredOnce /\ ReservationIsWhole /\ PaymentMatchesDelivery
  /\ PayableIsReserved /\ ReservationEnds

-----------------------------------------------------------------------------
(* What the statements on the cards do to reservations and sales.          *)

\* Selling changes the cards of the buyer only.
LEMMA SellEffect ==
  ASSUME TypeOK, NEW o \in Orders, NEW S \in SUBSET Cards,
         \/ S \subseteq Available
         \/ S \subseteq Held(o),
         card' = Sell(S, o)
  PROVE  /\ SoldTo(o)' = SoldTo(o) \cup S
         /\ Held(o)' = Held(o) \ S
         /\ \A p \in Orders \ {o} : SoldTo(p)' = SoldTo(p) /\ Held(p)' = Held(p)
  BY ShopAssumption DEF TypeOK, Available, Held, SoldTo, Sell, Put

\* Reserving does not touch sold cards, nor what others reserved.
LEMMA ReserveEffect ==
  ASSUME TypeOK, NEW o \in Orders, NEW S \in SUBSET Available,
         card' = Put(S, "locked", o)
  PROVE  /\ Held(o)' = Held(o) \cup S
         /\ \A p \in Orders \ {o} : Held(p)' = Held(p)
         /\ \A p \in Orders : SoldTo(p)' = SoldTo(p)
  BY ShopAssumption DEF TypeOK, Available, Held, SoldTo, Put

\* Releasing frees the whole reservation, and nothing else.
LEMMA ReleaseEffect ==
  ASSUME TypeOK, NEW o \in Orders, card' = Released(o)
  PROVE  /\ Held(o)' = {}
         /\ \A p \in Orders \ {o} : Held(p)' = Held(p)
         /\ \A p \in Orders : SoldTo(p)' = SoldTo(p)
  BY ShopAssumption DEF TypeOK, Held, SoldTo, Put, Released

\* Admins reach neither reserved nor sold cards.
LEMMA AdminEffect ==
  ASSUME TypeOK, NEW c \in Cards, NEW s \in CardStatus \ {"sold"},
         Assignable(c) \/ card[c].status = "absent",
         AdminSet(c, s)
  PROVE  \A p \in Orders : Held(p)' = Held(p) /\ SoldTo(p)' = SoldTo(p)
  BY ShopAssumption DEF TypeOK, Held, SoldTo, Assignable, AdminSet, CardStatus

\* A transaction that leaves the cards alone leaves both as they are.
LEMMA CardsStay ==
  ASSUME UNCHANGED card
  PROVE  \A p \in Orders : Held(p)' = Held(p) /\ SoldTo(p)' = SoldTo(p)
  BY DEF Held, SoldTo

\* As many cards as a reservation has, taken from it, are all of it.
LEMMA WholeReservation ==
  ASSUME ReservationIsWhole, NEW o \in Orders, Held(o) # {}, NEW S \in SUBSET Held(o),
         Cardinality(S) = Quantity[o]
  PROVE  S = Held(o)
<1>1. Cardinality(Held(o)) = Quantity[o]
  BY DEF ReservationIsWhole
<1>2. IsFiniteSet(Held(o))
  <2>1. Held(o) \subseteq Cards
    BY DEF Held
  <2> QED
    BY <2>1, ShopAssumption, FS_Subset
<1> QED
  BY <1>1, <1>2, FS_Subset, FS_CardinalityType

-----------------------------------------------------------------------------
LEMMA TypeInit == Init => TypeOK
  BY ShopAssumption DEF Init, TypeOK, ShopStatus, PayStatus, CardStatus, Tasks, Idle

\* The fields a task has.
LEMMA TaskFields ==
  ASSUME TypeOK, NEW w \in Workers
  PROVE  /\ task[w] # Idle <=> task[w].pc # "idle"
         /\ task[w].pc # "idle" => task[w].order \in Orders
         /\ task[w].pc = "confirm" => task[w].read \in {"PAID", "FAILED", "COMPLETED"}
<1>1. task[w] \in Tasks
  BY DEF TypeOK
<1> QED
  BY <1>1 DEF Tasks, Idle

\* The tasks a step may leave behind.
LEMMA TaskValues ==
  ASSUME NEW o \in Orders
  PROVE  /\ Idle \in Tasks
         /\ [pc |-> "invoke", order |-> o] \in Tasks
         /\ [pc |-> "read", order |-> o] \in Tasks
         /\ \A b \in BOOLEAN : [pc |-> "fail", order |-> o, release |-> b] \in Tasks
         /\ \A r \in {"PAID", "FAILED", "COMPLETED"} :
              [pc |-> "confirm", order |-> o, read |-> r] \in Tasks
  BY DEF Tasks, Idle

\* The parts of the type invariant.
ShopTyped ==
  /\ shop \in [Orders -> ShopStatus]
  /\ kind \in [Orders -> {"card", "reward"}]
  /\ delivered \in [Orders -> SUBSET Cards]
  /\ rewards \in [Orders -> Nat]

PayTyped == pay \in [Orders -> PayStatus] /\ paidAt \in [Orders -> BOOLEAN]

CardsTyped ==
  /\ card \in [Cards -> [status : CardStatus, order : Orders \cup {NoOrder}]]
  /\ \A c \in Cards : card[c].status = "sold" => card[c].order # NoOrder

WorldTyped ==
  /\ phase \in [Orders -> {"open", "grace", "late"}]
  /\ upstream \in [Orders -> {"none", "unpaid", "paid"}]

TasksTyped == task \in [Workers -> Tasks]

LEMMA TypeParts ==
  TypeOK <=> ShopTyped /\ PayTyped /\ CardsTyped /\ WorldTyped /\ TasksTyped
  BY DEF TypeOK, ShopTyped, PayTyped, CardsTyped, WorldTyped, TasksTyped

LEMMA PutTyped ==
  ASSUME TypeOK, NEW S, NEW st \in CardStatus, NEW o \in Orders \cup {NoOrder},
         st = "sold" => o # NoOrder, card' = Put(S, st, o)
  PROVE  CardsTyped'
  BY DEF TypeOK, Put, CardsTyped

LEMMA TypeNext == TypeOK /\ [Next]_vars => TypeOK'
<1> SUFFICES ASSUME TypeOK, [Next]_vars
             PROVE ShopTyped' /\ PayTyped' /\ CardsTyped' /\ WorldTyped' /\ TasksTyped'
  BY TypeParts, PTL
<1> DEFINE Typed == ShopTyped /\ PayTyped /\ CardsTyped /\ WorldTyped /\ TasksTyped
<1>0. Typed
  BY TypeParts
<1>p. \A o \in Orders : SetPaid(o) => PayTyped'
  BY <1>0 DEF SetPaid, PayTyped, PayStatus
<1>d. \A w \in Workers, o \in Orders : Deliver(w, o) => TasksTyped'
  BY <1>0, TaskValues DEF Deliver, TasksTyped
<1>i. \A w \in Workers : task' = [task EXCEPT ![w] = Idle] => TasksTyped'
  BY <1>0 DEF TasksTyped, Tasks
<1>s. \A o \in Orders, st \in {"COMPLETED", "FAILED"} : SettlePayment(o, st) => pay' \in [Orders -> PayStatus]
  BY <1>0 DEF SettlePayment, PayTyped, PayStatus
<1>o. \A o \in Orders, st \in ShopStatus :
        shop' = [shop EXCEPT ![o] = st] => shop' \in [Orders -> ShopStatus]
  BY <1>0 DEF ShopTyped
<1>c. \A o \in Orders : card' = Released(o) => CardsTyped'
  BY PutTyped DEF Released, CardStatus
<1>b. \A o \in Orders, S \in SUBSET Cards : card' = Sell(S, o) => CardsTyped'
  BY PutTyped, ShopAssumption DEF Sell, CardStatus
<1>u. /\ UNCHANGED shopVars => ShopTyped'
      /\ UNCHANGED payVars => PayTyped'
      /\ UNCHANGED card => CardsTyped'
      /\ UNCHANGED worldVars => WorldTyped'
      /\ UNCHANGED task => TasksTyped'
  BY <1>0 DEF ShopTyped, PayTyped, CardsTyped, WorldTyped, TasksTyped, shopVars, payVars,
              worldVars
<1>1. ASSUME NEW w \in Workers, NEW o \in Orders, Start(w, o) PROVE Typed'
  <2>1. ASSUME NEW k \in Kinds, CreatePlatformOrder(w, o, k) PROVE Typed'
    <3>1. CardsTyped'
      <4>1. CASE UNCHANGED card
        BY <4>1, <1>u
      <4>2. ASSUME NEW S \in Reservable(o), card' = Put(S, "locked", o) PROVE CardsTyped'
        BY <4>2, PutTyped DEF CardStatus
      <4> QED
        BY <2>1, <4>1, <4>2 DEF CreatePlatformOrder
    <3>2. ShopTyped'
      BY <2>1, <1>0, ShopAssumption DEF CreatePlatformOrder, ShopTyped, ShopStatus
    <3>3. PayTyped'
      BY <2>1, <1>0 DEF CreatePlatformOrder, PayTyped, PayStatus
    <3>4. TasksTyped'
      BY <2>1, <1>0, TaskValues DEF CreatePlatformOrder, TasksTyped
    <3> QED
      BY <2>1, <3>1, <3>2, <3>3, <3>4, <1>u DEF CreatePlatformOrder
  <2>2. CASE Notify(w, o)
    BY <2>2, <1>u, <1>p, <1>d DEF Notify
  <2>3. CASE RetryFulfillment(w, o)
    BY <2>3, <1>u, <1>d DEF RetryFulfillment
  <2>4. CASE AdminManualFulfill(w, o)
    BY <2>4, <1>u, <1>p, <1>d DEF AdminManualFulfill
  <2> QED
    BY <1>1, <2>1, <2>2, <2>3, <2>4 DEF Start
<1>2. ASSUME NEW w \in Workers, Continue(w) \/ Crash(w) PROVE Typed'
  <2> DEFINE o == task[w].order
  <2>1. task[w].pc # "idle" => o \in Orders
    BY TaskFields
  <2>2. CASE InvokeProvider(w)
    <3>1. o \in Orders
      BY <2>1, <2>2 DEF InvokeProvider
    <3>2. \/ task' = [task EXCEPT ![w] = Idle]
          \/ \E b \in BOOLEAN :
               task' = [task EXCEPT ![w] = [pc |-> "fail", order |-> o, release |-> b]]
      BY <2>2 DEF InvokeProvider
    <3>3. TasksTyped'
      BY <3>1, <3>2, <1>0, TaskValues DEF TasksTyped
    <3>4. WorldTyped'
      BY <2>2, <3>1, <1>0 DEF InvokeProvider, WorldTyped
    <3> QED
      BY <2>2, <3>3, <3>4, <1>u DEF InvokeProvider
  <2>3. CASE FailPendingPlatformPayment(w)
    <3>1. o \in Orders
      BY <2>1, <2>3 DEF FailPendingPlatformPayment
    <3>2. CardsTyped'
      BY <2>3, <3>1, <1>c, <1>u DEF FailPendingPlatformPayment
    <3>3. ShopTyped'
      BY <2>3, <3>1, <1>0 DEF FailPendingPlatformPayment, ShopTyped, ShopStatus
    <3>4. PayTyped'
      BY <2>3, <3>1, <1>0 DEF FailPendingPlatformPayment, FailPendingPayment, PayTyped, PayStatus
    <3> QED
      BY <2>3, <3>2, <3>3, <3>4, <1>u, <1>i DEF FailPendingPlatformPayment
  <2>4. CASE ReadPaymentOrder(w)
    <3>1. o \in Orders
      BY <2>1, <2>4 DEF ReadPaymentOrder
    <3>2. TasksTyped'
      BY <2>4, <3>1, <1>0, TaskValues DEF ReadPaymentOrder, TasksTyped
    <3> QED
      BY <2>4, <3>2, <1>u DEF ReadPaymentOrder
  <2>5. CASE ConfirmNothing(w)
    BY <2>5, <1>u, <1>i DEF ConfirmNothing
  <2>6. CASE ConfirmPaidAndDeliver(w)
    <3>1. o \in Orders
      BY <2>1, <2>6 DEF ConfirmPaidAndDeliver
    <3>2. \A S \in Deliverable(o) : S \in SUBSET Cards
      BY DEF Deliverable, Reservable, Available, Held
    <3>3. CardsTyped'
      BY <2>6, <3>1, <3>2, <1>b, <1>u DEF ConfirmPaidAndDeliver
    <3>4. ShopTyped'
      <4>1. delivered' \in [Orders -> SUBSET Cards]
        BY <2>6, <3>1, <3>2, <1>0 DEF ConfirmPaidAndDeliver, ShopTyped
      <4>2. rewards' \in [Orders -> Nat]
        BY <2>6, <3>1, <1>0 DEF ConfirmPaidAndDeliver, ShopTyped
      <4>3. shop' \in [Orders -> ShopStatus]
        BY <2>6, <3>1, <1>o DEF ConfirmPaidAndDeliver, ShopStatus
      <4> QED
        BY <2>6, <4>1, <4>2, <4>3, <1>0 DEF ConfirmPaidAndDeliver, ShopTyped
    <3>5. PayTyped'
      BY <2>6, <3>1, <1>s, <1>0 DEF ConfirmPaidAndDeliver, PayTyped
    <3> QED
      BY <2>6, <3>3, <3>4, <3>5, <1>u, <1>i DEF ConfirmPaidAndDeliver
  <2>7. CASE FulfillmentFails(w)
    <3>1. o \in Orders
      BY <2>1, <2>7 DEF FulfillmentFails
    <3>2. CardsTyped'
      BY <2>7, <3>1, <1>c DEF FulfillmentFails
    <3>3. ShopTyped'
      BY <2>7, <3>1, <1>0 DEF FulfillmentFails, ShopTyped, ShopStatus
    <3>4. PayTyped'
      BY <2>7, <3>1, <1>s, <1>0 DEF FulfillmentFails, PayTyped
    <3> QED
      BY <2>7, <3>2, <3>3, <3>4, <1>u, <1>i DEF FulfillmentFails
  <2>8. CASE Crash(w)
    BY <2>8, <1>u, <1>i DEF Crash
  <2> QED
    BY <1>2, <2>2, <2>3, <2>4, <2>5, <2>6, <2>7, <2>8 DEF Continue
<1>3. ASSUME NEW o \in Orders, OrderStep(o) PROVE Typed'
  <2>1. ASSUME NEW k \in Kinds, CreatePaidOrder(o, k) PROVE Typed'
    <3>1. \A S \in Deliverable(o) : S \in SUBSET Cards
      BY DEF Deliverable, Reservable, Available, Held
    <3>2. CardsTyped'
      BY <2>1, <3>1, <1>b, <1>u DEF CreatePaidOrder
    <3>3. ShopTyped'
      <4>1. delivered' \in [Orders -> SUBSET Cards]
        BY <2>1, <3>1, <1>0 DEF CreatePaidOrder, ShopTyped
      <4>2. rewards' \in [Orders -> Nat]
        BY <2>1, <1>0 DEF CreatePaidOrder, ShopTyped
      <4>3. shop' \in [Orders -> ShopStatus]
        BY <2>1, <1>o DEF CreatePaidOrder, ShopStatus
      <4>4. kind' \in [Orders -> {"card", "reward"}]
        BY <2>1, <1>0, ShopAssumption DEF CreatePaidOrder, ShopTyped
      <4> QED
        BY <4>1, <4>2, <4>3, <4>4 DEF ShopTyped
    <3> QED
      BY <2>1, <3>2, <3>3, <1>u DEF CreatePaidOrder
  <2>2. CASE CancelOrder(o) \/ ExpireOrder(o)
    <3>1. PICK ps \in {"CANCELLED", "EXPIRED"}, ss \in {"CANCELLED", "FAILED"} : Cancel(o, ps, ss)
      BY <2>2 DEF CancelOrder, ExpireOrder
    <3>2. ShopTyped'
      BY <3>1, <1>0 DEF Cancel, CancelPendingPayment, ShopTyped, ShopStatus
    <3>3. PayTyped'
      BY <3>1, <1>0 DEF Cancel, PayTyped, PayStatus
    <3>4. WorldTyped'
      BY <3>1, <1>0 DEF Cancel, WorldTyped
    <3> QED
      BY <3>1, <3>2, <3>3, <3>4, <1>u DEF Cancel
  <2>3. CASE ReleaseStaleReservation(o)
    BY <2>3, <1>c, <1>u DEF ReleaseStaleReservation
  <2>4. CASE PayerPays(o)
    <3>1. WorldTyped'
      BY <2>4, <1>0 DEF PayerPays, WorldTyped
    <3> QED
      BY <2>4, <3>1, <1>u DEF PayerPays
  <2>5. CASE Refund(o)
    <3>1. PayTyped'
      BY <2>5, <1>0 DEF Refund, PayTyped, PayStatus
    <3> QED
      BY <2>5, <3>1, <1>u DEF Refund
  <2>6. CASE TimePasses(o)
    <3>1. WorldTyped'
      BY <2>6, <1>0 DEF TimePasses, WorldTyped
    <3> QED
      BY <2>6, <3>1, <1>u DEF TimePasses
  <2> QED
    BY <1>3, <2>1, <2>2, <2>3, <2>4, <2>5, <2>6 DEF OrderStep
<1>4. ASSUME NEW c \in Cards, AdminStep(c) PROVE Typed'
  <2>1. PICK s \in CardStatus \ {"sold"} : AdminSet(c, s)
    BY <1>4, ShopAssumption DEF AdminStep, AdminUpdateCardKey, AdminDeleteCardKey,
                                AdminCreateCardKey, CardStatus
  <2>2. CardsTyped'
    BY <2>1, <1>0 DEF AdminSet, CardsTyped
  <2> QED
    BY <1>4, <2>2, <1>u DEF AdminStep, AdminUpdateCardKey, AdminDeleteCardKey,
                            AdminCreateCardKey
<1>5. CASE UNCHANGED vars
  BY <1>5, <1>u DEF vars
<1> QED
  BY <1>1, <1>2, <1>3, <1>4, <1>5 DEF Next

\* Every variable of the shop keeps its type.
THEOREM TypeCorrect == Spec => []TypeOK
  BY TypeInit, TypeNext, PTL DEF Spec

-----------------------------------------------------------------------------
(* The invariant is inductive: one lemma for each kind of step.            *)

Facts ==
  /\ OrderFacts /\ TaskFacts /\ OneCreator /\ CreationReserved
  /\ DeliveredOnce /\ ReservationIsWhole /\ PaymentMatchesDelivery
  /\ PayableIsReserved /\ ReservationEnds

LEMMA CreatePlatformOrderKeeps ==
  ASSUME TypeOK, Facts, NEW w \in Workers, NEW o \in Orders, NEW k \in Kinds,
         CreatePlatformOrder(w, o, k)
  PROVE  Facts'
<1> USE DEF Facts
<1>1. /\ pay[o] = "none" /\ upstream[o] = "none" /\ ~paidAt[o]
      /\ Held(o) = {} /\ SoldTo(o) = {} /\ delivered[o] = {} /\ rewards[o] = 0
      /\ \A v \in Workers : task[v].pc # "idle" => task[v].order # o
  BY DEF CreatePlatformOrder, OrderFacts, TaskFacts, ReservationIsWhole, DeliveredOnce,
         TypeOK, PayStatus, Settled
<1>2. /\ \A p \in Orders \ {o} : Held(p)' = Held(p)
      /\ \A p \in Orders : SoldTo(p)' = SoldTo(p)
      /\ IF k = "card" THEN Cardinality(Held(o)') = Quantity[o] ELSE Held(o)' = {}
  <2>1. CASE k = "reward" /\ UNCHANGED card
    BY <2>1, <1>1, CardsStay
  <2>2. CASE k = "card" /\ \E S \in Reservable(o) : card' = Put(S, "locked", o)
    <3>1. PICK S \in SUBSET Available :
            Cardinality(S) = Quantity[o] /\ card' = Put(S, "locked", o)
      BY <2>2 DEF Reservable
    <3>2. Held(o)' = Held(o) \cup S
      BY <3>1, ReserveEffect
    <3>3. Held(o)' = S
      BY <3>2, <1>1
    <3> QED
      BY <2>2, <3>1, <3>3, ReserveEffect
  <2> QED
    BY <2>1, <2>2 DEF CreatePlatformOrder
<1>3. /\ shop' = [shop EXCEPT ![o] = "PENDING"] /\ pay' = [pay EXCEPT ![o] = "PENDING"]
      /\ kind' = [kind EXCEPT ![o] = k]
      /\ task' = [task EXCEPT ![w] = [pc |-> "invoke", order |-> o]]
      /\ UNCHANGED <<delivered, rewards, paidAt, phase, upstream>>
  BY DEF CreatePlatformOrder, worldVars
<1>4. OrderFacts'
  BY <1>1, <1>3 DEF OrderFacts, TypeOK
<1>5. TaskFacts'
  BY <1>1, <1>3 DEF TaskFacts, TypeOK
<1>6. OneCreator'
  BY <1>1, <1>3 DEF OneCreator, TypeOK
<1>7. CreationReserved'
  BY <1>1, <1>2, <1>3, TaskFields DEF CreationReserved, TypeOK
<1>8. DeliveredOnce'
  BY <1>1, <1>2, <1>3 DEF DeliveredOnce, TypeOK
<1>9. ReservationIsWhole'
  BY <1>1, <1>2, <1>3 DEF ReservationIsWhole, TypeOK
<1>10. PaymentMatchesDelivery'
  BY <1>1, <1>3 DEF PaymentMatchesDelivery, TypeOK
<1>11. PayableIsReserved'
  BY <1>1, <1>2, <1>3 DEF PayableIsReserved, TypeOK
<1>12. ReservationEnds'
  BY <1>1, <1>2, <1>3 DEF ReservationEnds, TypeOK
<1> QED
  BY <1>4, <1>5, <1>6, <1>7, <1>8, <1>9, <1>10, <1>11, <1>12

LEMMA CreatePaidOrderKeeps ==
  ASSUME TypeOK, Facts, NEW o \in Orders, NEW k \in Kinds, CreatePaidOrder(o, k)
  PROVE  Facts'
<1> USE DEF Facts
<1>1. /\ pay[o] = "none" /\ Held(o) = {} /\ SoldTo(o) = {} /\ delivered[o] = {}
      /\ rewards[o] = 0
      /\ \A v \in Workers : task[v].pc # "idle" => task[v].order # o
  BY DEF CreatePaidOrder, OrderFacts, TaskFacts, ReservationIsWhole, DeliveredOnce
<1>2. /\ \A p \in Orders \ {o} : SoldTo(p)' = SoldTo(p)
      /\ \A p \in Orders : Held(p)' = Held(p)
      /\ SoldTo(o)' = delivered'[o]
      /\ delivered' = [delivered EXCEPT ![o] = delivered'[o]]
      /\ rewards' = [rewards EXCEPT ![o] = rewards'[o]]
      /\ IF k = "card" THEN Cardinality(delivered'[o]) = Quantity[o] /\ rewards'[o] = 0
         ELSE delivered'[o] = {} /\ rewards'[o] = 1
  <2>1. CASE k = "reward" /\ rewards' = [rewards EXCEPT ![o] = @ + 1]
             /\ UNCHANGED <<card, delivered>>
    BY <2>1, <1>1, CardsStay DEF TypeOK
  <2>2. CASE k = "card" /\ UNCHANGED rewards
             /\ \E S \in Deliverable(o) :
                  card' = Sell(S, o) /\ delivered' = [delivered EXCEPT ![o] = S]
    <3>1. PICK S \in SUBSET Available :
            /\ Cardinality(S) = Quantity[o] /\ card' = Sell(S, o)
            /\ delivered' = [delivered EXCEPT ![o] = S]
      BY <2>2, <1>1 DEF Deliverable, Reservable
    <3>2. S \in SUBSET Cards /\ S \cap Held(o) = {}
      BY DEF Available, Held
    <3>3. SoldTo(o)' = SoldTo(o) \cup S /\ Held(o)' = Held(o) \ S
          /\ \A p \in Orders \ {o} : SoldTo(p)' = SoldTo(p) /\ Held(p)' = Held(p)
      BY <3>1, <3>2, SellEffect
    <3>4. SoldTo(o)' = S /\ Held(o)' = Held(o)
      BY <3>2, <3>3, <1>1
    <3>5. delivered'[o] = S
      BY <3>1 DEF TypeOK
    <3> QED
      BY <2>2, <3>1, <3>3, <3>4, <3>5, <1>1 DEF TypeOK
  <2> QED
    BY <2>1, <2>2 DEF CreatePaidOrder
<1>3. /\ shop' = [shop EXCEPT ![o] = "COMPLETED"] /\ kind' = [kind EXCEPT ![o] = k]
      /\ UNCHANGED <<pay, paidAt, phase, upstream, task>>
  BY DEF CreatePaidOrder, payVars, worldVars
<1>4. OrderFacts'
  BY <1>1, <1>3 DEF OrderFacts, TypeOK
<1>5. TaskFacts'
  BY <1>1, <1>3 DEF TaskFacts, TypeOK
<1>6. OneCreator'
  BY <1>1, <1>3 DEF OneCreator, TypeOK
<1>7. CreationReserved'
  BY <1>1, <1>2, <1>3, TaskFields DEF CreationReserved, TypeOK
<1>8. DeliveredOnce'
  <2>1. ASSUME NEW p \in Orders \ {o} PROVE DeliveredOnce!(p)'
    BY <1>2, <1>3 DEF DeliveredOnce, TypeOK
  <2>2. DeliveredOnce!(o)'
    BY <1>1, <1>2, <1>3, ShopAssumption DEF DeliveredOnce, TypeOK
  <2> QED
    BY <2>1, <2>2 DEF DeliveredOnce
<1>9. ReservationIsWhole'
  BY <1>1, <1>2, <1>3 DEF ReservationIsWhole, TypeOK
<1>10. PaymentMatchesDelivery'
  BY <1>1, <1>3 DEF PaymentMatchesDelivery, TypeOK
<1>11. PayableIsReserved'
  BY <1>1, <1>2, <1>3 DEF PayableIsReserved, TypeOK
<1>12. ReservationEnds'
  BY <1>1, <1>2, <1>3 DEF ReservationEnds, TypeOK
<1> QED
  BY <1>4, <1>5, <1>6, <1>7, <1>8, <1>9, <1>10, <1>11, <1>12

LEMMA InvokeProviderKeeps ==
  ASSUME TypeOK, Facts, NEW w \in Workers, NEW o \in Orders, task[w].order = o,
         InvokeProvider(w)
  PROVE  Facts'
<1> USE DEF Facts
<1>1. /\ task[w].pc = "invoke" /\ pay[o] # "none" /\ upstream[o] = "none"
      /\ \A v \in Workers \ {w} : task[v].pc \in {"invoke", "fail"} => task[v].order # o
  BY TaskFields DEF InvokeProvider, TaskFacts, OneCreator
<1>2. /\ UNCHANGED <<shop, kind, delivered, rewards, pay, paidAt, phase>>
      /\ \A p \in Orders : Held(p)' = Held(p) /\ SoldTo(p)' = SoldTo(p)
  BY CardsStay DEF InvokeProvider, shopVars, payVars
<1>3. \/ /\ upstream' = [upstream EXCEPT ![o] = "unpaid"]
         /\ task' = [task EXCEPT ![w] = Idle]
      \/ /\ task' = [task EXCEPT ![w] = [pc |-> "fail", order |-> o, release |-> TRUE]]
         /\ UNCHANGED upstream
      \/ /\ task' = [task EXCEPT ![w] = [pc |-> "fail", order |-> o, release |-> FALSE]]
         /\ upstream' \in {upstream, [upstream EXCEPT ![o] = "unpaid"]}
  BY DEF InvokeProvider
<1>4. OrderFacts'
  BY <1>1, <1>2, <1>3 DEF OrderFacts, TypeOK
<1>5. TaskFacts'
  <2>1. ASSUME NEW v \in Workers \ {w} PROVE TaskFacts!(v)'
    BY <1>1, <1>2, <1>3, TaskFields DEF TaskFacts, TypeOK
  <2>2. TaskFacts!(w)'
    BY <1>1, <1>2, <1>3 DEF TaskFacts, TypeOK, Idle
  <2> QED
    BY <2>1, <2>2 DEF TaskFacts
<1>6. OneCreator'
  BY <1>1, <1>3 DEF OneCreator, TypeOK, Idle
<1>7. CreationReserved'
  BY <1>1, <1>2, <1>3, TaskFields DEF CreationReserved, TypeOK, Idle
<1>8. DeliveredOnce' /\ ReservationIsWhole' /\ ReservationEnds'
  BY <1>2 DEF DeliveredOnce, ReservationIsWhole, ReservationEnds
<1>9. PaymentMatchesDelivery'
  BY <1>2 DEF PaymentMatchesDelivery
<1>10. PayableIsReserved'
  BY <1>1, <1>2, <1>3 DEF PayableIsReserved, CreationReserved, TypeOK
<1> QED
  BY <1>4, <1>5, <1>6, <1>7, <1>8, <1>9, <1>10

LEMMA FailPendingPlatformPaymentKeeps ==
  ASSUME TypeOK, Facts, NEW w \in Workers, NEW o \in Orders, task[w].order = o,
         FailPendingPlatformPayment(w)
  PROVE  Facts'
<1> USE DEF Facts
<1>1. /\ task[w].pc = "fail" /\ pay[o] # "none"
      /\ task[w].release => upstream[o] = "none"
      /\ \A v \in Workers \ {w} : task[v].pc \in {"invoke", "fail"} => task[v].order # o
  BY TaskFields DEF FailPendingPlatformPayment, TaskFacts, OneCreator
<1>2. /\ UNCHANGED <<kind, delivered, rewards, paidAt, phase, upstream>>
      /\ task' = [task EXCEPT ![w] = Idle]
  BY DEF FailPendingPlatformPayment, worldVars
<1>3. \/ /\ shop[o] \in {"PENDING", "FAILED"} /\ shop' = [shop EXCEPT ![o] = "FAILED"]
         /\ pay' = [pay EXCEPT ![o] = IF pay[o] = "PENDING" THEN "FAILED" ELSE pay[o]]
         /\ card' = card \/ (task[w].release /\ card' = Released(o))
      \/ UNCHANGED <<shop, pay, card>>
  <2>1. shop[o] = "COMPLETED" => pay[o] # "PENDING"
    BY <1>1 DEF PaymentMatchesDelivery
  <2>2. shop[o] = "COMPLETED" /\ FailPendingPayment(o) => UNCHANGED pay
    BY <1>1, <2>1 DEF FailPendingPayment, TypeOK
  <2> QED
    BY <1>1, <2>2 DEF FailPendingPlatformPayment, FailPendingPayment
<1>h. /\ \A p \in Orders : SoldTo(p)' = SoldTo(p)
      /\ \A p \in Orders \ {o} : Held(p)' = Held(p)
      /\ Held(o)' = Held(o) \/ (task[w].release /\ Held(o)' = {})
      /\ (UNCHANGED <<shop, pay, card>>) => Held(o)' = Held(o)
  <2>1. CASE UNCHANGED card
    BY <2>1, <1>1, CardsStay
  <2>2. CASE task[w].release /\ card' = Released(o) /\ card' # card
    BY <2>2, <1>1, ReleaseEffect
  <2> QED
    BY <1>3, <2>1, <2>2
<1>s. CASE UNCHANGED <<shop, pay, card>>
  <2>1. \A p \in Orders : Held(p)' = Held(p) /\ SoldTo(p)' = SoldTo(p)
    BY <1>s, CardsStay
  <2>2. OrderFacts' /\ PaymentMatchesDelivery'
    BY <1>s, <1>2 DEF OrderFacts, PaymentMatchesDelivery
  <2>3. TaskFacts' /\ OneCreator'
    BY <1>s, <1>1, <1>2 DEF TaskFacts, OneCreator, TypeOK, Idle
  <2>4. CreationReserved'
    BY <2>1, <1>1, <1>2, TaskFields DEF CreationReserved, TypeOK, Idle
  <2>5. DeliveredOnce' /\ ReservationIsWhole' /\ PayableIsReserved' /\ ReservationEnds'
    BY <2>1, <1>s, <1>2 DEF DeliveredOnce, ReservationIsWhole, PayableIsReserved, ReservationEnds
  <2> QED
    BY <2>2, <2>3, <2>4, <2>5
<1> SUFFICES ASSUME ~UNCHANGED <<shop, pay, card>> PROVE Facts'
  BY <1>s
<1>4. OrderFacts'
  BY <1>1, <1>2, <1>3, <1>h DEF OrderFacts, TypeOK, Settled
<1>5. TaskFacts'
  <2>1. \A p \in Orders : pay[p] # "none" => pay'[p] # "none"
    BY <1>1, <1>3 DEF TypeOK
  <2>2. ASSUME NEW v \in Workers \ {w} PROVE TaskFacts!(v)'
    BY <2>1, <1>2, TaskFields DEF TaskFacts, TypeOK
  <2>3. TaskFacts!(w)'
    BY <1>2 DEF TypeOK, Idle
  <2> QED
    BY <2>2, <2>3 DEF TaskFacts
<1>6. OneCreator'
  BY <1>1, <1>2 DEF OneCreator, TypeOK, Idle
<1>7. CreationReserved'
  BY <1>1, <1>2, <1>h, TaskFields DEF CreationReserved, TypeOK, Idle
<1>8. DeliveredOnce'
  BY <1>1, <1>2, <1>3, <1>h DEF DeliveredOnce, TypeOK
<1>9. ReservationIsWhole'
  BY <1>1, <1>2, <1>3, <1>h DEF ReservationIsWhole, TypeOK
<1>10. PaymentMatchesDelivery'
  BY <1>1, <1>2, <1>3, <1>h DEF PaymentMatchesDelivery, TypeOK
<1>11. PayableIsReserved'
  BY <1>1, <1>2, <1>3, <1>h DEF PayableIsReserved, TypeOK
<1>12. ReservationEnds'
  BY <1>1, <1>2, <1>3, <1>h DEF ReservationEnds, TypeOK
<1> QED
  BY <1>4, <1>5, <1>6, <1>7, <1>8, <1>9, <1>10, <1>11, <1>12

LEMMA CancelKeeps ==
  ASSUME TypeOK, Facts, NEW o \in Orders, NEW ps \in {"CANCELLED", "EXPIRED"},
         NEW ss \in {"CANCELLED", "FAILED"}, Cancel(o, ps, ss)
  PROVE  Facts'
<1> USE DEF Facts
<1>1. pay[o] = "PENDING" /\ ~paidAt[o] /\ shop[o] \notin {"none", "COMPLETED"}
  BY DEF Cancel, OrderFacts, PaymentMatchesDelivery, Settled, TypeOK
<1>2. /\ UNCHANGED <<kind, delivered, rewards, paidAt, phase, task>>
      /\ \A p \in Orders : Held(p)' = Held(p) /\ SoldTo(p)' = SoldTo(p)
  BY CardsStay DEF Cancel
<1>3. /\ pay' = [pay EXCEPT ![o] = ps] /\ shop' = [shop EXCEPT ![o] = ss]
      /\ upstream' \in {upstream, [upstream EXCEPT ![o] = "none"]}
  BY <1>1 DEF Cancel, CancelPendingPayment, TypeOK
<1>4. OrderFacts'
  BY <1>1, <1>2, <1>3 DEF OrderFacts, TypeOK, Settled
<1>5. TaskFacts'
  BY <1>1, <1>2, <1>3, TaskFields DEF TaskFacts, TypeOK
<1>6. OneCreator' /\ CreationReserved'
  BY <1>2, TaskFields DEF OneCreator, CreationReserved
<1>8. DeliveredOnce'
  BY <1>1, <1>2, <1>3 DEF DeliveredOnce, TypeOK
<1>9. ReservationIsWhole'
  BY <1>1, <1>2, <1>3 DEF ReservationIsWhole, TypeOK
<1>10. PaymentMatchesDelivery'
  BY <1>1, <1>2, <1>3 DEF PaymentMatchesDelivery, TypeOK
<1>11. PayableIsReserved'
  BY <1>1, <1>2, <1>3 DEF PayableIsReserved, TypeOK
<1>12. ReservationEnds'
  BY <1>1, <1>2, <1>3 DEF ReservationEnds, TypeOK
<1> QED
  BY <1>4, <1>5, <1>6, <1>8, <1>9, <1>10, <1>11, <1>12

LEMMA ReleaseStaleReservationKeeps ==
  ASSUME TypeOK, Facts, NEW o \in Orders, ReleaseStaleReservation(o)
  PROVE  Facts'
<1> USE DEF Facts
<1>1. /\ phase[o] = "late" /\ Held(o)' = {}
      /\ \A p \in Orders : SoldTo(p)' = SoldTo(p)
      /\ \A p \in Orders \ {o} : Held(p)' = Held(p)
  BY ReleaseEffect DEF ReleaseStaleReservation, Releasable
<1>2. UNCHANGED <<shop, kind, delivered, rewards, pay, paidAt, phase, upstream, task>>
  BY DEF ReleaseStaleReservation, shopVars, payVars, worldVars
<1>3. OrderFacts' /\ TaskFacts' /\ OneCreator' /\ PaymentMatchesDelivery'
  BY <1>2 DEF OrderFacts, TaskFacts, OneCreator, PaymentMatchesDelivery
<1>4. CreationReserved'
  BY <1>1, <1>2, TaskFields DEF CreationReserved
<1>5. DeliveredOnce' /\ ReservationIsWhole' /\ ReservationEnds'
  BY <1>1, <1>2 DEF DeliveredOnce, ReservationIsWhole, ReservationEnds
<1>6. PayableIsReserved'
  BY <1>1, <1>2 DEF PayableIsReserved
<1> QED
  BY <1>3, <1>4, <1>5, <1>6

\* A request learns that the order is paid, or an admin says so, and goes on to
\* deliver it.
LEMMA DeliveryStartKeeps ==
  ASSUME TypeOK, Facts, NEW w \in Workers, NEW o \in Orders,
         Notify(w, o) \/ RetryFulfillment(w, o) \/ AdminManualFulfill(w, o)
  PROVE  Facts'
<1> USE DEF Facts
<1>1. /\ task[w] = Idle /\ task' = [task EXCEPT ![w] = [pc |-> "read", order |-> o]]
      /\ pay[o] \notin {"none", "COMPLETED", "REFUNDED"}
      /\ UNCHANGED <<shop, kind, delivered, rewards, card, phase, upstream>>
  BY DEF Notify, RetryFulfillment, AdminManualFulfill, Deliver, Payable, shopVars, worldVars
<1>2. \/ pay' = [pay EXCEPT ![o] = "PAID"] /\ paidAt' = [paidAt EXCEPT ![o] = TRUE]
      \/ paidAt[o] /\ UNCHANGED <<pay, paidAt>>
  BY DEF Notify, RetryFulfillment, AdminManualFulfill, SetPaid, payVars, OrderFacts
<1>3. \A p \in Orders : Held(p)' = Held(p) /\ SoldTo(p)' = SoldTo(p)
  BY <1>1, CardsStay
<1>4. OrderFacts'
  BY <1>1, <1>2 DEF OrderFacts, TypeOK, Settled
<1>5. TaskFacts'
  <2>1. \A p \in Orders : /\ pay[p] # "none" => pay'[p] # "none"
                          /\ paidAt[p] => paidAt'[p]
                          /\ paidAt'[o] /\ pay'[o] # "none"
    BY <1>1, <1>2 DEF TypeOK
  <2>2. ASSUME NEW v \in Workers \ {w} PROVE TaskFacts!(v)'
    BY <2>1, <1>1, TaskFields DEF TaskFacts, TypeOK
  <2>3. TaskFacts!(w)'
    BY <2>1, <1>1 DEF TypeOK
  <2> QED
    BY <2>2, <2>3 DEF TaskFacts
<1>6. OneCreator'
  BY <1>1 DEF OneCreator, TypeOK
<1>7. CreationReserved'
  <2>1. \A p \in Orders : paidAt[p] => paidAt'[p]
    BY <1>2 DEF TypeOK
  <2>2. ASSUME NEW v \in Workers, task'[v].pc = "invoke"
        PROVE  v # w /\ task'[v] = task[v] /\ task[v].order \in Orders
    BY <2>2, <1>1, TaskFields DEF TypeOK
  <2> QED
    BY <2>1, <2>2, <1>1, <1>3 DEF CreationReserved
<1>8. DeliveredOnce' /\ ReservationIsWhole'
  BY <1>1, <1>3 DEF DeliveredOnce, ReservationIsWhole
<1>9. PaymentMatchesDelivery'
  BY <1>1, <1>2 DEF PaymentMatchesDelivery, TypeOK
<1>10. PayableIsReserved'
  BY <1>1, <1>2, <1>3 DEF PayableIsReserved, TypeOK
<1>11. ReservationEnds'
  BY <1>1, <1>2, <1>3 DEF ReservationEnds, TypeOK
<1> QED
  BY <1>4, <1>5, <1>6, <1>7, <1>8, <1>9, <1>10, <1>11

\* The steps that change nothing but what the request does next.
LEMMA TaskStepKeeps ==
  ASSUME TypeOK, Facts, NEW w \in Workers,
         ReadPaymentOrder(w) \/ ConfirmNothing(w) \/ Crash(w)
  PROVE  Facts'
<1> USE DEF Facts
<1>1. UNCHANGED <<shop, kind, delivered, rewards, pay, paidAt, card, phase, upstream>>
  BY DEF ReadPaymentOrder, ConfirmNothing, Crash, shopVars, payVars, worldVars
<1>2. /\ task[w].pc # "idle"
      /\ \/ task' = [task EXCEPT ![w] = Idle]
         \/ /\ task[w].pc = "read"
            /\ \E r \in {"PAID", "FAILED", "COMPLETED"} :
                 task' = [task EXCEPT ![w] =
                            [pc |-> "confirm", order |-> task[w].order, read |-> r]]
  BY TaskFields DEF ReadPaymentOrder, ConfirmNothing, Crash
<1>3. \A p \in Orders : Held(p)' = Held(p) /\ SoldTo(p)' = SoldTo(p)
  BY <1>1, CardsStay
<1>4. OrderFacts' /\ PaymentMatchesDelivery'
  BY <1>1 DEF OrderFacts, PaymentMatchesDelivery
<1>5. DeliveredOnce' /\ ReservationIsWhole' /\ PayableIsReserved' /\ ReservationEnds'
  BY <1>1, <1>3 DEF DeliveredOnce, ReservationIsWhole, PayableIsReserved, ReservationEnds
<1>6. TaskFacts'
  <2>1. ASSUME NEW v \in Workers \ {w} PROVE TaskFacts!(v)'
    BY <1>1, <1>2, TaskFields DEF TaskFacts, TypeOK
  <2>2. TaskFacts!(w)'
    BY <1>1, <1>2, TaskFields DEF TaskFacts, TypeOK, Idle
  <2> QED
    BY <2>1, <2>2 DEF TaskFacts
<1>7. OneCreator'
  BY <1>2 DEF OneCreator, TypeOK, Idle
<1>8. CreationReserved'
  BY <1>1, <1>2, <1>3, TaskFields DEF CreationReserved, TypeOK, Idle
<1> QED
  BY <1>4, <1>5, <1>6, <1>7, <1>8

LEMMA ConfirmPaidAndDeliverKeeps ==
  ASSUME TypeOK, Facts, NEW w \in Workers, NEW o \in Orders, task[w].order = o,
         ConfirmPaidAndDeliver(w)
  PROVE  Facts'
<1> USE DEF Facts
<1>1. /\ task[w].pc = "confirm" /\ paidAt[o] /\ pay[o] \in {"PAID", "FAILED"}
      /\ shop[o] \notin {"none", "COMPLETED"}
      /\ SoldTo(o) = {} /\ delivered[o] = {} /\ rewards[o] = 0
  BY DEF ConfirmPaidAndDeliver, OpenToDelivery, TaskFacts, OrderFacts, Settled,
         PaymentMatchesDelivery, DeliveredOnce
<1>2. /\ shop' = [shop EXCEPT ![o] = "COMPLETED"]
      /\ pay' = [pay EXCEPT ![o] = "COMPLETED"]
      /\ task' = [task EXCEPT ![w] = Idle]
      /\ UNCHANGED <<kind, paidAt, phase, upstream>>
  BY <1>1 DEF ConfirmPaidAndDeliver, SettlePayment, worldVars
<1>3. /\ \A p \in Orders \ {o} : SoldTo(p)' = SoldTo(p) /\ Held(p)' = Held(p)
      /\ Held(o)' = {}
      /\ SoldTo(o)' = delivered'[o]
      /\ delivered' = [delivered EXCEPT ![o] = delivered'[o]]
      /\ rewards' = [rewards EXCEPT ![o] = rewards'[o]]
      /\ \/ kind[o] = "card" /\ Cardinality(delivered'[o]) = Quantity[o] /\ rewards'[o] = 0
         \/ kind[o] = "reward" /\ delivered'[o] = {} /\ rewards'[o] = 1
  <2>1. CASE kind[o] = "reward"
    <3>1. UNCHANGED <<card, delivered>> /\ rewards' = [rewards EXCEPT ![o] = rewards[o] + 1]
      BY <2>1, <1>1 DEF ConfirmPaidAndDeliver
    <3>2. Held(o) = {} /\ \A p \in Orders : SoldTo(p)' = SoldTo(p) /\ Held(p)' = Held(p)
      BY <3>1, <2>1, CardsStay DEF ReservationIsWhole
    <3> QED
      BY <3>1, <3>2, <2>1, <1>1 DEF TypeOK
  <2>2. CASE kind[o] = "card"
    <3>1. PICK S \in Deliverable(o) : /\ card' = Sell(S, o) /\ UNCHANGED rewards
                                     /\ delivered' = [delivered EXCEPT ![o] = S]
      BY <2>2, <1>1 DEF ConfirmPaidAndDeliver
    <3>2. /\ S \in SUBSET Cards /\ Cardinality(S) = Quantity[o]
          /\ S \subseteq Available \/ S \subseteq Held(o)
      BY <3>1 DEF Deliverable, Reservable, Available, Held
    <3>3. /\ SoldTo(o)' = SoldTo(o) \cup S /\ Held(o)' = Held(o) \ S
          /\ \A p \in Orders \ {o} : SoldTo(p)' = SoldTo(p) /\ Held(p)' = Held(p)
      BY <3>1, <3>2, SellEffect
    <3>4. Held(o) \subseteq S
      <4>1. CASE Held(o) = {}
        BY <4>1
      <4>2. CASE Held(o) # {}
        <5>1. S \subseteq Held(o) /\ Cardinality(Held(o)) = Quantity[o]
          BY <4>2, <3>1 DEF Deliverable, ReservationIsWhole
        <5>3. S = Held(o)
          BY <5>1, <3>2, WholeReservation
        <5> QED
          BY <5>3
      <4> QED
        BY <4>1, <4>2
    <3>5. Held(o)' = {}
      BY <3>3, <3>4
    <3>6. SoldTo(o)' = S
      BY <3>3, <1>1
    <3>7. delivered'[o] = S /\ rewards'[o] = 0
      BY <3>1, <1>1 DEF TypeOK
    <3>8. rewards' = [rewards EXCEPT ![o] = rewards'[o]]
      BY <3>1 DEF TypeOK
    <3> QED
      BY <3>1, <3>2, <3>3, <3>5, <3>6, <3>7, <3>8, <2>2
  <2> QED
    BY <2>1, <2>2 DEF TypeOK
<1>4. OrderFacts'
  BY <1>1, <1>2 DEF OrderFacts, TypeOK, Settled
<1>5. TaskFacts'
  <2>1. \A p \in Orders : pay[p] # "none" => pay'[p] # "none"
    BY <1>2 DEF TypeOK
  <2>2. ASSUME NEW v \in Workers \ {w} PROVE TaskFacts!(v)'
    BY <2>1, <1>2, TaskFields DEF TaskFacts, TypeOK
  <2>3. TaskFacts!(w)'
    BY <1>2 DEF TypeOK, Idle
  <2> QED
    BY <2>2, <2>3 DEF TaskFacts
<1>6. OneCreator'
  BY <1>2 DEF OneCreator, TypeOK, Idle
<1>7. CreationReserved'
  BY <1>1, <1>2, <1>3, TaskFields DEF CreationReserved, TypeOK, Idle
<1>8. DeliveredOnce'
  <2>1. ASSUME NEW p \in Orders \ {o} PROVE DeliveredOnce!(p)'
    BY <1>2, <1>3 DEF DeliveredOnce, TypeOK
  <2>2. DeliveredOnce!(o)'
    BY <1>2, <1>3 DEF DeliveredOnce, TypeOK
  <2> QED
    BY <2>1, <2>2 DEF DeliveredOnce
<1>9. ReservationIsWhole'
  BY <1>2, <1>3 DEF ReservationIsWhole, TypeOK
<1>10. PaymentMatchesDelivery'
  BY <1>1, <1>2 DEF PaymentMatchesDelivery, TypeOK
<1>11. PayableIsReserved'
  BY <1>1, <1>2, <1>3 DEF PayableIsReserved, TypeOK
<1>12. ReservationEnds'
  BY <1>2, <1>3 DEF ReservationEnds, TypeOK
<1> QED
  BY <1>4, <1>5, <1>6, <1>7, <1>8, <1>9, <1>10, <1>11, <1>12

LEMMA FulfillmentFailsKeeps ==
  ASSUME TypeOK, Facts, NEW w \in Workers, NEW o \in Orders, task[w].order = o,
         FulfillmentFails(w)
  PROVE  Facts'
<1> USE DEF Facts
<1>1. /\ task[w].pc = "confirm" /\ paidAt[o] /\ pay[o] \in {"PAID", "FAILED"}
      /\ shop[o] \notin {"none", "COMPLETED"}
  BY DEF FulfillmentFails, OpenToDelivery, TaskFacts, OrderFacts, Settled,
         PaymentMatchesDelivery
<1>2. /\ shop' = [shop EXCEPT ![o] = "FAILED"]
      /\ pay' = [pay EXCEPT ![o] = "FAILED"]
      /\ task' = [task EXCEPT ![w] = Idle]
      /\ UNCHANGED <<kind, delivered, rewards, paidAt, phase, upstream>>
  BY <1>1 DEF FulfillmentFails, SettlePayment, worldVars
<1>3. /\ Held(o)' = {}
      /\ \A p \in Orders \ {o} : Held(p)' = Held(p)
      /\ \A p \in Orders : SoldTo(p)' = SoldTo(p)
  BY ReleaseEffect DEF FulfillmentFails
<1>4. OrderFacts'
  BY <1>1, <1>2 DEF OrderFacts, TypeOK, Settled
<1>5. TaskFacts'
  <2>1. \A p \in Orders : pay[p] # "none" => pay'[p] # "none"
    BY <1>2 DEF TypeOK
  <2>2. ASSUME NEW v \in Workers \ {w} PROVE TaskFacts!(v)'
    BY <2>1, <1>2, TaskFields DEF TaskFacts, TypeOK
  <2>3. TaskFacts!(w)'
    BY <1>2 DEF TypeOK, Idle
  <2> QED
    BY <2>2, <2>3 DEF TaskFacts
<1>6. OneCreator'
  BY <1>2 DEF OneCreator, TypeOK, Idle
<1>7. CreationReserved'
  BY <1>1, <1>2, <1>3, TaskFields DEF CreationReserved, TypeOK, Idle
<1>8. DeliveredOnce'
  BY <1>1, <1>2, <1>3 DEF DeliveredOnce, TypeOK
<1>9. ReservationIsWhole'
  BY <1>2, <1>3 DEF ReservationIsWhole, TypeOK
<1>10. PaymentMatchesDelivery'
  BY <1>1, <1>2 DEF PaymentMatchesDelivery, TypeOK
<1>11. PayableIsReserved'
  BY <1>1, <1>2, <1>3 DEF PayableIsReserved, TypeOK
<1>12. ReservationEnds'
  BY <1>2, <1>3 DEF ReservationEnds, TypeOK
<1> QED
  BY <1>4, <1>5, <1>6, <1>7, <1>8, <1>9, <1>10, <1>11, <1>12

\* The payer pays, the payment is refunded, or time passes.
LEMMA WorldStepKeeps ==
  ASSUME TypeOK, Facts, NEW o \in Orders, PayerPays(o) \/ Refund(o) \/ TimePasses(o)
  PROVE  Facts'
<1> USE DEF Facts
<1>1. /\ UNCHANGED <<shop, kind, delivered, rewards, paidAt, card, task>>
      /\ \A p \in Orders : Held(p)' = Held(p) /\ SoldTo(p)' = SoldTo(p)
  BY CardsStay DEF PayerPays, Refund, TimePasses, shopVars, payVars
<1>2. /\ \A p \in Orders : phase'[p] # "late" => phase[p] # "late"
      /\ \A p \in Orders : upstream'[p] = "none" <=> upstream[p] = "none"
      /\ \A p \in Orders : upstream'[p] \in {"unpaid", "paid"} => upstream[p] \in {"unpaid", "paid"}
      /\ \A p \in Orders : pay'[p] = "none" <=> pay[p] = "none"
      /\ \A p \in Orders : \/ pay'[p] = pay[p]
                           \/ pay[p] = "COMPLETED" /\ pay'[p] = "REFUNDED"
  BY DEF PayerPays, Refund, TimePasses, payVars, worldVars, TypeOK
<1>4. OrderFacts'
  BY <1>1, <1>2 DEF OrderFacts, Settled
<1>5. TaskFacts'
  BY <1>1, <1>2, TaskFields DEF TaskFacts
<1>6. OneCreator'
  BY <1>1 DEF OneCreator
<1>7. CreationReserved'
  BY <1>1, <1>2, TaskFields DEF CreationReserved
<1>8. DeliveredOnce' /\ ReservationIsWhole'
  BY <1>1 DEF DeliveredOnce, ReservationIsWhole
<1>9. PaymentMatchesDelivery'
  BY <1>1, <1>2 DEF PaymentMatchesDelivery
<1>10. PayableIsReserved'
  BY <1>1, <1>2 DEF PayableIsReserved
<1>11. ReservationEnds'
  <2>1. ASSUME NEW p \in Orders, Held(p) # {} PROVE pay[p] # "COMPLETED" \/ shop[p] \in {"CANCELLED", "FAILED"}
    BY <2>1 DEF ReservationEnds
  <2> QED
    BY <1>1, <1>2, <2>1 DEF ReservationEnds
<1> QED
  BY <1>4, <1>5, <1>6, <1>7, <1>8, <1>9, <1>10, <1>11

\* A step that changes none of the orders, and no card that belongs to one.
LEMMA AdminStepKeeps ==
  ASSUME TypeOK, Facts,
         \/ \E c \in Cards : AdminStep(c)
         \/ UNCHANGED vars
  PROVE  Facts'
<1> USE DEF Facts
<1>1. UNCHANGED <<shop, kind, delivered, rewards, pay, paidAt, phase, upstream, task>>
  BY DEF AdminStep, AdminUpdateCardKey, AdminDeleteCardKey, AdminCreateCardKey, shopVars,
         payVars, worldVars, vars
<1>2. \A p \in Orders : Held(p)' = Held(p) /\ SoldTo(p)' = SoldTo(p)
  <2>1. ASSUME NEW c \in Cards, AdminStep(c)
        PROVE  \A p \in Orders : Held(p)' = Held(p) /\ SoldTo(p)' = SoldTo(p)
    <3>1. /\ Assignable(c) \/ card[c].status = "absent"
          /\ \E s \in CardStatus \ {"sold"} : AdminSet(c, s)
      BY <2>1, ShopAssumption DEF AdminStep, AdminUpdateCardKey, AdminDeleteCardKey,
                                  AdminCreateCardKey, CardStatus
    <3> QED
      BY <3>1, AdminEffect
  <2>2. UNCHANGED vars => \A p \in Orders : Held(p)' = Held(p) /\ SoldTo(p)' = SoldTo(p)
    BY CardsStay DEF vars
  <2> QED
    BY <2>1, <2>2
<1>3. OrderFacts' /\ TaskFacts' /\ OneCreator' /\ PaymentMatchesDelivery'
  BY <1>1 DEF OrderFacts, TaskFacts, OneCreator, PaymentMatchesDelivery
<1>4. CreationReserved'
  BY <1>1, <1>2, TaskFields DEF CreationReserved
<1>5. DeliveredOnce' /\ ReservationIsWhole' /\ PayableIsReserved' /\ ReservationEnds'
  BY <1>1, <1>2 DEF DeliveredOnce, ReservationIsWhole, PayableIsReserved, ReservationEnds
<1> QED
  BY <1>3, <1>4, <1>5

LEMMA FactsInit == Init => Facts
<1> SUFFICES ASSUME Init PROVE Facts
  OBVIOUS
<1>1. \A o \in Orders : Held(o) = {} /\ SoldTo(o) = {}
  BY DEF Init, Held, SoldTo
<1>2. \A w \in Workers : task[w].pc = "idle"
  BY DEF Init, Idle
<1> QED
  BY <1>1, <1>2 DEF Facts, Init, OrderFacts, TaskFacts, OneCreator, CreationReserved,
     DeliveredOnce, ReservationIsWhole, PaymentMatchesDelivery, PayableIsReserved,
     ReservationEnds, Settled

LEMMA FactsNext == TypeOK /\ Facts /\ [Next]_vars => Facts'
<1> SUFFICES ASSUME TypeOK, Facts, [Next]_vars PROVE Facts'
  OBVIOUS
<1>1. ASSUME NEW w \in Workers, Continue(w) PROVE Facts'
  <2>1. /\ task[w].order \in Orders
        /\ task[w].order = task[w].order
    BY <1>1, TaskFields DEF Continue, InvokeProvider, FailPendingPlatformPayment,
       ReadPaymentOrder, ConfirmNothing, ConfirmPaidAndDeliver, FulfillmentFails
  <2> QED
    BY <1>1, <2>1, InvokeProviderKeeps, FailPendingPlatformPaymentKeeps, TaskStepKeeps,
       ConfirmPaidAndDeliverKeeps, FulfillmentFailsKeeps DEF Continue
<1>2. ASSUME NEW w \in Workers, NEW o \in Orders, Start(w, o) PROVE Facts'
  BY <1>2, CreatePlatformOrderKeeps, DeliveryStartKeeps DEF Start
<1>3. ASSUME NEW o \in Orders, OrderStep(o) PROVE Facts'
  <2>1. CancelOrder(o) \/ ExpireOrder(o) =>
          \E ps \in {"CANCELLED", "EXPIRED"}, ss \in {"CANCELLED", "FAILED"} : Cancel(o, ps, ss)
    BY DEF CancelOrder, ExpireOrder
  <2> QED
    BY <1>3, <2>1, CreatePaidOrderKeeps, CancelKeeps, ReleaseStaleReservationKeeps,
       WorldStepKeeps DEF OrderStep
<1> QED
  BY <1>1, <1>2, <1>3, TaskStepKeeps, AdminStepKeeps DEF Next

-----------------------------------------------------------------------------
(* The theorems.                                                           *)

\* The inductive invariant holds in every reachable state.
THEOREM Invariance == Spec => []IInv
<1>1. Init => IInv
  BY TypeInit, FactsInit DEF Facts, IInv
<1>2. IInv /\ [Next]_vars => IInv'
  <2> SUFFICES ASSUME IInv, [Next]_vars PROVE TypeOK' /\ Facts'
    BY DEF Facts, IInv
  <2> QED
    BY TypeNext, FactsNext DEF Facts, IInv
<1> QED
  BY <1>1, <1>2, PTL DEF Spec

\* Every order is delivered at most once and in full, and no card is sold twice,
\* whatever order notifications, retries and cancellations arrive in.
THEOREM DeliveriesHappenOnce == Spec => []DeliveredOnce
<1>1. IInv => DeliveredOnce
  BY DEF IInv
<1> QED
  BY <1>1, Invariance, PTL

\* A reservation is complete until it is sold or released as a whole.
THEOREM ReservationsAreWhole == Spec => []ReservationIsWhole
<1>1. IInv => ReservationIsWhole
  BY DEF IInv
<1> QED
  BY <1>1, Invariance, PTL

\* The payment order and the shop order of one purchase end together.
THEOREM PaymentsMatchDeliveries == Spec => []PaymentMatchesDelivery
<1>1. IInv => PaymentMatchesDelivery
  BY DEF IInv
<1> QED
  BY <1>1, Invariance, PTL

\* Who can still pay in time finds the cards reserved.
THEOREM PayersHaveReservations == Spec => []PayableIsReserved
<1>1. IInv => PayableIsReserved
  BY DEF IInv
<1> QED
  BY <1>1, Invariance, PTL

\* No reservation outlives what could sell or release it.
THEOREM ReservationsEnd == Spec => []ReservationEnds
<1>1. IInv => ReservationEnds
  BY DEF IInv
<1> QED
  BY <1>1, Invariance, PTL

-----------------------------------------------------------------------------
(* The shop implements the stock.                                          *)

\* What the statements on the cards do to the cards on offer.
LEMMA OfferedEffect ==
  ASSUME TypeOK, NEW o \in Orders
  PROVE  /\ \A S \in SUBSET Available :
              card' = Sell(S, o) \/ card' = Put(S, "locked", o) => Available' = Available \ S
         /\ \A S \in SUBSET Held(o) : card' = Sell(S, o) => Available' = Available
         /\ card' = Released(o) => Available' = Available \cup Held(o)
  BY ShopAssumption DEF TypeOK, Available, Held, Sell, Put, Released

\* An admin offers a card that is nobody's, or takes it from the offer.
LEMMA AdminRefines ==
  ASSUME TypeOK, DeliveredOnce, NEW c \in Cards, AdminStep(c)
  PROVE  Stock!Offer(c) \/ Stock!Withdraw(c)
<1>1. PICK s \in CardStatus \ {"sold"} :
        AdminSet(c, s) /\ (Assignable(c) \/ card[c].status = "absent")
  BY ShopAssumption DEF AdminStep, AdminUpdateCardKey, AdminDeleteCardKey,
                        AdminCreateCardKey, CardStatus
<1>2. /\ \A p \in Orders : Held(p)' = Held(p)
      /\ UNCHANGED <<delivered, rewards>>
  BY <1>1, AdminEffect DEF AdminStep, AdminUpdateCardKey, AdminDeleteCardKey,
                           AdminCreateCardKey, shopVars
<1>3. \A p \in Orders : c \notin Held(p) /\ c \notin delivered[p]
  BY <1>1, ShopAssumption DEF Assignable, Held, SoldTo, DeliveredOnce
<1>4. Available' = Available \cup {c} \/ Available' = Available \ {c}
  <2>1. CASE s = "available"
    BY <2>1, <1>1 DEF AdminSet, Available, TypeOK
  <2>2. CASE s # "available"
    BY <2>2, <1>1 DEF AdminSet, Available, TypeOK
  <2> QED
    BY <2>1, <2>2
<1> QED
  BY <1>2, <1>3, <1>4 DEF Stock!Offer, Stock!Withdraw

\* An order that is not delivered yet has got nothing.
LEMMA NothingYet ==
  ASSUME DeliveredOnce, NEW o \in Orders, shop[o] # "COMPLETED"
  PROVE  Stock!Unserved(o)
  BY DEF DeliveredOnce, Stock!Unserved

\* deliverOrderInTx sells what was reserved, all of it, or what is on offer.
LEMMA DeliverRefines ==
  ASSUME TypeOK, ReservationIsWhole, DeliveredOnce, NEW o \in Orders,
         shop[o] # "COMPLETED", NEW S \in Deliverable(o), card' = Sell(S, o),
         delivered' = [delivered EXCEPT ![o] = S], UNCHANGED rewards
  PROVE  Stock!SellPromised(o) \/ Stock!SellOffered(o)
<1>1. Stock!Unserved(o)
  BY NothingYet
<1>2. CASE Held(o) = {}
  <2>1. S \subseteq Available /\ Cardinality(S) = Quantity[o]
    BY <1>2 DEF Deliverable, Reservable
  <2>2. Available' = Available \ S
    BY <2>1, OfferedEffect
  <2>3. \A p \in Orders : Held(p)' = Held(p)
    <3>1. S \in SUBSET Cards
      BY <2>1 DEF Available
    <3> QED
      BY <3>1, <2>1, <1>2, SellEffect
  <2>4. S \in Stock!Bundles(o)
    BY <2>1 DEF Stock!Bundles, Stock!Cardinality, Cardinality
  <2> QED
    BY <1>1, <1>2, <2>2, <2>3, <2>4 DEF Stock!SellOffered
<1>3. CASE Held(o) # {}
  <2>1. S \subseteq Held(o) /\ Cardinality(S) = Quantity[o]
    BY <1>3 DEF Deliverable
  <2>2. S = Held(o)
    BY <1>3, <2>1, WholeReservation
  <2>3. Available' = Available
    BY <2>1, OfferedEffect
  <2>4. Held(o)' = {} /\ \A p \in Orders \ {o} : Held(p)' = Held(p)
    <3>1. S \in SUBSET Cards
      BY <2>1 DEF Held
    <3> QED
      BY <3>1, <2>1, <2>2, SellEffect
  <2>5. [p \in Orders |-> Held(p)'] = [[p \in Orders |-> Held(p)] EXCEPT ![o] = {}]
    BY <2>4
  <2> QED
    BY <1>1, <1>3, <2>2, <2>3, <2>5 DEF Stock!SellPromised
<1> QED
  BY <1>2, <1>3

\* A reservation is freed as a whole; without one nothing happens.
LEMMA ReleaseRefines ==
  ASSUME TypeOK, NEW o \in Orders, card' = Released(o), UNCHANGED <<delivered, rewards>>
  PROVE  Stock!Release(o) \/ UNCHANGED Stock!vars
<1>1. Available' = Available \cup Held(o)
  BY OfferedEffect
<1>2. Held(o)' = {} /\ \A p \in Orders \ {o} : Held(p)' = Held(p)
  BY ReleaseEffect
<1>3. [p \in Orders |-> Held(p)'] = [[p \in Orders |-> Held(p)] EXCEPT ![o] = {}]
  BY <1>2
<1>4. CASE Held(o) # {}
  BY <1>1, <1>3, <1>4 DEF Stock!Release
<1>5. CASE Held(o) = {}
  BY <1>1, <1>2, <1>5 DEF Stock!vars
<1> QED
  BY <1>4, <1>5

\* The cards stay as they are, and so does what the orders got.
LEMMA StockStays ==
  ASSUME UNCHANGED <<card, delivered, rewards>>
  PROVE  UNCHANGED Stock!vars
<1>1. Available' = Available /\ \A p \in Orders : Held(p)' = Held(p)
  BY DEF Available, Held
<1> QED
  BY <1>1 DEF Stock!vars

\* A reward is credited.
LEMMA CreditRefines ==
  ASSUME TypeOK, DeliveredOnce, NEW o \in Orders, shop[o] # "COMPLETED", Held(o) = {},
         rewards' = [rewards EXCEPT ![o] = @ + 1], UNCHANGED <<card, delivered>>
  PROVE  Stock!Credit(o)
<1>1. Available' = Available /\ \A p \in Orders : Held(p)' = Held(p)
  BY DEF Available, Held
<1>2. Stock!Unserved(o)
  BY NothingYet
<1>3. rewards' = [rewards EXCEPT ![o] = 1]
  BY <1>2 DEF Stock!Unserved
<1> QED
  BY <1>1, <1>2, <1>3 DEF Stock!Credit

LEMMA CreateRefines ==
  ASSUME IInv, NEW w \in Workers, NEW o \in Orders, NEW k \in Kinds,
         CreatePlatformOrder(w, o, k)
  PROVE  Stock!Promise(o) \/ UNCHANGED Stock!vars
<1>1. /\ Held(o) = {} /\ Stock!Unserved(o) /\ UNCHANGED <<delivered, rewards>>
  BY NothingYet DEF IInv, ReservationIsWhole, CreatePlatformOrder
<1>2. CASE UNCHANGED card
  BY <1>1, <1>2, StockStays
<1>3. ASSUME NEW S \in Reservable(o), card' = Put(S, "locked", o)
      PROVE  Stock!Promise(o)
  <2>1. S \in SUBSET Available /\ S \in Stock!Bundles(o)
    BY DEF Reservable, Stock!Bundles, Stock!Cardinality, Cardinality
  <2>2. Available' = Available \ S
    BY <2>1, <1>3, OfferedEffect DEF IInv
  <2>3. Held(o)' = S /\ \A p \in Orders \ {o} : Held(p)' = Held(p)
    BY <2>1, <1>1, <1>3, ReserveEffect DEF IInv
  <2>4. [p \in Orders |-> Held(p)'] = [[p \in Orders |-> Held(p)] EXCEPT ![o] = S]
    BY <2>3
  <2> QED
    BY <1>1, <2>1, <2>2, <2>4 DEF Stock!Promise
<1> QED
  BY <1>2, <1>3 DEF CreatePlatformOrder

LEMMA CreatePaidRefines ==
  ASSUME IInv, NEW o \in Orders, NEW k \in Kinds, CreatePaidOrder(o, k)
  PROVE  Stock!SellOffered(o) \/ Stock!SellPromised(o) \/ Stock!Credit(o)
<1>1. Held(o) = {} /\ shop[o] # "COMPLETED"
  BY DEF IInv, ReservationIsWhole, CreatePaidOrder
<1> QED
  BY <1>1, DeliverRefines, CreditRefines DEF IInv, CreatePaidOrder

LEMMA ConfirmRefines ==
  ASSUME IInv, NEW w \in Workers, ConfirmPaidAndDeliver(w)
  PROVE  \E o \in Orders : Stock!SellOffered(o) \/ Stock!SellPromised(o) \/ Stock!Credit(o)
<1> DEFINE o == task[w].order
<1>1. o \in Orders /\ shop[o] # "COMPLETED"
  BY TaskFields DEF IInv, ConfirmPaidAndDeliver, OpenToDelivery
<1>2. kind[o] = "reward" => Held(o) = {}
  BY <1>1 DEF IInv, ReservationIsWhole
<1> QED
  BY <1>1, <1>2, DeliverRefines, CreditRefines DEF IInv, ConfirmPaidAndDeliver

LEMMA ContinueRefines ==
  ASSUME IInv, NEW w \in Workers, Continue(w) \/ Crash(w)
  PROVE  [Stock!Next]_Stock!vars
<1> DEFINE o == task[w].order
<1>1. CASE InvokeProvider(w) \/ ReadPaymentOrder(w) \/ ConfirmNothing(w) \/ Crash(w)
  BY <1>1, StockStays DEF InvokeProvider, ReadPaymentOrder, ConfirmNothing, Crash, shopVars
<1>2. CASE FailPendingPlatformPayment(w) \/ FulfillmentFails(w)
  <2>1. o \in Orders
    BY <1>2, TaskFields DEF IInv, FailPendingPlatformPayment, FulfillmentFails
  <2>2. (card' = Released(o) \/ UNCHANGED card) /\ UNCHANGED <<delivered, rewards>>
    BY <1>2 DEF FailPendingPlatformPayment, FulfillmentFails
  <2> QED
    BY <2>1, <2>2, ReleaseRefines, StockStays DEF IInv, Stock!Next
<1>3. CASE ConfirmPaidAndDeliver(w)
  BY <1>3, ConfirmRefines DEF Stock!Next
<1> QED
  BY <1>1, <1>2, <1>3 DEF Continue

LEMMA StepRefines == IInv /\ [Next]_vars => [Stock!Next]_Stock!vars
<1> SUFFICES ASSUME IInv, [Next]_vars PROVE [Stock!Next]_Stock!vars
  OBVIOUS
<1>1. ASSUME NEW w \in Workers, Continue(w) \/ Crash(w) PROVE [Stock!Next]_Stock!vars
  BY <1>1, ContinueRefines
<1>2. ASSUME NEW w \in Workers, NEW o \in Orders, Start(w, o) PROVE [Stock!Next]_Stock!vars
  <2>1. ASSUME NEW k \in Kinds, CreatePlatformOrder(w, o, k) PROVE [Stock!Next]_Stock!vars
    BY <2>1, CreateRefines DEF Stock!Next
  <2>2. CASE Notify(w, o) \/ RetryFulfillment(w, o) \/ AdminManualFulfill(w, o)
    BY <2>2, StockStays DEF Notify, RetryFulfillment, AdminManualFulfill, shopVars
  <2> QED
    BY <1>2, <2>1, <2>2 DEF Start
<1>3. ASSUME NEW o \in Orders, OrderStep(o) PROVE [Stock!Next]_Stock!vars
  <2>1. ASSUME NEW k \in Kinds, CreatePaidOrder(o, k) PROVE [Stock!Next]_Stock!vars
    BY <2>1, CreatePaidRefines DEF Stock!Next
  <2>2. CASE ReleaseStaleReservation(o)
    BY <2>2, ReleaseRefines DEF ReleaseStaleReservation, shopVars, IInv, Stock!Next
  <2>3. CASE CancelOrder(o) \/ ExpireOrder(o) \/ PayerPays(o) \/ Refund(o) \/ TimePasses(o)
    BY <2>3, StockStays DEF CancelOrder, ExpireOrder, Cancel, PayerPays, Refund, TimePasses,
                            shopVars
  <2> QED
    BY <1>3, <2>1, <2>2, <2>3 DEF OrderStep
<1>4. ASSUME NEW c \in Cards, AdminStep(c) PROVE [Stock!Next]_Stock!vars
  BY <1>4, AdminRefines DEF IInv, Stock!Next
<1>5. CASE UNCHANGED vars
  BY <1>5, StockStays DEF vars, shopVars
<1> QED
  BY <1>1, <1>2, <1>3, <1>4, <1>5 DEF Next

LEMMA InitRefines == Init => Stock!Init
<1> SUFFICES ASSUME Init PROVE Stock!Init
  OBVIOUS
<1>1. Available = Cards /\ \A o \in Orders : Held(o) = {}
  BY DEF Init, Available, Held
<1> QED
  BY <1>1 DEF Init, Stock!Init

\* Whatever order payments, failures, cancellations and deliveries come in, the shop
\* implements a stock that promises whole orders, serves each order once and never
\* takes a sale back.
THEOREM ImplementsStock == Spec => KeepsStock
  BY InitRefines, StepRefines, Invariance, PTL DEF Spec, KeepsStock, Stock!Spec

=============================================================================
