------------------------- MODULE PaymentOrderProofs -------------------------
(***************************************************************************)
(* Proofs about PaymentOrder for any set of workers, any choice of calls   *)
(* and any number of faults.  The invariants of the specification are not  *)
(* inductive: that a COMPLETED order was granted rests on what a worker    *)
(* that is about to complete it has seen, and that a grant is paid for on  *)
(* what a worker that is about to fulfil knows of the row.  IInv adds these.*)
(***************************************************************************)
EXTENDS PaymentOrder, TLAPS

\* The grant and the row that proves it are written together.
GrantMatchesMarker == granted = (IF marker = "used" THEN 1 ELSE 0)

\* A worker completes the order only after it saw the proof of the grant.
CompletersSawGrant ==
  \A w \in Workers : pc[w] \in {"complete", "complete_verified"} => marker = "used"

\* These statuses, a copy of the row that says PAID, and a fulfilment that is
\* about to take the lease, exist only once a payment is recorded.  A manual
\* fulfilment never starts from a COMPLETED order.
PaidStatus == status \in {"PAID", "RECHARGING", "COMPLETED"} => paidAt
SeenPaid ==
  \A w \in Workers : seen[w] # "COMPLETED" /\ (seen[w] = "PAID" => paidAt)
FulfilOnlyPaid == \A w \in Workers : pc[w] \in {"fulfil", "acquire"} => paidAt

\* Where a recorded payment comes from.
PaymentIsReal == paidAt => upstream = "paid" \/ vouched
AnswerWasPaid ==
  \A w \in Workers : pc[w] \in {"save_trade_no", "notify"} => upstream = "paid"

\* One request creates the payment, and until it has, there is none.
OneCreator ==
  \A v, w \in Workers : pc[v] = "invoke" => upstream = "none" /\ (pc[w] = "invoke" => v = w)

IInv ==
  /\ TypeOK
  /\ GrantMatchesMarker
  /\ CompletedIsGranted
  /\ CompletersSawGrant
  /\ PaymentNeverDropped
  /\ PaidStatus
  /\ SeenPaid
  /\ FulfilOnlyPaid
  /\ PaymentIsReal
  /\ AnswerWasPaid
  /\ OneCreator
  /\ (marker = "used" => paidAt)

\* The order as it is created satisfies the inductive invariant.
LEMMA InitIInv == Init => IInv
  <1> SUFFICES ASSUME Init PROVE IInv
    OBVIOUS
  <1>1. PICK w \in Workers : pc = [v \in Workers |-> IF v = w THEN "invoke" ELSE "idle"]
    BY DEF Init
  <1>2. TypeOK
    <2>1. pc \in [Workers -> Label]
      BY <1>1 DEF Label
    <2>2. op \in [Workers -> Op] /\ seen \in [Workers -> Status \cup {"none"}]
      BY DEF Init, Op, Status
    <2>3. faults \in 0..MaxFaults
      BY OrderAssumption DEF Init, OrderAssumption
    <2>4. paidAt \in BOOLEAN /\ vouched \in BOOLEAN /\ acked \in BOOLEAN /\ holders \subseteq Workers
      BY Zenon DEF Init
    <2>5. /\ status \in Status /\ age \in 0..2 /\ deadline \in Deadline
          /\ upstream \in Upstream /\ marker \in {"absent", "unused", "used"}
          /\ granted \in Nat /\ orderType \in OrderTypes
      BY DEF Init, Status, Deadline, Upstream
    <2>6. QED
      BY <2>1, <2>2, <2>3, <2>4, <2>5 DEF TypeOK
  <1>3. OneCreator /\ AnswerWasPaid /\ FulfilOnlyPaid /\ CompletersSawGrant /\ SeenPaid
    BY <1>1 DEF Init, OneCreator, AnswerWasPaid, FulfilOnlyPaid, CompletersSawGrant, SeenPaid
  <1>4. QED
    BY <1>2, <1>3 DEF Init, IInv, GrantMatchesMarker, CompletedIsGranted,
       PaymentNeverDropped, PaidStatus, PaymentIsReal

\* Every step of every request, of the expiry task and of the world keeps it.
LEMMA StepIInv == IInv /\ [Next]_vars => IInv'
  <1> SUFFICES ASSUME IInv, [Next]_vars PROVE IInv'
    OBVIOUS
  <1> USE OrderAssumption DEF IInv, TypeOK, GrantMatchesMarker, CompletedIsGranted,
       CompletersSawGrant, PaymentNeverDropped, PaidStatus, SeenPaid, FulfilOnlyPaid,
       PaymentIsReal, AnswerWasPaid, OneCreator, Status, Deadline, Upstream, Op, Label,
       Touch, WriteStatus, Goto, Return, Abandon, Answer, Fault, Owns,
       orderVars, grantVars, worldVars, givenVars, workerVars
  <1>1. ASSUME NEW w \in Workers, CreatePayment(w) PROVE IInv'
    BY <1>1 DEF CreatePayment
  <1>2. ASSUME NEW w \in Workers, CreatePaymentFails(w) PROVE IInv'
    BY <1>2 DEF CreatePaymentFails
  <1>3. ASSUME NEW w \in Workers, SaveDetails(w) PROVE IInv'
    BY <1>3 DEF SaveDetails
  <1>4. ASSUME NEW w \in Workers, CreateFailed(w) PROVE IInv'
    BY <1>4 DEF CreateFailed
  <1>5. ASSUME NEW w \in Workers, Notify(w) \/ NotifyFromQuery(w) PROVE IInv'
    <2>1. PICK o \in Op : upstream = "paid" /\ ToPaid(w, o)
      BY <1>5 DEF Notify, NotifyFromQuery
    <2>2. pc[w] \in {"idle", "notify"}
      BY <1>5 DEF Notify, NotifyFromQuery
    <2>3. CASE Payable
      BY <2>1, <2>2, <2>3 DEF ToPaid
    <2>4. CASE ~Payable
      BY <2>1, <2>2, <2>4 DEF ToPaid
    <2>5. QED
      BY <2>3, <2>4
  <1>6. ASSUME NEW w \in Workers, AlreadyProcessed(w) PROVE IInv'
    <2>1. acked' \in BOOLEAN
      BY <1>6, Zenon DEF AlreadyProcessed
    <2>2. UNCHANGED <<orderVars, grantVars, givenVars, faults>>
      BY <1>6 DEF AlreadyProcessed
    <2>3. CASE paidAt /\ Goto(w, "fulfil")
      BY <2>1, <2>2, <2>3
    <2>4. CASE Return(w)
      BY <2>1, <2>2, <2>4
    <2>5. QED
      BY <1>6, <2>3, <2>4 DEF AlreadyProcessed
  <1>7. ASSUME NEW w \in Workers, ExecuteFulfillment(w) PROVE IInv'
    BY <1>7 DEF ExecuteFulfillment, Fulfillable
  <1>8. ASSUME NEW w \in Workers, AcquireLease(w) PROVE IInv'
    BY <1>8 DEF AcquireLease
  <1>9. ASSUME NEW w \in Workers, ReloadLease(w) PROVE IInv'
    BY <1>9 DEF ReloadLease
  <1>10. ASSUME NEW w \in Workers, LookupCode(w) PROVE IInv'
    BY <1>10 DEF LookupCode
  <1>11. ASSUME NEW w \in Workers, CreateCode(w) PROVE IInv'
    BY <1>11 DEF CreateCode
  <1>12. ASSUME NEW w \in Workers, Redeem(w) PROVE IInv'
    BY <1>12 DEF Redeem, GrantTx, GrantRefused
  <1>13. ASSUME NEW w \in Workers, AssignSubscription(w) PROVE IInv'
    BY <1>13 DEF AssignSubscription, GrantTx, GrantRefused
  <1>14. ASSUME NEW w \in Workers, MarkCompleted(w) PROVE IInv'
    BY <1>14 DEF MarkCompleted
  <1>15. ASSUME NEW w \in Workers, Reconcile(w) PROVE IInv'
    BY <1>15 DEF Reconcile
  <1>16. ASSUME NEW w \in Workers, MarkFailed(w) PROVE IInv'
    BY <1>16 DEF MarkFailed
  <1>17. ASSUME NEW w \in Workers, CancelOrder(w) \/ ExpireOrder(w) \/ VerifyOrder(w)
         PROVE IInv'
    BY <1>17 DEF CancelOrder, ExpireOrder, VerifyOrder, CheckPaidFor
  <1>18. ASSUME NEW w \in Workers, QueryUpstream(w) PROVE IInv'
    BY <1>18 DEF QueryUpstream, NotPaid
  <1>19. ASSUME NEW w \in Workers, SaveTradeNo(w) PROVE IInv'
    BY <1>19 DEF SaveTradeNo
  <1>20. ASSUME NEW w \in Workers, CloseUpstream(w) PROVE IInv'
    BY <1>20 DEF CloseUpstream, NotPaid
  <1>21. ASSUME NEW w \in Workers, CancelTx(w) PROVE IInv'
    BY <1>21 DEF CancelTx
  <1>22. ASSUME NEW w \in Workers, RetryFulfillment(w) PROVE IInv'
    BY <1>22 DEF RetryFulfillment
  <1>23. ASSUME NEW w \in Workers, ManualFulfill(w) PROVE IInv'
    BY <1>23 DEF ManualFulfill
  <1>24. ASSUME NEW w \in Workers, ManualMarkPaid(w) PROVE IInv'
    <2> USE <1>24 DEF ManualMarkPaid, GoFulfil
    <2>1. CASE seen[w] # "PAID" /\ status = seen[w]
      <3>1. /\ status' = "PAID" /\ paidAt' = TRUE /\ vouched' = TRUE
            /\ age' = 0 /\ holders' = {} /\ GoFulfil(w)
            /\ UNCHANGED <<grantVars, orderType, deadline, upstream, faults>>
        BY <2>1
      <3>2. TypeOK'
        BY <3>1
      <3>3. OneCreator' /\ AnswerWasPaid' /\ CompletersSawGrant' /\ GrantMatchesMarker'
        BY <3>1
      <3>4. QED
        BY <3>1, <3>2, <3>3
    <2>2. CASE seen[w] # "PAID" /\ status # seen[w]
      BY <2>2
    <2>3. CASE seen[w] = "PAID" /\ Touch /\ UNCHANGED <<status, paidAt>>
      BY <2>3
    <2>4. CASE seen[w] = "PAID" /\ UNCHANGED orderVars
      BY <2>4
    <2>5. QED
      BY <2>1, <2>2, <2>3, <2>4
  <1>25. ASSUME NEW w \in Workers, Crash(w) PROVE IInv'
    BY <1>25 DEF Crash
  <1>26. CASE FailStaleRecharging
    BY <1>26 DEF FailStaleRecharging
  <1>27. CASE Time \/ PayerPays
    BY <1>27 DEF Time, RowAges, DeadlinePasses, PayerPays
  <1>28. CASE UNCHANGED vars
    BY <1>28 DEF vars
  <1> HIDE DEF IInv, TypeOK, GrantMatchesMarker, CompletedIsGranted, CompletersSawGrant,
       PaymentNeverDropped, PaidStatus, SeenPaid, FulfilOnlyPaid, PaymentIsReal,
       AnswerWasPaid, OneCreator, Status, Deadline, Upstream, Op, Label, Touch, WriteStatus,
       Goto, Return, Abandon, Answer, Fault, Owns, orderVars, grantVars, worldVars, givenVars, workerVars
  <1>29. ASSUME NEW w \in Workers, Continue(w) PROVE IInv'
    BY <1>29, <1>1, <1>2, <1>3, <1>4, <1>5, <1>6, <1>7, <1>8, <1>9, <1>10, <1>11, <1>12,
       <1>13, <1>14, <1>15, <1>16, <1>18, <1>19, <1>20, <1>21, <1>24, Zenon DEF Continue
  <1>30. ASSUME NEW w \in Workers, Start(w) PROVE IInv'
    BY <1>30, <1>5, <1>17, <1>22, <1>23, Zenon DEF Start
  <1>31. QED
    BY <1>29, <1>30, <1>25, <1>26, <1>27, <1>28, Zenon DEF Next

\* The strengthened invariant holds in every reachable state.
THEOREM IInvHolds == Spec => []IInv
  <1>1. QED
    BY InitIInv, StepIInv, PTL DEF Spec

\* Type correctness: every variable keeps its type.
THEOREM TypeCorrect == Spec => []TypeOK
  <1>1. IInv => TypeOK
    BY DEF IInv
  <1>2. QED
    BY <1>1, IInvHolds, PTL

\* The user is credited at most once for an order, whatever crashes, duplicate
\* notifications, retries and lease take-overs happen.
THEOREM AtMostOneGrant == Spec => []GrantedAtMostOnce
  <1>1. IInv => GrantedAtMostOnce
    BY DEF IInv, GrantMatchesMarker, GrantedAtMostOnce
  <1>2. QED
    BY <1>1, IInvHolds, PTL

\* An order reported COMPLETED was granted and has a recorded payment.
THEOREM CompletionIsBacked == Spec => []CompletedIsGranted
  <1>1. IInv => CompletedIsGranted
    BY DEF IInv
  <1>2. QED
    BY <1>1, IInvHolds, PTL

\* A grant is backed by a payment at the provider or by an admin's word.
THEOREM GrantsArePaidFor == Spec => []GrantIsPaidFor
  <1>1. IInv => GrantIsPaidFor
    BY DEF IInv, TypeOK, GrantMatchesMarker, PaymentIsReal, GrantIsPaidFor
  <1>2. QED
    BY <1>1, IInvHolds, PTL

\* No cancellation or expiry takes a recorded payment back.
THEOREM PaymentsAreKept == Spec => []PaymentNeverDropped
  <1>1. IInv => PaymentNeverDropped
    BY DEF IInv
  <1>2. QED
    BY <1>1, IInvHolds, PTL

-----------------------------------------------------------------------------
(* The order implements PaymentEntitlement.                                *)

\* What a step can do to the payment record, the grant and the report.
LEMMA StepKeepsEntitlement ==
  IInv /\ [Next]_vars => [Entitlement!Next]_(Entitlement!vars)
  <1> SUFFICES ASSUME IInv, [Next]_vars PROVE [Entitlement!Next]_(Entitlement!vars)
    OBVIOUS
  <1> DEFINE Stays == UNCHANGED <<paidAt, granted>> /\ (status' = "COMPLETED" <=> status = "COMPLETED")
             Records == status # "COMPLETED" /\ status' = "PAID" /\ paidAt' = TRUE /\ UNCHANGED granted
             Grants == UNCHANGED <<status, paidAt>> /\ paidAt /\ granted = 0 /\ granted' = 1
             Reports == UNCHANGED <<paidAt, granted>> /\ status # "COMPLETED" /\ status' = "COMPLETED" /\ granted = 1
             Loses == UNCHANGED <<paidAt, granted>> /\ status' # "COMPLETED"
  <1>1. Stays \/ Records \/ Grants \/ Reports \/ Loses
    <2> USE DEF IInv, TypeOK, Touch, WriteStatus, Abandon, Owns, orderVars, grantVars,
         worldVars, GrantMatchesMarker, PaidStatus, CompletersSawGrant, SeenPaid
    <2>1. ASSUME NEW w \in Workers, Notify(w) \/ NotifyFromQuery(w)
          PROVE Stays \/ Records
      BY <2>1 DEF Notify, NotifyFromQuery, ToPaid, Payable
    <2>2. ASSUME NEW w \in Workers, Redeem(w) PROVE Stays \/ Grants
      BY <2>2 DEF Redeem, GrantTx, GrantRefused
    <2>3. ASSUME NEW w \in Workers, AssignSubscription(w) PROVE Stays \/ Grants
      BY <2>3 DEF AssignSubscription, GrantTx, GrantRefused
    <2>4. ASSUME NEW w \in Workers, MarkCompleted(w) PROVE Stays \/ Reports
      BY <2>4 DEF MarkCompleted
    <2>5. ASSUME NEW w \in Workers, CreateFailed(w) PROVE Loses
      BY <2>5 DEF CreateFailed
    <2>6. ASSUME NEW w \in Workers, ManualMarkPaid(w) PROVE Stays \/ Records
      BY <2>6 DEF ManualMarkPaid
    <2>7. ASSUME NEW w \in Workers,
                 \/ CreatePayment(w) \/ CreatePaymentFails(w) \/ SaveDetails(w)
                 \/ AlreadyProcessed(w) \/ ExecuteFulfillment(w) \/ ReloadLease(w)
                 \/ LookupCode(w) \/ CreateCode(w) \/ Reconcile(w)
                 \/ QueryUpstream(w) \/ SaveTradeNo(w) \/ CloseUpstream(w)
                 \/ (Start(w) /\ ~Notify(w)) \/ Crash(w)
          PROVE Stays
      BY <2>7 DEF CreatePayment, CreatePaymentFails, SaveDetails, AlreadyProcessed,
         ExecuteFulfillment, ReloadLease, LookupCode, CreateCode, Reconcile, QueryUpstream,
         SaveTradeNo, CloseUpstream, Start, CancelOrder, ExpireOrder, VerifyOrder,
         CheckPaidFor, RetryFulfillment, ManualFulfill, Crash
    <2>8. ASSUME NEW w \in Workers, AcquireLease(w) \/ MarkFailed(w) \/ CancelTx(w)
          PROVE Stays
      BY <2>8 DEF AcquireLease, MarkFailed, CancelTx
    <2>9. CASE FailStaleRecharging \/ Time \/ PayerPays \/ UNCHANGED vars
      BY <2>9 DEF FailStaleRecharging, Time, RowAges, DeadlinePasses, PayerPays, vars
    <2>10. ASSUME NEW w \in Workers, Continue(w) \/ Start(w) \/ Crash(w)
           PROVE Stays \/ Records \/ Grants \/ Reports \/ Loses
      BY <2>1, <2>2, <2>3, <2>4, <2>5, <2>6, <2>7, <2>8, <2>10, Zenon DEF Continue
    <2>11. QED
      BY <2>9, <2>10, Zenon DEF Next
  <1>2. QED
    BY <1>1 DEF IInv, TypeOK, GrantMatchesMarker, Entitlement!Next, Entitlement!vars,
       Entitlement!Record, Entitlement!Grant, Entitlement!Report, Entitlement!LoseReport

\* Refinement: the order as the code handles it, with all its workers and
\* failures, is one of the behaviours the abstract entitlement allows.
THEOREM ImplementsEntitlement == Spec => KeepsEntitlement
  <1>1. Init => Entitlement!Init
    BY DEF Init, Entitlement!Init
  <1>2. IInv /\ [Next]_vars => [Entitlement!Next]_(Entitlement!vars)
    BY StepKeepsEntitlement
  <1>3. QED
    BY <1>1, <1>2, IInvHolds, PTL DEF Spec, KeepsEntitlement, Entitlement!Spec

\* The provider is told success only when nothing is left to do: the order is
\* granted, or it has no payment.  What is read is a status; that a COMPLETED row
\* was granted, and an EXPIRED one never paid, is what the invariant adds.
THEOREM AcksAreJustified == Spec => AckIsJustified
  <1> DEFINE A == (acked' /\ ~acked) => (paidAt' => granted' = 1)
  <1>1. IInv /\ [Next]_vars => [A]_vars
    <2> SUFFICES ASSUME IInv, [Next]_vars, acked', ~acked, paidAt' PROVE granted' = 1
      OBVIOUS
    <2>1. PICK w \in Workers :
            AlreadyProcessed(w) \/ ExecuteFulfillment(w) \/ AcquireLease(w) \/ MarkCompleted(w)
      BY DEF Next, Continue, Start, CreatePayment, CreatePaymentFails, SaveDetails, CreateFailed,
         Notify, NotifyFromQuery, ToPaid, ReloadLease, LookupCode, CreateCode, Redeem,
         AssignSubscription, Reconcile, MarkFailed, CancelOrder, ExpireOrder, VerifyOrder,
         CheckPaidFor, QueryUpstream, SaveTradeNo, CloseUpstream, CancelTx, RetryFulfillment,
         ManualFulfill, ManualMarkPaid, FailStaleRecharging, Time, RowAges, DeadlinePasses,
         PayerPays, Crash, worldVars, vars
    <2>2. CASE Owns(w) /\ MarkCompleted(w)
      BY <2>2 DEF MarkCompleted, Owns, IInv, CompletersSawGrant, GrantMatchesMarker, grantVars
    <2>3. CASE ~(Owns(w) /\ MarkCompleted(w))
      <3>1. UNCHANGED <<paidAt, granted>> /\ status \in Settled /\ ~(status = "FAILED" /\ paidAt)
        BY <2>1, <2>3 DEF AlreadyProcessed, ExecuteFulfillment, AcquireLease, MarkCompleted, Answer,
           Settled, WriteStatus, orderVars, grantVars
      <3>2. QED
        BY <3>1 DEF IInv, PaymentNeverDropped, CompletedIsGranted, Settled
    <2>4. QED
      BY <2>2, <2>3
  <1>2. QED
    BY <1>1, IInvHolds, PTL DEF Spec, AckIsJustified

=============================================================================
