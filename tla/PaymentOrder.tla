---------------------------- MODULE PaymentOrder ----------------------------
(***************************************************************************)
(* One recharge or subscription order of PaymentService, from the moment   *)
(* createOrderInTx commits it as PENDING until it is COMPLETED or given up.*)
(* Any number of request goroutines (webhook deliveries, user and admin    *)
(* calls, the expiry task) work on the same row at once; each is a member  *)
(* of Workers and every action below is one database transaction or one    *)
(* call to the payment provider, so all interleavings of those are         *)
(* explored.  Refunds of a COMPLETED order are the module PaymentRefund,   *)
(* orders of shop goods the module ShopDelivery.                           *)
(*                                                                         *)
(* Time is abstracted to what the code compares: how long ago the row was  *)
(* written (age, against the 5 minute lease, the 5 minute grace and the    *)
(* longer recharging timeout) and where expires_at lies (deadline).  The   *)
(* value of updated_at itself only serves as a lease version that is       *)
(* compared for equality, so the model keeps who holds the present one.    *)
(***************************************************************************)
EXTENDS Naturals

CONSTANTS
  Workers,    \* request goroutines that may work on the order
  OrderTypes, \* the order types explored, of {"balance", "subscription"}
  Calls,      \* the requests explored, of AllCalls
  MaxFaults   \* how many crashes and failing dependency calls a run may have

AllCalls == {"notify", "cancel", "expire", "verify", "retry", "manual"}

ASSUME OrderAssumption ==
  /\ OrderTypes \subseteq {"balance", "subscription"}
  /\ Calls \subseteq AllCalls
  /\ MaxFaults \in Nat

VARIABLES
  orderType,  \* payment_orders.order_type, never written again
  status,     \* payment_orders.status
  age,        \* now - updated_at: 0 below 5 min, 1 below the recharging timeout, 2
  paidAt,     \* payment_orders.paid_at is set
  holders,    \* workers whose lease version equals the row's updated_at
  deadline,   \* expires_at is ahead, "due" (within the grace) or "late"
  upstream,   \* the payment at the provider
  marker,     \* proof of the grant: redeem code row, or SUBSCRIPTION_ASSIGNED row
  granted,    \* how often balance was credited or the subscription assigned
  vouched,    \* an admin confirmed the payment by hand
  acked,      \* a delivery was answered with success: the provider may stop
  faults,     \* crashes and failed calls so far
  pc, op, seen   \* per worker: next step, operation, status read before it

orderVars  == <<status, age, paidAt, holders>>
grantVars  == <<marker, granted>>
givenVars  == <<orderType, deadline, upstream, vouched>>
worldVars  == <<givenVars, acked>>
workerVars == <<pc, op, seen>>
vars == <<orderVars, grantVars, worldVars, faults, workerVars>>

Status == {"PENDING", "PAID", "RECHARGING", "COMPLETED",
           "EXPIRED", "CANCELLED", "FAILED"}
Deadline == {"ahead", "due", "late"}
Upstream == {"none", "unpaid", "paid", "closed"}
Op == {"none", "notify", "cancel", "expire", "verify"}
Label == {"idle", "invoke", "save_details", "create_failed",
          "already", "fulfil", "acquire", "reload", "grant", "create", "redeem",
          "complete", "reconcile", "complete_verified", "fail",
          "query", "save_trade_no", "notify", "close", "cancel_tx", "manual"}

TypeOK ==
  /\ orderType \in OrderTypes
  /\ status \in Status
  /\ age \in 0..2
  /\ paidAt \in BOOLEAN
  /\ holders \subseteq Workers
  /\ deadline \in Deadline
  /\ upstream \in Upstream
  /\ marker \in {"absent", "unused", "used"}
  /\ granted \in Nat
  /\ vouched \in BOOLEAN
  /\ acked \in BOOLEAN
  /\ faults \in 0..MaxFaults
  /\ pc \in [Workers -> Label]
  /\ op \in [Workers -> Op]
  /\ seen \in [Workers -> Status \cup {"none"}]

\* The order as createOrderInTx commits it; one request goes on to create the
\* payment at the provider.
Init ==
  /\ orderType \in OrderTypes
  /\ status = "PENDING"
  /\ age = 0
  /\ paidAt = FALSE
  /\ holders = {}
  /\ deadline = "ahead"
  /\ upstream = "none"
  /\ marker = "absent"
  /\ granted = 0
  /\ vouched = FALSE
  /\ acked = FALSE
  /\ faults = 0
  /\ \E w \in Workers : pc = [v \in Workers |-> IF v = w THEN "invoke" ELSE "idle"]
  /\ op = [w \in Workers |-> "none"]
  /\ seen = [w \in Workers |-> "none"]

-----------------------------------------------------------------------------
(* Writing the row, and moving a worker on.                                *)

\* ent's UpdateDefault hook gives updated_at a new value with every update, so
\* no lease version read earlier matches any more.
Touch == age' = 0 /\ holders' = {}

WriteStatus(s) == status' = s /\ Touch /\ UNCHANGED paidAt

Goto(w, l) == pc' = [pc EXCEPT ![w] = l] /\ UNCHANGED <<op, seen>>

\* The handler returns and its locals are gone.
Return(w) ==
  /\ pc' = [pc EXCEPT ![w] = "idle"]
  /\ op' = [op EXCEPT ![w] = "none"]
  /\ seen' = [seen EXCEPT ![w] = "none"]

\* A worker gives up while its lease version is still the row's.
Abandon(w) ==
  /\ Return(w)
  /\ holders' = holders \ {w}
  /\ UNCHANGED <<status, age, paidAt>>

\* A handler that returns tells the provider of a delivery how it went: no error
\* is success, whatever the order is then.
Answer(w, ok) == acked' = (acked \/ (ok /\ op[w] = "notify"))

Fault == faults < MaxFaults /\ faults' = faults + 1

\* The lease guard of every write a fulfilment makes.
Owns(w) == status = "RECHARGING" /\ w \in holders

-----------------------------------------------------------------------------
(* CreateOrder after its transaction: invokeProvider.                      *)

CreatePayment(w) ==
  /\ pc[w] = "invoke"
  /\ upstream' = "unpaid"
  /\ Goto(w, "save_details")
  /\ UNCHANGED <<orderVars, grantVars, orderType, deadline, vouched, acked, faults>>

\* The call fails; the provider may have created the payment all the same.
CreatePaymentFails(w) ==
  /\ pc[w] = "invoke"
  /\ Fault
  /\ upstream' \in {"none", "unpaid"}
  /\ Goto(w, "create_failed")
  /\ UNCHANGED <<orderVars, grantVars, orderType, deadline, vouched, acked>>

\* UpdateOneID(order.ID) with the payment details, whatever the status is.
SaveDetails(w) ==
  /\ pc[w] = "save_details"
  /\ \/ Touch /\ Return(w) /\ UNCHANGED <<status, paidAt, faults>>
     \/ Fault /\ Goto(w, "create_failed") /\ UNCHANGED orderVars
  /\ UNCHANGED <<grantVars, worldVars>>

\* CreateOrder sets FAILED on any error of invokeProvider, unconditionally.
CreateFailed(w) ==
  /\ pc[w] = "create_failed"
  /\ WriteStatus("FAILED")
  /\ Return(w)
  /\ UNCHANGED <<grantVars, worldVars, faults>>

-----------------------------------------------------------------------------
(* A payment notification, from the provider or from checkPaid.            *)

\* The WHERE clause of toPaid.
Payable ==
  \/ status \in {"PENDING", "CANCELLED"}
  \/ status = "FAILED" /\ deadline # "late"
  \/ status = "EXPIRED" /\ age = 0

\* confirmPayment and the conditional update of toPaid, for a delivery (o is
\* "notify") or for what checkPaid has found.
ToPaid(w, o) ==
  /\ op' = [op EXCEPT ![w] = o]
  /\ UNCHANGED seen
  /\ IF Payable
     THEN /\ status' = "PAID"
          /\ paidAt' = TRUE
          /\ Touch
          /\ pc' = [pc EXCEPT ![w] = "fulfil"]
     ELSE /\ pc' = [pc EXCEPT ![w] = "already"]
          /\ UNCHANGED orderVars
  /\ UNCHANGED <<grantVars, worldVars, faults>>

\* A webhook delivery: the provider sends it once or many times, at any moment.
Notify(w) == pc[w] = "idle" /\ upstream = "paid" /\ ToPaid(w, "notify")

NotifyFromQuery(w) == pc[w] = "notify" /\ ToPaid(w, op[w])

\* The order is fulfilled already, or it is given up unpaid: no error.
Settled == {"COMPLETED", "FAILED", "EXPIRED"}

\* Mutant: forgets that a FAILED order may never have been paid.
AlreadyProcessedUnpaid(w) ==
  /\ pc[w] = "already"
  /\ IF status \in {"PAID", "RECHARGING", "FAILED"}
     THEN Goto(w, "fulfil") /\ UNCHANGED acked
     ELSE Return(w) /\ Answer(w, status \in Settled)
  /\ UNCHANGED <<orderVars, grantVars, givenVars, faults>>

\* Mutant: acknowledges the notification of a paid order whose fulfilment failed.
AlreadyProcessedAcksFailed(w) ==
  /\ pc[w] = "already"
  /\ IF status \in {"PAID", "RECHARGING"}
     THEN Goto(w, "fulfil") /\ UNCHANGED acked
     ELSE Return(w) /\ Answer(w, status \in Settled)
  /\ UNCHANGED <<orderVars, grantVars, givenVars, faults>>

AlreadyProcessed(w) ==
  /\ pc[w] = "already"
  /\ IF \/ status \in {"PAID", "RECHARGING"}
        \/ status = "FAILED" /\ paidAt
     THEN Goto(w, "fulfil") /\ UNCHANGED acked
     ELSE Return(w) /\ Answer(w, status \in Settled)
  /\ UNCHANGED <<orderVars, grantVars, givenVars, faults>>

-----------------------------------------------------------------------------
(* Fulfilment: take the lease, grant once, mark the order COMPLETED.       *)

Fulfillable == {"PAID", "FAILED", "RECHARGING"}

\* The read at the head of ExecuteBalanceFulfillment / ...SubscriptionFulfillment.
ExecuteFulfillment(w) ==
  /\ pc[w] = "fulfil"
  /\ IF status \in Fulfillable
     THEN Goto(w, "acquire") /\ UNCHANGED acked
     ELSE Return(w) /\ Answer(w, status = "COMPLETED")
  /\ UNCHANGED <<orderVars, grantVars, givenVars, faults>>

\* Mutant: an order somebody else is fulfilling counts as fulfilled.
AcquireLeaseOptimistic(w) ==
  /\ pc[w] = "acquire"
  /\ IF status \in {"PAID", "FAILED"} \/ (status = "RECHARGING" /\ age >= 1)
     THEN WriteStatus("RECHARGING") /\ Goto(w, "reload") /\ UNCHANGED acked
     ELSE Return(w) /\ Answer(w, status \in {"COMPLETED", "RECHARGING"}) /\ UNCHANGED orderVars
  /\ UNCHANGED <<grantVars, givenVars, faults>>

\* Refused, it is an error unless the order has been completed meanwhile.
AcquireLease(w) ==
  /\ pc[w] = "acquire"
  /\ IF status \in {"PAID", "FAILED"} \/ (status = "RECHARGING" /\ age >= 1)
     THEN WriteStatus("RECHARGING") /\ Goto(w, "reload") /\ UNCHANGED acked
     ELSE Return(w) /\ Answer(w, status = "COMPLETED") /\ UNCHANGED orderVars
  /\ UNCHANGED <<grantVars, givenVars, faults>>

\* The lease version is not the value just written but read back afterwards.
ReloadLease(w) ==
  /\ pc[w] = "reload"
  /\ IF status = "RECHARGING"
     THEN holders' = holders \cup {w} /\ Goto(w, "grant")
     ELSE Return(w) /\ UNCHANGED holders
  /\ UNCHANGED <<status, age, paidAt, grantVars, worldVars, faults>>

\* doBalance: what the redeem code row says decides how to go on.
LookupCode(w) ==
  /\ pc[w] = "grant"
  /\ orderType = "balance"
  /\ \/ /\ Goto(w, CASE marker = "absent" -> "create"
                     [] marker = "unused" -> "redeem"
                     [] marker = "used"   -> "complete")
        /\ UNCHANGED faults
     \/ Fault /\ Goto(w, "reconcile")
  /\ UNCHANGED <<orderVars, grantVars, worldVars>>

\* The code is unique: a second creation fails.
CreateCode(w) ==
  /\ pc[w] = "create"
  /\ \/ /\ marker = "absent" /\ marker' = "unused" /\ Goto(w, "redeem")
        /\ UNCHANGED faults
     \/ marker # "absent" /\ Goto(w, "reconcile") /\ UNCHANGED <<marker, faults>>
     \/ Fault /\ Goto(w, "reconcile") /\ marker' \in {marker, IF marker = "absent" THEN "unused" ELSE marker}
  /\ UNCHANGED <<orderVars, granted, worldVars>>

\* One transaction: lease guard, grant, and the row that proves the grant.  The
\* commit may succeed and its answer be lost.
GrantTx(w) ==
  /\ marker' = "used"
  /\ granted' = granted + 1
  /\ \/ Goto(w, "complete") /\ UNCHANGED faults
     \/ Fault /\ Goto(w, "reconcile")

GrantRefused(w) == Goto(w, "reconcile") /\ UNCHANGED <<grantVars, faults>>

\* redeemWithTransactionGuard: the code goes from unused to used at most once.
Redeem(w) ==
  /\ pc[w] = "redeem"
  /\ \/ Owns(w) /\ marker = "unused" /\ GrantTx(w)
     \/ (~Owns(w) \/ marker # "unused") /\ GrantRefused(w)
     \/ Fault /\ Goto(w, "reconcile") /\ UNCHANGED grantVars
  /\ UNCHANGED <<orderVars, worldVars>>

\* ensurePaymentSubscriptionAssigned: the audit row is read and written in the
\* transaction that holds the order row.
AssignSubscription(w) ==
  /\ pc[w] = "grant"
  /\ orderType = "subscription"
  /\ \/ Owns(w) /\ marker # "used" /\ GrantTx(w)
     \/ Owns(w) /\ marker = "used" /\ Goto(w, "complete") /\ UNCHANGED <<grantVars, faults>>
     \/ ~Owns(w) /\ GrantRefused(w)
     \/ Fault /\ Goto(w, "reconcile") /\ UNCHANGED grantVars
  /\ UNCHANGED <<orderVars, worldVars>>

\* markCompleted, called by the grant or, once more, by the reconciliation.
MarkCompleted(w) ==
  /\ pc[w] \in {"complete", "complete_verified"}
  /\ \/ Owns(w) /\ WriteStatus("COMPLETED") /\ Return(w) /\ Answer(w, TRUE) /\ UNCHANGED faults
     \/ /\ ~Owns(w)
        /\ IF status = "COMPLETED" \/ pc[w] = "complete_verified"
           THEN Return(w) /\ Answer(w, status = "COMPLETED")
           ELSE Goto(w, "reconcile") /\ UNCHANGED acked
        /\ UNCHANGED <<orderVars, faults>>
     \/ pc[w] = "complete" /\ Fault /\ Goto(w, "reconcile") /\ UNCHANGED <<orderVars, acked>>
  /\ UNCHANGED <<grantVars, givenVars>>

\* reconcile...FulfillmentFailure: was the grant committed after all?
Reconcile(w) ==
  /\ pc[w] = "reconcile"
  /\ \/ /\ Goto(w, IF marker = "used" THEN "complete_verified" ELSE "fail")
        /\ UNCHANGED <<orderVars, faults>>
     \/ Fault /\ Abandon(w)
  /\ UNCHANGED <<grantVars, worldVars>>

\* Mutant: writes back the status the handler remembers.
MarkFailedRestores(w) ==
  /\ pc[w] = "fail"
  /\ IF Owns(w) THEN WriteStatus(seen[w]) ELSE UNCHANGED orderVars
  /\ Return(w)
  /\ UNCHANGED <<grantVars, worldVars, faults>>

MarkFailed(w) ==
  /\ pc[w] = "fail"
  /\ IF Owns(w) THEN WriteStatus("FAILED") ELSE UNCHANGED orderVars
  /\ Return(w)
  /\ UNCHANGED <<grantVars, worldVars, faults>>

-----------------------------------------------------------------------------
(* Cancelling, expiring and verifying: checkPaid, then the conditional     *)
(* update of cancelCore.                                                   *)

\* Each handler reads the order first and goes on with that copy.
CheckPaidFor(w, o) ==
  /\ pc[w] = "idle"
  /\ pc' = [pc EXCEPT ![w] = "query"]
  /\ op' = [op EXCEPT ![w] = o]
  /\ UNCHANGED <<seen, orderVars, grantVars, worldVars, faults>>

CancelOrder(w) == status = "PENDING" /\ CheckPaidFor(w, "cancel")

ExpireOrder(w) ==
  status = "PENDING" /\ deadline # "ahead" /\ CheckPaidFor(w, "expire")

VerifyOrder(w) == status \in {"PENDING", "EXPIRED"} /\ CheckPaidFor(w, "verify")

\* Mutant: only a cancellation goes on to its conditional update.
NotPaidStops(w) == IF op[w] = "cancel" THEN Goto(w, "cancel_tx") ELSE Return(w)

\* What follows a checkPaid that did not find the order paid.
NotPaid(w) == IF op[w] = "verify" THEN Return(w) ELSE Goto(w, "cancel_tx")

\* Mutant: any answer of the provider is taken for "paid".
QueryUpstreamTrusts(w) ==
  /\ pc[w] = "query"
  /\ \E l \in {"save_trade_no", "notify"} : Goto(w, l)
  /\ UNCHANGED <<orderVars, grantVars, worldVars, faults>>

\* A paid answer may carry a trade number the copy of the order does not have.
QueryUpstream(w) ==
  /\ pc[w] = "query"
  /\ \/ /\ upstream = "paid"
        /\ \E l \in {"save_trade_no", "notify"} : Goto(w, l)
        /\ UNCHANGED faults
     \/ upstream # "paid" /\ Goto(w, "close") /\ UNCHANGED faults
     \/ Fault /\ NotPaid(w)
  /\ UNCHANGED <<orderVars, grantVars, worldVars>>

\* Update().Where(ID).SetPaymentTradeNo: no condition on the status.
SaveTradeNo(w) ==
  /\ pc[w] = "save_trade_no"
  /\ \/ Touch /\ UNCHANGED <<status, paidAt, faults>>
     \/ Fault /\ UNCHANGED orderVars
  /\ Goto(w, "notify")
  /\ UNCHANGED <<grantVars, worldVars>>

\* CancelPayment, at the providers that have it; its error is ignored.
CloseUpstream(w) ==
  /\ pc[w] = "close"
  /\ upstream' \in {upstream, IF upstream = "unpaid" THEN "closed" ELSE upstream}
  /\ NotPaid(w)
  /\ UNCHANGED <<orderVars, grantVars, orderType, deadline, vouched, acked, faults>>

\* Mutant: the update is not conditional on PENDING.
CancelTxUnconditional(w) ==
  /\ pc[w] = "cancel_tx"
  /\ WriteStatus(IF op[w] = "expire" THEN "EXPIRED" ELSE "CANCELLED")
  /\ Return(w)
  /\ UNCHANGED <<grantVars, worldVars, faults>>

CancelTx(w) ==
  /\ pc[w] = "cancel_tx"
  /\ IF status = "PENDING"
     THEN WriteStatus(IF op[w] = "expire" THEN "EXPIRED" ELSE "CANCELLED")
     ELSE UNCHANGED orderVars
  /\ Return(w)
  /\ UNCHANGED <<grantVars, worldVars, faults>>

-----------------------------------------------------------------------------
(* Admin calls.                                                            *)

RetryFulfillment(w) ==
  /\ pc[w] = "idle"
  /\ paidAt
  /\ status \in Fulfillable
  /\ Goto(w, "fulfil")
  /\ UNCHANGED <<orderVars, grantVars, worldVars, faults>>

ManualFulfill(w) ==
  /\ pc[w] = "idle"
  /\ status # "COMPLETED"
  /\ status = "RECHARGING" => age >= 1
  /\ pc' = [pc EXCEPT ![w] = "manual"]
  /\ seen' = [seen EXCEPT ![w] = status]
  /\ UNCHANGED <<op, orderVars, grantVars, worldVars, faults>>

GoFulfil(w) ==
  /\ pc' = [pc EXCEPT ![w] = "fulfil"]
  /\ seen' = [seen EXCEPT ![w] = "none"]
  /\ UNCHANGED op

\* The update is conditional on the status read; an order read as PAID is
\* rewritten on no condition, or not at all when its details stay the same.
ManualMarkPaid(w) ==
  /\ pc[w] = "manual"
  /\ \/ /\ seen[w] # "PAID" /\ status = seen[w]
        /\ status' = "PAID" /\ paidAt' = TRUE /\ Touch
        /\ vouched' = TRUE
        /\ GoFulfil(w)
     \/ /\ seen[w] # "PAID" /\ status # seen[w]
        /\ Return(w)
        /\ UNCHANGED <<orderVars, vouched>>
     \/ /\ seen[w] = "PAID"
        /\ (Touch /\ UNCHANGED <<status, paidAt>>) \/ UNCHANGED orderVars
        /\ vouched' = TRUE
        /\ GoFulfil(w)
  /\ UNCHANGED <<grantVars, orderType, deadline, upstream, acked, faults>>

-----------------------------------------------------------------------------
(* The expiry task's own update, time, the payer, and crashes.             *)

\* Mutant: looks for stale orders in the wrong status.
FailStalePaid ==
  /\ status = "PAID" /\ age = 2
  /\ WriteStatus("FAILED")
  /\ UNCHANGED <<grantVars, worldVars, faults, workerVars>>

FailStaleRecharging ==
  /\ status = "RECHARGING" /\ age = 2
  /\ WriteStatus("FAILED")
  /\ UNCHANGED <<grantVars, worldVars, faults, workerVars>>

RowAges ==
  /\ age < 2 /\ age' = age + 1
  /\ UNCHANGED <<status, paidAt, holders, grantVars, worldVars, faults, workerVars>>

DeadlinePasses ==
  /\ \/ deadline = "ahead" /\ deadline' = "due"
     \/ deadline = "due" /\ deadline' = "late"
  /\ UNCHANGED <<orderVars, grantVars, orderType, upstream, vouched, acked, faults, workerVars>>

PayerPays ==
  /\ upstream = "unpaid" /\ upstream' = "paid"
  /\ UNCHANGED <<orderVars, grantVars, orderType, deadline, vouched, acked, faults, workerVars>>

\* The process dies, the request is cancelled, or an unchecked call fails.
Crash(w) ==
  /\ pc[w] # "idle"
  /\ Fault
  /\ Abandon(w)
  /\ UNCHANGED <<grantVars, worldVars>>

\* The steps a started request goes on with.
Continue(w) ==
  \/ CreatePayment(w) \/ CreatePaymentFails(w) \/ SaveDetails(w) \/ CreateFailed(w)
  \/ NotifyFromQuery(w) \/ AlreadyProcessed(w)
  \/ ExecuteFulfillment(w) \/ AcquireLease(w) \/ ReloadLease(w)
  \/ LookupCode(w) \/ CreateCode(w) \/ Redeem(w) \/ AssignSubscription(w)
  \/ MarkCompleted(w) \/ Reconcile(w) \/ MarkFailed(w)
  \/ QueryUpstream(w) \/ SaveTradeNo(w) \/ CloseUpstream(w) \/ CancelTx(w)
  \/ ManualMarkPaid(w)

Start(w) ==
  \/ "notify" \in Calls /\ Notify(w)
  \/ "cancel" \in Calls /\ CancelOrder(w)
  \/ "expire" \in Calls /\ ExpireOrder(w)
  \/ "verify" \in Calls /\ VerifyOrder(w)
  \/ "retry" \in Calls /\ RetryFulfillment(w)
  \/ "manual" \in Calls /\ ManualFulfill(w)

Time == RowAges \/ DeadlinePasses

Next ==
  \/ \E w \in Workers : Continue(w) \/ Start(w) \/ Crash(w)
  \/ FailStaleRecharging \/ Time \/ PayerPays

Spec == Init /\ [][Next]_vars

-----------------------------------------------------------------------------
(* Properties.                                                             *)

\* A payment is worth one grant: however many deliveries, retries, lease
\* take-overs and lost commits there are, the user is credited at most once.
GrantedAtMostOnce == granted <= 1

\* An order is COMPLETED only after its grant was committed, and only with a
\* recorded payment; no path may report success on the strength of a failed grant.
CompletedIsGranted == status = "COMPLETED" => granted = 1 /\ paidAt

\* Nothing is granted that the payer or an admin did not pay for.
GrantIsPaidFor == granted > 0 => upstream = "paid" \/ vouched

\* A cancellation or expiry that raced with the payment never wins over it:
\* once paid_at is written the order is in none of the unpaid states.
PaymentNeverDropped ==
  paidAt => status \in {"PAID", "RECHARGING", "COMPLETED", "FAILED"}

\* The provider repeats a delivery until it is answered with success, so success
\* is told only when there is nothing left to do: the order's payment has become
\* its grant, or no payment is recorded.  A delivery that finds the order in the
\* hands of another worker, or failed after it was paid, is an error.
AckIsJustified ==
  [][(acked' /\ ~acked) => (paidAt' => granted' = 1)]_vars

\* The row, seen as payment recorded, entitlement granted and completion reported.
Entitlement == INSTANCE PaymentEntitlement
  WITH recorded <- paidAt, granted <- granted, done <- (status = "COMPLETED")

\* The order keeps the promise of PaymentEntitlement: no step records a payment
\* twice, grants before the payment or twice, or reports before the grant.
KeepsEntitlement == Entitlement!Spec

\* The three statements below are made by comments of the code, which does not
\* keep them: given one of them as its property, MCPaymentOrder_safety.cfg
\* refutes it.

\* At most one worker holds the version that lets it fail or complete the order.
LeaseIsExclusive == \A u, v \in holders : u = v

\* The payment is closed at the provider only on the way to a cancelled or
\* expired order, not by a request that merely asks whether it was paid.
ClosedOnlyToCancel ==
  [][upstream' = "closed" /\ upstream # "closed"
       => \E w \in Workers : pc[w] = "close" /\ pc'[w] = "cancel_tx"]_vars

\* Once the grace of an EXPIRED order is over, asking about it does not open
\* the window again in which a payment revives the order.
GraceStaysOver ==
  [][(status = "EXPIRED" /\ age > 0 /\ \A w \in Workers : pc[w] # "save_details")
       => ~(status' = "EXPIRED" /\ age' = 0)]_vars

-----------------------------------------------------------------------------
(* Liveness.  Requests run on until they return, the expiry task runs every*)
(* minute, time passes, and the provider repeats a notification until it is*)
(* acknowledged, which happens only when the order is COMPLETED or given up.*)

Fairness ==
  /\ \A w \in Workers : WF_vars(Continue(w))
  /\ WF_vars(FailStaleRecharging)
  /\ WF_vars(Time)
  /\ SF_vars(\E w \in Workers : ExpireOrder(w))

\* Five minutes pass while a worker is between taking the lease and its last
\* write.  Safety allows this always; for liveness it ends at some time.
LeaseOutrun ==
  /\ status = "RECHARGING" /\ age = 0 /\ RowAges
  /\ \E w \in Workers : pc[w] \in {"reload", "grant", "create", "redeem", "complete",
                                  "reconcile", "complete_verified", "fail"}

\* The provider notifies again and again until it is acknowledged.
Redelivery == SF_vars(~acked /\ \E w \in Workers : Notify(w))

\* Each outrun lease and each manual fulfilment takes the lease from whoever
\* works; an order where they never stop need never be done.
Calm == <>[][~LeaseOutrun /\ ~\E w \in Workers : ManualFulfill(w)]_vars

LiveSpec == Spec /\ Fairness /\ Calm

\* A lease does not outlive its worker for ever: whatever dies or loses its
\* version, the order leaves RECHARGING.
RechargingEnds == status = "RECHARGING" ~> status # "RECHARGING"

\* An order nobody pays does not stay open.
PendingEnds == status = "PENDING" ~> status # "PENDING"

\* A payment that is recorded before the provider is told success is fulfilled,
\* however the requests before died, and although the provider stops when it is
\* told.  (After an expired order was acknowledged unpaid, nobody repeats.)
PaidIsFulfilled ==
  Redelivery => ((paidAt /\ upstream = "paid" /\ ~acked) ~> status = "COMPLETED")

=============================================================================
