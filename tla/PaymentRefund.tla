--------------------------- MODULE PaymentRefund ---------------------------
(***************************************************************************)
(* The refund of one COMPLETED recharge or subscription order: the user's  *)
(* request, the administrator's refund with its plan, the call to the      *)
(* gateway, the pending state between its acceptance and its settlement,   *)
(* the query that finalises it, and what is taken back from the user.      *)
(* Each action is one statement against the database or one gateway call,  *)
(* so requests of several administrators interleave between any two.       *)
(*                                                                         *)
(* What is taken back is one number: the user's balance, or the days left  *)
(* on the subscription the order bought.  Amounts are whole units.         *)
(***************************************************************************)
EXTENDS Integers, Sequences

LOCAL INSTANCE FiniteSetsExt

CONSTANTS
  Workers,     \* request goroutines
  OrderTypes,  \* the order types explored, of {"balance", "subscription"}
  Amount,      \* the order's amount, and the days of a subscription order
  MaxRefunds,  \* how many refunds the gateway may come to know
  MaxFaults,   \* how many faults a run may have
  Faults       \* the kinds explored, of AllFaults

\* A dead process; a request context cancelled before its last write; a gateway
\* call whose answer is an error; a failing database write; one that is
\* committed although its answer is an error.
AllFaults == {"crash", "cancelled", "gateway", "database", "lost_commit"}

ASSUME RefundAssumption ==
  /\ OrderTypes \subseteq {"balance", "subscription"}
  /\ Amount \in Nat \ {0}
  /\ MaxRefunds \in Nat
  /\ MaxFaults \in Nat
  /\ Faults \subseteq AllFaults

VARIABLES
  orderType,
  traded,        \* the order has a payment_trade_no
  status,        \* payment_orders.status
  refundAmount,  \* payment_orders.refund_amount
  refundNo,      \* payment_orders.refund_trade_no: index in refunds, 0 for ""
  deductOnSettle,
  asset,         \* the user's balance or remaining days
  deductions,    \* how often this order's refund took something back
  deducted,      \* how much it took
  refunds,       \* the refunds the gateway knows, in the order of acceptance
  claimedFrom,   \* history: the status the last claim of ExecuteRefund replaced
  faults,
  pc, plan       \* per worker: next step, and its RefundPlan

rowVars == <<status, refundAmount, refundNo, deductOnSettle>>
assetVars == <<asset, deductions, deducted>>
constVars == <<orderType, traded>>
vars == <<constVars, rowVars, assetVars, refunds, claimedFrom, faults, pc, plan>>

Initiable == {"COMPLETED", "REFUND_REQUESTED", "REFUND_FAILED"}
Terminal == {"PARTIALLY_REFUNDED", "REFUNDED"}
Status == Initiable \cup Terminal \cup {"REFUNDING", "REFUND_PENDING"}

\* The steps between the claim of the order and the write that ends it.
Claimed == {"gateway", "pending_write", "settle", "terminal", "restore",
            "query", "settlement", "finalize_failed", "restore_pending"}
Label == Claimed \cup {"idle", "request", "prepare", "execute", "lock_query"}

Refund == [amount : 0..Amount, state : {"pending", "done", "failed"}]

\* from: status of the order when it was read; refund: the gateway's number.
Plan == [from : Status, amount : 0..Amount, take : BOOLEAN,
         deduct : 0..Amount, refund : Nat]
NoPlan == [from |-> "COMPLETED", amount |-> 0, take |-> FALSE, deduct |-> 0, refund |-> 0]

TypeOK ==
  /\ orderType \in OrderTypes
  /\ traded \in BOOLEAN
  /\ status \in Status
  /\ refundAmount \in 0..Amount
  /\ refundNo \in Nat
  /\ deductOnSettle \in BOOLEAN
  /\ asset \in Int
  /\ deductions \in Nat
  /\ deducted \in Nat
  /\ refunds \in Seq(Refund)
  /\ claimedFrom \in Initiable
  /\ faults \in 0..MaxFaults
  /\ pc \in [Workers -> Label]
  /\ plan \in [Workers -> Plan]

\* A fulfilled order, part of which the user may have used up.
Init ==
  /\ orderType \in OrderTypes
  /\ traded \in BOOLEAN
  /\ status = "COMPLETED"
  /\ refundAmount = 0
  /\ refundNo = 0
  /\ deductOnSettle = FALSE
  /\ asset = Amount
  /\ deductions = 0
  /\ deducted = 0
  /\ refunds = <<>>
  /\ claimedFrom = "COMPLETED"
  /\ faults = 0
  /\ pc = [w \in Workers |-> "idle"]
  /\ plan = [w \in Workers |-> NoPlan]

-----------------------------------------------------------------------------
Goto(w, l) == pc' = [pc EXCEPT ![w] = l] /\ UNCHANGED plan

Return(w) ==
  /\ pc' = [pc EXCEPT ![w] = "idle"]
  /\ plan' = [plan EXCEPT ![w] = NoPlan]

Fault(kind) == kind \in Faults /\ faults < MaxFaults /\ faults' = faults + 1

WriteStatus(s) == status' = s /\ UNCHANGED <<refundAmount, refundNo, deductOnSettle>>

\* prepDeduct: what to take back, from the asset as it is now.
ToDeduct(amount) ==
  IF orderType = "balance"
  THEN IF asset <= 0 THEN 0 ELSE IF asset < amount THEN asset ELSE amount
  ELSE IF asset > 0 THEN Amount ELSE 0

\* prepDeduct asks for force when it could not take back everything.
NeedsForce(amount) == IF orderType = "balance" THEN asset < amount ELSE asset <= 0

-----------------------------------------------------------------------------
(* The user asks for a refund.                                             *)

RequestRefund(w) ==
  /\ pc[w] = "idle"
  /\ orderType = "balance"
  /\ status = "COMPLETED"
  /\ asset >= Amount
  /\ Goto(w, "request")
  /\ UNCHANGED <<constVars, rowVars, assetVars, refunds, claimedFrom, faults>>

\* Mutant: the status is not looked at again.
SubmitRequestAnyway(w) ==
  /\ pc[w] = "request"
  /\ status' = "REFUND_REQUESTED"
  /\ refundAmount' = Amount
  /\ Return(w)
  /\ UNCHANGED <<constVars, refundNo, deductOnSettle, assetVars, refunds, claimedFrom, faults>>

SubmitRequest(w) ==
  /\ pc[w] = "request"
  /\ IF status = "COMPLETED"
     THEN /\ status' = "REFUND_REQUESTED"
          /\ refundAmount' = Amount
          /\ UNCHANGED <<refundNo, deductOnSettle>>
     ELSE UNCHANGED rowVars
  /\ Return(w)
  /\ UNCHANGED <<constVars, assetVars, refunds, claimedFrom, faults>>

-----------------------------------------------------------------------------
(* An administrator refunds: PrepareRefund, then ExecuteRefund.            *)

ReadOrder(w) ==
  /\ pc[w] = "idle"
  /\ status \in Initiable
  /\ pc' = [pc EXCEPT ![w] = "prepare"]
  /\ plan' = [plan EXCEPT ![w].from = status]
  /\ UNCHANGED <<constVars, rowVars, assetVars, refunds, claimedFrom, faults>>

\* Without force a refund that cannot be taken back in full is not carried out.
PrepareRefund(w) ==
  /\ pc[w] = "prepare"
  /\ \/ \E amount \in 1..Amount, take, force \in BOOLEAN :
          /\ take /\ NeedsForce(amount) => force
          /\ plan' = [plan EXCEPT ![w] =
                [@ EXCEPT !.amount = amount, !.take = take,
                          !.deduct = IF take THEN ToDeduct(amount) ELSE 0]]
          /\ pc' = [pc EXCEPT ![w] = "execute"]
     \/ NeedsForce(Amount) /\ Return(w)
  /\ UNCHANGED <<constVars, rowVars, assetVars, refunds, claimedFrom, faults>>

\* Mutant: the claim also accepts an order whose refund is being carried out.
ClaimRefundTwice(w) ==
  /\ pc[w] = "execute"
  /\ IF status \in Initiable \cup {"REFUNDING"}
     THEN /\ WriteStatus("REFUNDING")
          /\ claimedFrom' = IF status = "REFUNDING" THEN claimedFrom ELSE status
          /\ Goto(w, "gateway")
     ELSE Return(w) /\ UNCHANGED <<rowVars, claimedFrom>>
  /\ UNCHANGED <<constVars, assetVars, refunds, faults>>

\* Any of the initiable states will do, not only the one that was read.
ClaimRefund(w) ==
  /\ pc[w] = "execute"
  /\ IF status \in Initiable
     THEN /\ WriteStatus("REFUNDING")
          /\ claimedFrom' = status
          /\ Goto(w, "gateway")
     ELSE Return(w) /\ UNCHANGED <<rowVars, claimedFrom>>
  /\ UNCHANGED <<constVars, assetVars, refunds, faults>>

\* gwRefund without a payment_trade_no: no call, counted as a success.
SkipGateway(w) ==
  /\ pc[w] = "gateway"
  /\ ~traded
  /\ Goto(w, "settle")
  /\ UNCHANGED <<constVars, rowVars, assetVars, refunds, claimedFrom, faults>>

\* The gateway's side of Refund.  It never returns more than was paid.  A call
\* starts a refund of its own, except where the idempotency key (Stripe) makes
\* it the replay of an earlier call for the same amount.
Returned ==
  MapThenSumSet(LAMBDA i : refunds[i].amount,
                {i \in DOMAIN refunds : refunds[i].state # "failed"})

Accept(amount, r) ==
  \/ /\ Len(refunds) < MaxRefunds
     /\ Returned + amount <= Amount
     /\ r = Len(refunds) + 1
     /\ \E s \in {"pending", "done"} :
          refunds' = Append(refunds, [amount |-> amount, state |-> s])
  \/ /\ r \in DOMAIN refunds
     /\ refunds[r].amount = amount
     /\ UNCHANGED refunds

\* Mutant: drops the status of the answer, so that accepted means settled.
CallGatewayDropsStatus(w) ==
  /\ pc[w] = "gateway"
  /\ traded
  /\ \/ /\ \E r \in 1..MaxRefunds : Accept(plan[w].amount, r)
        /\ Goto(w, "settle")
     \/ Goto(w, "restore") /\ UNCHANGED refunds
  /\ UNCHANGED <<constVars, rowVars, assetVars, claimedFrom, faults>>

\* gwRefund: accepted and settled, accepted and pending (with a refund number or
\* without), refused, or an error that does not say whether it was accepted.
CallGateway(w) ==
  /\ pc[w] = "gateway"
  /\ traded
  /\ \/ /\ \E r \in 1..MaxRefunds :
             /\ Accept(plan[w].amount, r)
             /\ \/ refunds'[r].state = "done" /\ Goto(w, "settle")
                \/ \E no \in {0, r} : plan' = [plan EXCEPT ![w].refund = no]
                   /\ pc' = [pc EXCEPT ![w] = "pending_write"]
        /\ UNCHANGED faults
     \/ Goto(w, "restore") /\ UNCHANGED <<refunds, faults>>
     \/ /\ Fault("gateway")
        /\ \E r \in 1..MaxRefunds : Accept(plan[w].amount, r)
        /\ Goto(w, "restore")
  /\ UNCHANGED <<constVars, rowVars, assetVars, claimedFrom>>

\* restoreStatus: the status this request read, on no condition.
RestoreStatus(w) ==
  /\ pc[w] = "restore"
  /\ \/ WriteStatus(plan[w].from) /\ UNCHANGED faults
     \/ (Fault("cancelled") \/ Fault("database")) /\ UNCHANGED rowVars
  /\ Return(w)
  /\ UNCHANGED <<constVars, assetVars, refunds, claimedFrom>>

MarkRefundPending(w) ==
  /\ pc[w] = "pending_write"
  /\ \/ /\ status = "REFUNDING"
        /\ status' = "REFUND_PENDING"
        /\ refundAmount' = plan[w].amount
        /\ refundNo' = plan[w].refund
        /\ deductOnSettle' = plan[w].take
        /\ UNCHANGED faults
     \/ status # "REFUNDING" /\ UNCHANGED <<rowVars, faults>>
     \/ Fault("database") /\ UNCHANGED rowVars
  /\ Return(w)
  /\ UNCHANGED <<constVars, assetVars, refunds, claimedFrom>>

-----------------------------------------------------------------------------
(* The refund is confirmed: take back, then write the terminal status.     *)

\* Mutant: takes back and then opens the order for another attempt.
SettleAgain(w) ==
  /\ pc[w] = "settle"
  /\ IF plan[w].take /\ plan[w].deduct > 0
     THEN /\ asset' = asset - plan[w].deduct
          /\ deductions' = deductions + 1
          /\ deducted' = deducted + plan[w].deduct
          /\ Goto(w, "restore")
     ELSE Goto(w, "terminal") /\ UNCHANGED assetVars
  /\ UNCHANGED <<constVars, rowVars, refunds, claimedFrom, faults>>

\* applyRefundDeductions: a balance may go below zero, a subscription is revoked
\* instead; a deduction that fails is only reported.
ApplyDeductions(w) ==
  /\ pc[w] = "settle"
  /\ \/ /\ plan[w].take /\ plan[w].deduct > 0
        /\ asset' = IF orderType = "subscription" /\ asset < plan[w].deduct
                    THEN 0 ELSE asset - plan[w].deduct
        /\ deductions' = deductions + 1
        /\ deducted' = deducted + plan[w].deduct
        /\ UNCHANGED faults
     \/ /\ ~(plan[w].take /\ plan[w].deduct > 0)
        /\ UNCHANGED <<assetVars, faults>>
     \/ (Fault("cancelled") \/ Fault("database")) /\ UNCHANGED assetVars
  /\ Goto(w, "terminal")
  /\ UNCHANGED <<constVars, rowVars, refunds, claimedFrom>>

\* markRefundOk, detached from the request context and tried three times; the
\* row itself is not asked what it says.
MarkRefundOk(w) ==
  /\ pc[w] = "terminal"
  /\ \/ /\ status' = IF plan[w].amount < Amount THEN "PARTIALLY_REFUNDED" ELSE "REFUNDED"
        /\ refundAmount' = plan[w].amount
        /\ UNCHANGED <<refundNo, deductOnSettle, faults>>
     \/ Fault("database") /\ UNCHANGED rowVars
  /\ Return(w)
  /\ UNCHANGED <<constVars, assetVars, refunds, claimedFrom>>

-----------------------------------------------------------------------------
(* QueryAndFinalizeRefund.                                                 *)

\* The row is read; refund number, amount and deduction come from this copy.
ReadPending(w) ==
  /\ pc[w] = "idle"
  /\ status = "REFUND_PENDING"
  /\ refundNo # 0
  /\ pc' = [pc EXCEPT ![w] = "lock_query"]
  /\ plan' = [plan EXCEPT ![w] =
        [from |-> status, amount |-> refundAmount, take |-> deductOnSettle,
         deduct |-> 0, refund |-> refundNo]]
  /\ UNCHANGED <<constVars, rowVars, assetVars, refunds, claimedFrom, faults>>

LockPending(w) ==
  /\ pc[w] = "lock_query"
  /\ IF status = "REFUND_PENDING"
     THEN WriteStatus("REFUNDING") /\ Goto(w, "query")
     ELSE Return(w) /\ UNCHANGED rowVars
  /\ UNCHANGED <<constVars, assetVars, refunds, claimedFrom, faults>>

\* Mutant: "not found yet" is taken for "settled".
QueryRefundTrusts(w) ==
  /\ pc[w] = "query"
  /\ Goto(w, IF refunds[plan[w].refund].state = "failed" THEN "finalize_failed" ELSE "settlement")
  /\ UNCHANGED <<constVars, rowVars, assetVars, refunds, claimedFrom, faults>>

\* No answer, and no query at this provider, mean "still pending".
QueryRefund(w) ==
  /\ pc[w] = "query"
  /\ LET answer == refunds[plan[w].refund].state IN
     \/ answer = "pending" /\ Goto(w, "restore_pending") /\ UNCHANGED faults
     \/ answer = "failed" /\ Goto(w, "finalize_failed") /\ UNCHANGED faults
     \/ answer = "done" /\ Goto(w, "settlement") /\ UNCHANGED faults
     \/ (Fault("gateway") \/ Fault("cancelled")) /\ Goto(w, "restore_pending")
  /\ UNCHANGED <<constVars, rowVars, assetVars, refunds, claimedFrom>>

\* buildSettlementPlan, always with force.
BuildSettlementPlan(w) ==
  /\ pc[w] = "settlement"
  /\ plan' = [plan EXCEPT ![w].deduct = IF plan[w].take THEN ToDeduct(plan[w].amount) ELSE 0]
  /\ pc' = [pc EXCEPT ![w] = "settle"]
  /\ UNCHANGED <<constVars, rowVars, assetVars, refunds, claimedFrom, faults>>

FinalizeFailed(w) ==
  /\ pc[w] = "finalize_failed"
  /\ \/ WriteStatus("REFUND_FAILED") /\ Return(w) /\ UNCHANGED faults
     \/ Fault("database") /\ Goto(w, "restore_pending") /\ UNCHANGED rowVars
     \/ Fault("lost_commit") /\ Goto(w, "restore_pending") /\ WriteStatus("REFUND_FAILED")
  /\ UNCHANGED <<constVars, assetVars, refunds, claimedFrom>>

\* restore, with the context of the request.
RestorePending(w) ==
  /\ pc[w] = "restore_pending"
  /\ \/ status = "REFUNDING" /\ WriteStatus("REFUND_PENDING") /\ UNCHANGED faults
     \/ status # "REFUNDING" /\ UNCHANGED <<rowVars, faults>>
     \/ (Fault("cancelled") \/ Fault("database")) /\ UNCHANGED rowVars
  /\ Return(w)
  /\ UNCHANGED <<constVars, assetVars, refunds, claimedFrom>>

-----------------------------------------------------------------------------
(* The gateway settles, the user consumes, processes die.                  *)

GatewaySettles ==
  /\ \E i \in DOMAIN refunds, s \in {"done", "failed"} :
        /\ refunds[i].state = "pending"
        /\ refunds' = [refunds EXCEPT ![i].state = s]
  /\ UNCHANGED <<constVars, rowVars, assetVars, claimedFrom, faults, pc, plan>>

\* Use of the balance, or a day gone by.
Consume ==
  /\ asset > 0
  /\ asset' = asset - 1
  /\ UNCHANGED <<constVars, rowVars, deductions, deducted, refunds, claimedFrom, faults, pc, plan>>

Crash(w) ==
  /\ pc[w] # "idle"
  /\ Fault("crash")
  /\ Return(w)
  /\ UNCHANGED <<constVars, rowVars, assetVars, refunds, claimedFrom>>

Continue(w) ==
  \/ SubmitRequest(w)
  \/ PrepareRefund(w) \/ ClaimRefund(w) \/ SkipGateway(w) \/ CallGateway(w)
  \/ RestoreStatus(w) \/ MarkRefundPending(w)
  \/ ApplyDeductions(w) \/ MarkRefundOk(w)
  \/ LockPending(w) \/ QueryRefund(w) \/ BuildSettlementPlan(w)
  \/ FinalizeFailed(w) \/ RestorePending(w)

Next ==
  \/ \E w \in Workers :
       Continue(w) \/ RequestRefund(w) \/ ReadOrder(w) \/ ReadPending(w) \/ Crash(w)
  \/ GatewaySettles \/ Consume

Spec == Init /\ [][Next]_vars

-----------------------------------------------------------------------------
(* Properties.                                                             *)

\* One request at a time carries a refund out: the claims of ExecuteRefund and of
\* the query exclude each other, so nobody writes a status he does not own.
OneOwner ==
  \A u, v \in Workers :
    pc[u] \in Claimed => status = "REFUNDING" /\ (pc[v] \in Claimed => u = v)

\* However often a refund is retried, restored and queried, the user is charged
\* for it at most once.
DeductedOnce == deductions <= 1

\* Nothing is taken back before the gateway returned at least as much.
DeductionIsBacked ==
  deducted > 0 /\ traded =>
    \E i \in DOMAIN refunds :
      /\ refunds[i].state = "done"
      /\ orderType = "balance" => refunds[i].amount >= deducted

\* A refunded order was refunded: the gateway returned the amount it shows.
RefundedIsConfirmed ==
  status \in Terminal /\ traded =>
    \E i \in DOMAIN refunds : refunds[i].state = "done" /\ refunds[i].amount = refundAmount

\* Whatever fails, a lost commit included: before something is taken back or the
\* order is shown as refunded, the gateway has returned something.
ReturnedFirst ==
  traded /\ (deducted > 0 \/ status \in Terminal) =>
    \E i \in DOMAIN refunds : refunds[i].state = "done"

\* A refunded order is never opened again.
TerminalIsFinal == [][(status \in Terminal) => status' = status]_vars

\* Whatever answer a request gets, it does not leave the order in REFUNDING
\* (Faults = {"gateway"}: a crash or a lost connection may).
RefundingHasOwner == status = "REFUNDING" => \E w \in Workers : pc[w] \in Claimed

\* What the gateway has returned; without a payment there nothing waits for it.
ReturnedAmounts ==
  IF traded THEN {refunds[i].amount : i \in {j \in DOMAIN refunds : refunds[j].state = "done"}}
  ELSE 0..Amount

\* Claims, retries, restores and queries implement the refund of RefundOnce step by
\* step: the gateway returns, the user is charged once, the order shows it for good.
Once == INSTANCE RefundOnce WITH
  returned <- ReturnedAmounts,
  times <- deductions,
  taken <- IF orderType = "balance" THEN deducted ELSE 0,
  shown <- IF status \in Terminal THEN refundAmount ELSE 0

KeepsRefund == Once!Spec

\* The three statements below are made by comments of the code, which does not
\* keep them: MCPaymentRefund_inflight.cfg refutes the second, and the third when
\* it is given as its PROPERTY; MCPaymentRefund_safety.cfg likewise the first.

\* Every early return of the query puts the order back to REFUND_PENDING.
EarlyReturnRestores ==
  [][\A w \in Workers :
       pc[w] = "restore_pending" /\ pc'[w] = "idle" => status' # "REFUNDING"]_vars

\* No refund can be started while the gateway carries one out.
NoneInFlightWhenInitiable ==
  status \in Initiable => \A i \in DOMAIN refunds : refunds[i].state # "pending"

\* A refund the gateway refused leaves the order as it was before.
RefusalRestores ==
  [][\A w \in Workers : pc[w] = "restore" /\ status' # status => status' = claimedFrom]_vars

-----------------------------------------------------------------------------
\* Requests run to their end, the gateway settles, and an administrator goes on
\* querying a pending refund.
Fairness ==
  /\ \A w \in Workers : WF_vars(Continue(w))
  /\ WF_vars(GatewaySettles)
  /\ SF_vars(\E w \in Workers : ReadPending(w))

LiveSpec == Spec /\ Fairness

\* A pending refund the gateway can be asked about comes to an end.
PendingEnds ==
  status = "REFUND_PENDING" /\ refundNo # 0
    ~> status \in Terminal \cup {"REFUND_FAILED"}

=============================================================================
