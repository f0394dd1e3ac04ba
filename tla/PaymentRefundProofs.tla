------------------------ MODULE PaymentRefundProofs ------------------------
(***************************************************************************)
(* Proofs about PaymentRefund for any set of workers, any amount and any   *)
(* number of faults.  Most of them leave out one kind of fault: a          *)
(* REFUND_FAILED write that is committed while its answer is lost breaks   *)
(* the exclusion they rest on (README.md says how).  The invariants say    *)
(* what is true between the claim and the last write of a refund: who owns *)
(* the order, whether something was taken back, and which refund of the    *)
(* gateway the owner's plan speaks of.  The last section does without an   *)
(* owner and holds whatever fails.                                         *)
(***************************************************************************)
EXTENDS PaymentRefund, TLAPS

NoLostCommit == "lost_commit" \notin Faults

\* Something was taken back: then the refund is over, or its owner has only the
\* terminal write left, or nobody owns it any more.
TakenOnce ==
  /\ deductions <= 1
  /\ deductions = 1 =>
       \/ status \in Terminal
       \/ status = "REFUNDING" /\ \A w \in Workers : pc[w] \in Claimed => pc[w] = "terminal"

IInv == TypeOK /\ OneOwner /\ TakenOnce

\* The fulfilled order satisfies the invariant.
LEMMA InitIInv == Init => IInv
  <1> SUFFICES ASSUME Init PROVE IInv
    OBVIOUS
  <1> USE RefundAssumption DEF RefundAssumption, Init
  <1>1. TypeOK
    <2>1. pc \in [Workers -> Label]
      BY DEF Label
    <2>2. plan \in [Workers -> Plan]
      BY DEF Plan, NoPlan, Status, Initiable
    <2>3. traded \in BOOLEAN /\ deductOnSettle \in BOOLEAN
      BY Zenon
    <2>4. QED
      BY <2>1, <2>2, <2>3 DEF TypeOK, Status, Initiable, Refund
  <1>2. OneOwner /\ TakenOnce
    BY DEF OneOwner, TakenOnce, Claimed
  <1>3. QED
    BY <1>1, <1>2 DEF IInv

\* What a plan takes back is within the order's amount.
LEMMA ToDeductType ==
  ASSUME TypeOK, NEW amount \in 0..Amount
  PROVE  /\ ToDeduct(amount) \in 0..Amount
         /\ orderType = "balance" => ToDeduct(amount) <= amount
  BY RefundAssumption DEF TypeOK, ToDeduct, RefundAssumption

\* How a request goes on keeps the types of its step and its plan.
LEMMA GotoType ==
  ASSUME TypeOK, NEW w \in Workers, NEW l \in Label, Goto(w, l)
  PROVE  pc' \in [Workers -> Label] /\ plan' \in [Workers -> Plan]
  BY DEF TypeOK, Goto

LEMMA ReturnType ==
  ASSUME TypeOK, NEW w \in Workers, Return(w)
  PROVE  pc' \in [Workers -> Label] /\ plan' \in [Workers -> Plan]
  <1>1. NoPlan \in Plan
    BY RefundAssumption DEF RefundAssumption, NoPlan, Plan, Status, Initiable
  <1>2. "idle" \in Label
    BY DEF Label
  <1>3. QED
    BY <1>1, <1>2 DEF TypeOK, Return

LEMMA NewPlanType ==
  ASSUME TypeOK, NEW w \in Workers, NEW l \in Label, NEW p \in Plan,
         pc' = [pc EXCEPT ![w] = l], plan' = [plan EXCEPT ![w] = p]
  PROVE  pc' \in [Workers -> Label] /\ plan' \in [Workers -> Plan]
  BY DEF TypeOK

LEMMA FaultType ==
  ASSUME TypeOK, NEW kind, Fault(kind)
  PROVE  faults' \in 0..MaxFaults
  BY RefundAssumption DEF RefundAssumption, TypeOK, Fault

\* A step of any request, of the gateway or of the user keeps the types.
LEMMA StepTypeOK == TypeOK /\ [Next]_vars => TypeOK'
  <1> SUFFICES ASSUME TypeOK, [Next]_vars PROVE TypeOK'
    OBVIOUS
  <1> DEFINE WorkerType == pc \in [Workers -> Label] /\ plan \in [Workers -> Plan]
             FlagType == traded \in BOOLEAN /\ deductOnSettle \in BOOLEAN
             RowType == /\ orderType \in OrderTypes /\ status \in Status
                        /\ refundAmount \in 0..Amount /\ refundNo \in Nat
                        /\ asset \in Int /\ deductions \in Nat /\ deducted \in Nat
                        /\ claimedFrom \in Initiable /\ faults \in 0..MaxFaults
                        /\ refunds \in Seq(Refund)
  <1>1. ASSUME NEW w \in Workers, Continue(w) PROVE TypeOK'
    <2>1. CASE SubmitRequest(w)
      <3>1. WorkerType'
        BY <2>1, ReturnType DEF SubmitRequest, Label, Claimed
      <3>2. FlagType'
        BY <2>1, Zenon DEF SubmitRequest, FlagType, TypeOK, WriteStatus, rowVars, constVars
      <3>3. RowType'
        BY <2>1, FaultType, RefundAssumption DEF RefundAssumption, SubmitRequest, TypeOK, WriteStatus, rowVars, constVars, assetVars, Status, Initiable, Terminal, Plan
      <3>4. QED
        BY <3>1, <3>2, <3>3 DEF TypeOK
    <2>2. CASE PrepareRefund(w)
      <3>1. WorkerType'
        <4>1. ASSUME NEW amount \in 1..Amount, NEW take \in BOOLEAN,
                     plan' = [plan EXCEPT ![w] = [@ EXCEPT !.amount = amount, !.take = take,
                                !.deduct = IF take THEN ToDeduct(amount) ELSE 0]],
                     pc' = [pc EXCEPT ![w] = "execute"]
              PROVE  WorkerType'
          <5> DEFINE p == [plan[w] EXCEPT !.amount = amount, !.take = take,
                             !.deduct = IF take THEN ToDeduct(amount) ELSE 0]
          <5>1. amount \in 0..Amount /\ ToDeduct(amount) \in 0..Amount /\ 0 \in 0..Amount
            BY ToDeductType, RefundAssumption DEF RefundAssumption
          <5>2. p \in Plan
            BY <5>1 DEF TypeOK, Plan
          <5>3. plan' = [plan EXCEPT ![w] = p] /\ "execute" \in Label
            BY <4>1 DEF Label
          <5>4. QED
            BY <4>1, <5>2, <5>3, NewPlanType
        <4>2. QED
          BY <2>2, <4>1, ReturnType DEF PrepareRefund
      <3>2. FlagType'
        BY <2>2, Zenon DEF PrepareRefund, FlagType, TypeOK, WriteStatus, rowVars, constVars
      <3>3. RowType'
        BY <2>2, FaultType DEF PrepareRefund, TypeOK, WriteStatus, rowVars, constVars, assetVars, Status, Initiable, Terminal, Plan
      <3>4. QED
        BY <3>1, <3>2, <3>3 DEF TypeOK
    <2>3. CASE ClaimRefund(w)
      <3>1. WorkerType'
        BY <2>3, GotoType, ReturnType DEF ClaimRefund, Label, Claimed
      <3>2. FlagType'
        BY <2>3, Zenon DEF ClaimRefund, FlagType, TypeOK, WriteStatus, rowVars, constVars
      <3>3. RowType'
        BY <2>3, FaultType DEF ClaimRefund, TypeOK, WriteStatus, rowVars, constVars, assetVars, Status, Initiable, Terminal, Plan
      <3>4. QED
        BY <3>1, <3>2, <3>3 DEF TypeOK
    <2>4. CASE SkipGateway(w)
      <3>1. WorkerType'
        BY <2>4, GotoType DEF SkipGateway, Label, Claimed
      <3>2. FlagType'
        BY <2>4, Zenon DEF SkipGateway, FlagType, TypeOK, WriteStatus, rowVars, constVars
      <3>3. RowType'
        BY <2>4, FaultType DEF SkipGateway, TypeOK, WriteStatus, rowVars, constVars, assetVars, Status, Initiable, Terminal, Plan
      <3>4. QED
        BY <3>1, <3>2, <3>3 DEF TypeOK
    <2>5. CASE CallGateway(w)
      <3>1. WorkerType'
        <4>1. ASSUME NEW no \in Nat, plan' = [plan EXCEPT ![w].refund = no],
                     pc' = [pc EXCEPT ![w] = "pending_write"]
              PROVE  WorkerType'
          <5>1. [plan[w] EXCEPT !.refund = no] \in Plan
            BY DEF TypeOK, Plan
          <5>2. QED
            BY <4>1, <5>1, NewPlanType DEF Label, Claimed
        <4>2. ASSUME NEW r \in 1..MaxRefunds, NEW no \in {0, r} PROVE no \in Nat
          BY RefundAssumption DEF RefundAssumption
        <4>3. "settle" \in Label /\ "restore" \in Label
          BY DEF Label, Claimed
        <4>4. QED
          BY <2>5, <4>1, <4>2, <4>3, GotoType DEF CallGateway
      <3>2. FlagType'
        BY <2>5, Zenon DEF CallGateway, FlagType, TypeOK, WriteStatus, rowVars, constVars
      <3>3. RowType'
        <4>1. plan[w].amount \in 0..Amount
          BY DEF TypeOK, Plan
        <4>2. ASSUME NEW r \in 1..MaxRefunds, Accept(plan[w].amount, r)
              PROVE  refunds' \in Seq(Refund)
          <5>1. ASSUME NEW s \in {"pending", "done"}
                PROVE  [amount |-> plan[w].amount, state |-> s] \in Refund
            BY <4>1 DEF Refund
          <5>2. ASSUME NEW x \in Refund PROVE Append(refunds, x) \in Seq(Refund)
            BY DEF TypeOK
          <5>3. refunds' = refunds \/ \E x \in Refund : refunds' = Append(refunds, x)
            BY <4>2, <5>1, Zenon DEF Accept
          <5>4. QED
            BY <5>2, <5>3 DEF TypeOK
        <4>3. refunds' \in Seq(Refund)
          BY <2>5, <4>2 DEF CallGateway, TypeOK
        <4>4. faults' \in 0..MaxFaults
          BY <2>5, FaultType DEF CallGateway, TypeOK
        <4>5. QED
          BY <2>5, <4>3, <4>4 DEF CallGateway, TypeOK, rowVars, constVars, assetVars
      <3>4. QED
        BY <3>1, <3>2, <3>3 DEF TypeOK
    <2>6. CASE RestoreStatus(w)
      <3>1. WorkerType'
        BY <2>6, ReturnType DEF RestoreStatus, Label, Claimed
      <3>2. FlagType'
        BY <2>6, Zenon DEF RestoreStatus, FlagType, TypeOK, WriteStatus, rowVars, constVars
      <3>3. RowType'
        BY <2>6, FaultType DEF RestoreStatus, TypeOK, WriteStatus, rowVars, constVars, assetVars, Status, Initiable, Terminal, Plan
      <3>4. QED
        BY <3>1, <3>2, <3>3 DEF TypeOK
    <2>7. CASE MarkRefundPending(w)
      <3>1. WorkerType'
        BY <2>7, ReturnType DEF MarkRefundPending, Label, Claimed
      <3>2. FlagType'
        <4>1. plan[w].take \in BOOLEAN
          BY DEF TypeOK, Plan
        <4>2. QED
          BY <2>7, <4>1, Zenon DEF MarkRefundPending, TypeOK, rowVars, constVars
      <3>3. RowType'
        BY <2>7, FaultType DEF MarkRefundPending, TypeOK, WriteStatus, rowVars, constVars, assetVars, Status, Initiable, Terminal, Plan
      <3>4. QED
        BY <3>1, <3>2, <3>3 DEF TypeOK
    <2>8. CASE ApplyDeductions(w)
      <3>1. WorkerType'
        BY <2>8, GotoType DEF ApplyDeductions, Label, Claimed
      <3>2. FlagType'
        BY <2>8, Zenon DEF ApplyDeductions, FlagType, TypeOK, WriteStatus, rowVars, constVars
      <3>3. RowType'
        <4>1. plan[w].deduct \in Nat
          BY RefundAssumption DEF RefundAssumption, TypeOK, Plan
        <4>2. asset' \in Int /\ deductions' \in Nat /\ deducted' \in Nat
          BY <2>8, <4>1 DEF ApplyDeductions, TypeOK, assetVars
        <4>3. faults' \in 0..MaxFaults
          BY <2>8, FaultType DEF ApplyDeductions, TypeOK
        <4>4. QED
          BY <2>8, <4>2, <4>3 DEF ApplyDeductions, TypeOK, rowVars, constVars
      <3>4. QED
        BY <3>1, <3>2, <3>3 DEF TypeOK
    <2>9. CASE MarkRefundOk(w)
      <3>1. WorkerType'
        BY <2>9, ReturnType DEF MarkRefundOk, Label, Claimed
      <3>2. FlagType'
        BY <2>9, Zenon DEF MarkRefundOk, FlagType, TypeOK, WriteStatus, rowVars, constVars
      <3>3. RowType'
        BY <2>9, FaultType DEF MarkRefundOk, TypeOK, WriteStatus, rowVars, constVars, assetVars, Status, Initiable, Terminal, Plan
      <3>4. QED
        BY <3>1, <3>2, <3>3 DEF TypeOK
    <2>10. CASE LockPending(w)
      <3>1. WorkerType'
        BY <2>10, GotoType, ReturnType DEF LockPending, Label, Claimed
      <3>2. FlagType'
        BY <2>10, Zenon DEF LockPending, FlagType, TypeOK, WriteStatus, rowVars, constVars
      <3>3. RowType'
        BY <2>10, FaultType DEF LockPending, TypeOK, WriteStatus, rowVars, constVars, assetVars, Status, Initiable, Terminal, Plan
      <3>4. QED
        BY <3>1, <3>2, <3>3 DEF TypeOK
    <2>11. CASE QueryRefund(w)
      <3>1. WorkerType'
        <4>1. \E l \in {"restore_pending", "finalize_failed", "settlement"} : Goto(w, l)
          BY <2>11 DEF QueryRefund
        <4>2. QED
          BY <4>1, GotoType DEF Label, Claimed
      <3>2. FlagType'
        BY <2>11, Zenon DEF QueryRefund, FlagType, TypeOK, WriteStatus, rowVars, constVars
      <3>3. RowType'
        BY <2>11, FaultType DEF QueryRefund, TypeOK, WriteStatus, rowVars, constVars, assetVars, Status, Initiable, Terminal, Plan
      <3>4. QED
        BY <3>1, <3>2, <3>3 DEF TypeOK
    <2>12. CASE BuildSettlementPlan(w)
      <3>1. WorkerType'
        <4> DEFINE d == IF plan[w].take THEN ToDeduct(plan[w].amount) ELSE 0
        <4>1. plan[w].amount \in 0..Amount /\ 0 \in 0..Amount
          BY RefundAssumption DEF TypeOK, Plan, RefundAssumption
        <4>2. d \in 0..Amount
          BY <4>1, ToDeductType
        <4>3. [plan[w] EXCEPT !.deduct = d] \in Plan
          BY <4>2 DEF TypeOK, Plan
        <4>4. QED
          BY <2>12, <4>3, NewPlanType DEF BuildSettlementPlan, Label, Claimed
      <3>2. FlagType'
        BY <2>12, Zenon DEF BuildSettlementPlan, FlagType, TypeOK, WriteStatus, rowVars, constVars
      <3>3. RowType'
        BY <2>12, FaultType DEF BuildSettlementPlan, TypeOK, WriteStatus, rowVars, constVars, assetVars, Status, Initiable, Terminal, Plan
      <3>4. QED
        BY <3>1, <3>2, <3>3 DEF TypeOK
    <2>13. CASE FinalizeFailed(w)
      <3>1. WorkerType'
        BY <2>13, GotoType, ReturnType DEF FinalizeFailed, Label, Claimed
      <3>2. FlagType'
        BY <2>13, Zenon DEF FinalizeFailed, FlagType, TypeOK, WriteStatus, rowVars, constVars
      <3>3. RowType'
        BY <2>13, FaultType DEF FinalizeFailed, TypeOK, WriteStatus, rowVars, constVars, assetVars, Status, Initiable, Terminal, Plan
      <3>4. QED
        BY <3>1, <3>2, <3>3 DEF TypeOK
    <2>14. CASE RestorePending(w)
      <3>1. WorkerType'
        BY <2>14, ReturnType DEF RestorePending, Label, Claimed
      <3>2. FlagType'
        BY <2>14, Zenon DEF RestorePending, FlagType, TypeOK, WriteStatus, rowVars, constVars
      <3>3. RowType'
        BY <2>14, FaultType DEF RestorePending, TypeOK, WriteStatus, rowVars, constVars, assetVars, Status, Initiable, Terminal, Plan
      <3>4. QED
        BY <3>1, <3>2, <3>3 DEF TypeOK
    <2>15. QED
      BY <1>1, <2>1, <2>2, <2>3, <2>4, <2>5, <2>6, <2>7, <2>8, <2>9, <2>10,
         <2>11, <2>12, <2>13, <2>14 DEF Continue
  <1>2. ASSUME NEW w \in Workers, RequestRefund(w) \/ ReadOrder(w) \/ ReadPending(w) \/ Crash(w)
        PROVE TypeOK'
    <2>1. WorkerType'
      <3>1. CASE RequestRefund(w) \/ Crash(w)
        BY <3>1, GotoType, ReturnType DEF RequestRefund, Crash, Label
      <3>2. CASE ReadOrder(w)
        <4>1. [plan[w] EXCEPT !.from = status] \in Plan
          BY DEF TypeOK, Plan
        <4>2. QED
          BY <3>2, <4>1, NewPlanType DEF ReadOrder, Label
      <3>3. CASE ReadPending(w)
        <4> DEFINE p == [from |-> status, amount |-> refundAmount, take |-> deductOnSettle,
                         deduct |-> 0, refund |-> refundNo]
        <4>1. p \in Plan
          BY RefundAssumption DEF TypeOK, Plan, RefundAssumption
        <4>2. QED
          BY <3>3, <4>1, NewPlanType DEF ReadPending, Label
      <3>4. QED
        BY <1>2, <3>1, <3>2, <3>3
    <2>2. FlagType'
      BY <1>2, Zenon DEF RequestRefund, ReadOrder, ReadPending, Crash, TypeOK, rowVars, constVars
    <2>3. RowType'
      BY <1>2, FaultType
      DEF RequestRefund, ReadOrder, ReadPending, Crash, TypeOK, rowVars, constVars, assetVars
    <2>4. QED
      BY <2>1, <2>2, <2>3 DEF TypeOK
  <1>3. CASE GatewaySettles
    <2>1. refunds' \in Seq(Refund)
      <3>1. PICK i \in DOMAIN refunds, s \in {"done", "failed"} :
                   refunds' = [refunds EXCEPT ![i].state = s]
        BY <1>3 DEF GatewaySettles
      <3>2. refunds[i] \in Refund
        BY DEF TypeOK
      <3>3. [refunds[i] EXCEPT !.state = s] \in Refund
        BY <3>2 DEF Refund
      <3>4. QED
        BY <3>1, <3>3 DEF TypeOK
    <2>2. QED
      BY <1>3, <2>1 DEF GatewaySettles, TypeOK, rowVars, constVars, assetVars
  <1>4. CASE Consume
    BY <1>4 DEF Consume, TypeOK, rowVars, constVars
  <1>5. CASE UNCHANGED vars
    BY <1>5 DEF vars, TypeOK, rowVars, constVars, assetVars
  <1>6. QED
    BY <1>1, <1>2, <1>3, <1>4, <1>5 DEF Next

\* The claims exclude each other, and what was taken back is taken back once.
LEMMA StepIInv == NoLostCommit /\ IInv /\ [Next]_vars => IInv'
  <1> SUFFICES ASSUME NoLostCommit, IInv, [Next]_vars PROVE IInv'
    OBVIOUS
  <1>0. TypeOK'
    BY StepTypeOK DEF IInv
  <1>1. OneOwner' /\ TakenOnce'
    <2> USE DEF NoLostCommit, IInv, TypeOK, OneOwner, TakenOnce, Status, Initiable, Terminal,
          Label, Claimed, constVars, rowVars, assetVars, Goto, Return, Fault, WriteStatus
    <2>1. ASSUME NEW w \in Workers, Continue(w) PROVE OneOwner' /\ TakenOnce'
      <3>1. CASE SubmitRequest(w)
        BY <3>1 DEF SubmitRequest
      <3>2. CASE PrepareRefund(w)
        <4>1. pc' = [pc EXCEPT ![w] = "execute"] \/ pc' = [pc EXCEPT ![w] = "idle"]
          BY <3>2 DEF PrepareRefund
        <4>2. UNCHANGED <<rowVars, assetVars>> /\ pc[w] = "prepare"
          BY <3>2 DEF PrepareRefund
        <4>3. QED
          BY <4>1, <4>2
      <3>3. CASE ClaimRefund(w)
        BY <3>3 DEF ClaimRefund
      <3>4. CASE SkipGateway(w)
        BY <3>4 DEF SkipGateway
      <3>5. CASE CallGateway(w)
        BY <3>5 DEF CallGateway
      <3>6. CASE RestoreStatus(w)
        BY <3>6 DEF RestoreStatus
      <3>7. CASE MarkRefundPending(w)
        BY <3>7 DEF MarkRefundPending
      <3>8. CASE ApplyDeductions(w)
        BY <3>8 DEF ApplyDeductions
      <3>9. CASE MarkRefundOk(w)
        BY <3>9 DEF MarkRefundOk
      <3>10. CASE LockPending(w)
        BY <3>10 DEF LockPending
      <3>11. CASE QueryRefund(w)
        BY <3>11 DEF QueryRefund
      <3>12. CASE BuildSettlementPlan(w)
        BY <3>12 DEF BuildSettlementPlan
      <3>13. CASE FinalizeFailed(w)
        BY <3>13 DEF FinalizeFailed
      <3>14. CASE RestorePending(w)
        BY <3>14 DEF RestorePending
      <3>15. QED
        BY <2>1, <3>1, <3>2, <3>3, <3>4, <3>5, <3>6, <3>7, <3>8, <3>9, <3>10,
           <3>11, <3>12, <3>13, <3>14 DEF Continue
    <2>2. ASSUME NEW w \in Workers, RequestRefund(w) \/ ReadOrder(w) \/ ReadPending(w) \/ Crash(w)
          PROVE OneOwner' /\ TakenOnce'
      BY <2>2 DEF RequestRefund, ReadOrder, ReadPending, Crash
    <2>3. CASE GatewaySettles \/ Consume \/ UNCHANGED vars
      BY <2>3 DEF GatewaySettles, Consume, vars
    <2>4. QED
      BY <2>1, <2>2, <2>3 DEF Next
  <1>2. QED
    BY <1>0, <1>1 DEF IInv

\* Every reachable state satisfies the invariant.
LEMMA IInvHolds ==
  ASSUME NoLostCommit
  PROVE  Spec => []IInv
  <1>1. IInv /\ [Next]_vars => IInv'
    BY StepIInv
  <1>2. QED
    BY InitIInv, <1>1, PTL DEF Spec

\* One request at a time owns an order that is being refunded: the claim of
\* ExecuteRefund and the claim of the query exclude each other.
THEOREM RefundsAreExclusive ==
  ASSUME NoLostCommit
  PROVE  Spec => []OneOwner
  BY IInvHolds, PTL DEF IInv

\* The user is charged for a refund at most once.
THEOREM DeductionsHappenOnce ==
  ASSUME NoLostCommit
  PROVE  Spec => []DeductedOnce
  <1>1. IInv => DeductedOnce
    BY DEF IInv, TakenOnce, DeductedOnce
  <1>2. QED
    BY <1>1, IInvHolds, PTL

\* A refunded order is never opened again: only the owner of a REFUNDING order,
\* and the claims that require another status, write the row.
THEOREM RefundedStaysRefunded ==
  ASSUME NoLostCommit
  PROVE  Spec => TerminalIsFinal
  <1>1. IInv /\ [Next]_vars => (status \in Terminal => status' = status)
    <2> SUFFICES ASSUME IInv, [Next]_vars, status \in Terminal PROVE status' = status
      OBVIOUS
    <2> USE DEF IInv, OneOwner, Claimed, Initiable, Terminal, rowVars, WriteStatus
    <2>1. \A w \in Workers : pc[w] \notin Claimed
      OBVIOUS
    <2>2. ASSUME NEW w \in Workers, Continue(w) PROVE status' = status
      <3>1. CASE SubmitRequest(w) \/ PrepareRefund(w) \/ ClaimRefund(w) \/ LockPending(w)
        BY <3>1 DEF SubmitRequest, PrepareRefund, ClaimRefund, LockPending
      <3>2. CASE SkipGateway(w) \/ CallGateway(w) \/ RestoreStatus(w) \/ MarkRefundPending(w)
        BY <3>2, <2>1 DEF SkipGateway, CallGateway, RestoreStatus, MarkRefundPending
      <3>3. CASE ApplyDeductions(w) \/ MarkRefundOk(w) \/ QueryRefund(w) \/ BuildSettlementPlan(w)
        BY <3>3, <2>1 DEF ApplyDeductions, MarkRefundOk, QueryRefund, BuildSettlementPlan
      <3>4. CASE FinalizeFailed(w) \/ RestorePending(w)
        BY <3>4, <2>1 DEF FinalizeFailed, RestorePending
      <3>5. QED
        BY <2>2, <3>1, <3>2, <3>3, <3>4 DEF Continue
    <2>3. ASSUME NEW w \in Workers, RequestRefund(w) \/ ReadOrder(w) \/ ReadPending(w) \/ Crash(w)
          PROVE  status' = status
      BY <2>3 DEF RequestRefund, ReadOrder, ReadPending, Crash
    <2>4. CASE GatewaySettles \/ Consume \/ UNCHANGED vars
      BY <2>4 DEF GatewaySettles, Consume, vars
    <2>5. QED
      BY <2>2, <2>3, <2>4 DEF Next
  <1>2. QED
    BY IInvHolds, <1>1, PTL DEF Spec, TerminalIsFinal

\* The state stays within its types, whatever fails.
THEOREM TypeCorrect == Spec => []TypeOK
  <1>1. Init => TypeOK
    BY InitIInv DEF IInv
  <1>2. QED
    BY <1>1, StepTypeOK, PTL DEF Spec

-----------------------------------------------------------------------------
(* What the gateway confirmed.                                             *)

\* The gateway's refund r is one of a, and it has returned a.
Names(r, a) == r \in DOMAIN refunds /\ refunds[r].amount = a
Confirmed(a) == \E i \in DOMAIN refunds : refunds[i].state = "done" /\ refunds[i].amount = a

\* The requests that act for ExecuteRefund, not for the query.
Refunding == {"prepare", "execute", "gateway", "restore", "pending_write"}

\* Every plan takes back at most what it returns, none would put the order back
\* to a terminal status or a new refund to REFUND_PENDING, and the refund number it carries is of its amount.
PlansAgree ==
  \A w \in Workers :
    /\ orderType = "balance" => plan[w].deduct <= plan[w].amount
    /\ plan[w].from \notin Terminal
    /\ pc[w] \in Refunding => plan[w].from # "REFUND_PENDING"
    /\ pc[w] \in {"lock_query", "query"} => Names(plan[w].refund, plan[w].amount)
    /\ pc[w] = "pending_write" /\ plan[w].refund # 0 => Names(plan[w].refund, plan[w].amount)
    /\ pc[w] \in {"settlement", "settle", "terminal"} /\ traded => Confirmed(plan[w].amount)

\* The row of a pending refund, also while a query owns it, names its refund.
RowAgrees ==
  /\ refundNo # 0 /\ ( \/ status = "REFUND_PENDING"
                       \/ \E w \in Workers : pc[w] \in {"query", "finalize_failed", "restore_pending"} )
       => Names(refundNo, refundAmount)
  /\ deductions = 0 => deducted = 0

BInv == PlansAgree /\ RowAgrees /\ DeductionIsBacked /\ RefundedIsConfirmed

\* The gateway forgets no refund, and what it has returned stays returned.
LEMMA RefundsGrow ==
  ASSUME TypeOK, [Next]_vars
  PROVE  \A i \in DOMAIN refunds :
           /\ i \in DOMAIN refunds' /\ refunds'[i].amount = refunds[i].amount
           /\ refunds[i].state = "done" => refunds'[i].state = "done"
  <1> DEFINE Grow == \A i \in DOMAIN refunds :
                       /\ i \in DOMAIN refunds' /\ refunds'[i].amount = refunds[i].amount
                       /\ refunds[i].state = "done" => refunds'[i].state = "done"
  <1>1. ASSUME NEW x \in Refund, refunds' = Append(refunds, x) PROVE Grow
    BY <1>1 DEF TypeOK
  <1>2. ASSUME NEW w \in Workers, CallGateway(w) PROVE Grow
    <2>1. plan[w].amount \in 0..Amount
      BY DEF TypeOK, Plan
    <2>2. ASSUME NEW s \in {"pending", "done"}
          PROVE  [amount |-> plan[w].amount, state |-> s] \in Refund
      BY <2>1 DEF Refund
    <2>3. (\E r \in 1..MaxRefunds : Accept(plan[w].amount, r)) \/ UNCHANGED refunds
      BY <1>2 DEF CallGateway
    <2>4. UNCHANGED refunds \/ \E x \in Refund : refunds' = Append(refunds, x)
      BY <2>2, <2>3, Zenon DEF Accept
    <2>5. QED
      BY <1>1, <2>4
  <1>3. CASE GatewaySettles
    <2>1. PICK i \in DOMAIN refunds, s \in {"done", "failed"} :
                 refunds[i].state = "pending" /\ refunds' = [refunds EXCEPT ![i].state = s]
      BY <1>3 DEF GatewaySettles
    <2>2. refunds[i] \in Refund /\ refunds' = [refunds EXCEPT ![i] = [@ EXCEPT !.state = s]]
      BY <2>1 DEF TypeOK
    <2>3. QED
      BY <2>1, <2>2 DEF TypeOK, Refund
  <1>4. CASE UNCHANGED refunds
    BY <1>4
  <1>5. (\E w \in Workers : CallGateway(w)) \/ GatewaySettles \/ UNCHANGED refunds
    BY DEF Next, vars, Continue, SubmitRequest, PrepareRefund, ClaimRefund, SkipGateway,
       RestoreStatus, MarkRefundPending, ApplyDeductions, MarkRefundOk, LockPending,
       QueryRefund, BuildSettlementPlan, FinalizeFailed, RestorePending, RequestRefund,
       ReadOrder, ReadPending, Crash, Consume
  <1>6. QED
    BY <1>2, <1>3, <1>4, <1>5

\* So what a plan or a row says about the gateway's refunds stays true.
LEMMA Persist ==
  ASSUME TypeOK, [Next]_vars, NEW r, NEW a
  PROVE  /\ Names(r, a) => Names(r, a)'
         /\ Confirmed(a) => Confirmed(a)'
  BY RefundsGrow DEF Names, Confirmed

\* The call that is accepted names the refund it was accepted as.
LEMMA AcceptNames ==
  ASSUME TypeOK, NEW a \in 0..Amount, NEW r \in 1..MaxRefunds, Accept(a, r)
  PROVE  Names(r, a)'
  <1>1. ASSUME NEW s \in {"pending", "done"}, r = Len(refunds) + 1,
               refunds' = Append(refunds, [amount |-> a, state |-> s])
        PROVE  Names(r, a)'
    <2>1. [amount |-> a, state |-> s] \in Refund
      BY DEF Refund
    <2>2. refunds'[r] = [amount |-> a, state |-> s] /\ r \in DOMAIN refunds'
      BY <1>1, <2>1 DEF TypeOK
    <2>3. QED
      BY <2>2 DEF Names
  <1>2. QED
    BY <1>1 DEF Accept, Names

\* A plan no step of its request changes goes on agreeing with the gateway.
PlanAgrees(w) ==
  /\ orderType = "balance" => plan[w].deduct <= plan[w].amount
  /\ plan[w].from \notin Terminal
  /\ pc[w] \in Refunding => plan[w].from # "REFUND_PENDING"
  /\ pc[w] \in {"lock_query", "query"} => Names(plan[w].refund, plan[w].amount)
  /\ pc[w] = "pending_write" /\ plan[w].refund # 0 => Names(plan[w].refund, plan[w].amount)
  /\ pc[w] \in {"settlement", "settle", "terminal"} /\ traded => Confirmed(plan[w].amount)

LEMMA PlanPersists ==
  ASSUME TypeOK, [Next]_vars, NEW w \in Workers, PlanAgrees(w),
         plan'[w] = plan[w], UNCHANGED constVars,
         pc'[w] \in Refunding => pc[w] \in Refunding,
         pc'[w] \in {"lock_query", "query"} => pc[w] \in {"lock_query", "query"},
         pc'[w] = "pending_write" => pc[w] = "pending_write",
         pc'[w] \in {"settlement", "settle", "terminal"} /\ traded
           => pc[w] \in {"settlement", "settle", "terminal"}
  PROVE  PlanAgrees(w)'
  <1> DEFINE r == plan[w].refund
             a == plan[w].amount
  <1>1. Names(r, a) => r \in DOMAIN refunds' /\ refunds'[r].amount = a
    BY Persist DEF Names
  <1>2. Confirmed(a) => \E i \in DOMAIN refunds' : refunds'[i].state = "done" /\ refunds'[i].amount = a
    BY RefundsGrow DEF Confirmed
  <1>3. QED
    BY <1>1, <1>2 DEF PlanAgrees, Names, Confirmed, constVars

\* A request that returns has no plan to agree.
LEMMA ReturnAgrees ==
  ASSUME TypeOK, NEW w \in Workers, Return(w)
  PROVE  PlanAgrees(w)'
  BY DEF TypeOK, Return, PlanAgrees, NoPlan, Terminal, Refunding

\* Every step keeps every plan in agreement.
LEMMA StepPlans == IInv /\ BInv /\ [Next]_vars => PlansAgree'
  <1> SUFFICES ASSUME IInv, BInv, [Next]_vars, NEW v \in Workers PROVE PlanAgrees(v)'
    BY DEF PlansAgree, PlanAgrees
  <1> USE DEF Refunding
  <1>1. TypeOK /\ PlanAgrees(v)
    BY DEF IInv, BInv, PlansAgree, PlanAgrees
  <1>2. UNCHANGED constVars
    BY DEF Next, vars, Continue, SubmitRequest, PrepareRefund, ClaimRefund, SkipGateway,
       CallGateway, RestoreStatus, MarkRefundPending, ApplyDeductions, MarkRefundOk,
       LockPending, QueryRefund, BuildSettlementPlan, FinalizeFailed, RestorePending,
       RequestRefund, ReadOrder, ReadPending, Crash, GatewaySettles, Consume
  <1>3. CASE pc'[v] = pc[v] /\ plan'[v] = plan[v]
    BY <1>1, <1>2, <1>3, PlanPersists
  <1>4. CASE Return(v)
    BY <1>1, <1>4, ReturnAgrees
  <1>5. ASSUME NEW l \in Label, Goto(v, l), l \notin {"lock_query", "query", "pending_write"},
               l \in Refunding => pc[v] \in Refunding,
               l \in {"settlement", "settle", "terminal"} /\ traded
                 => pc[v] \in {"settlement", "settle", "terminal"}
        PROVE  PlanAgrees(v)'
    <2>1. pc'[v] = l /\ plan'[v] = plan[v]
      BY <1>1, <1>5 DEF Goto, TypeOK
    <2>2. QED
      BY <1>1, <1>2, <1>5, <2>1, PlanPersists
  <1>6. CASE PrepareRefund(v)
    <2>1. ASSUME NEW amount \in 1..Amount, NEW take \in BOOLEAN,
                 plan' = [plan EXCEPT ![v] = [@ EXCEPT !.amount = amount, !.take = take,
                            !.deduct = IF take THEN ToDeduct(amount) ELSE 0]],
                 pc' = [pc EXCEPT ![v] = "execute"]
          PROVE  PlanAgrees(v)'
      <3>1. pc'[v] = "execute" /\ pc[v] = "prepare"
        BY <1>1, <1>6, <2>1 DEF TypeOK, PrepareRefund
      <3>2. /\ plan'[v].from = plan[v].from /\ plan'[v].amount = amount
            /\ plan'[v].deduct = IF take THEN ToDeduct(amount) ELSE 0
        BY <1>1, <2>1 DEF TypeOK, Plan
      <3>3. amount \in 0..Amount /\ 0 <= amount
        BY RefundAssumption DEF RefundAssumption
      <3>4. orderType' = "balance" => plan'[v].deduct <= plan'[v].amount
        BY <1>1, <1>2, <3>2, <3>3, ToDeductType DEF constVars
      <3>5. QED
        BY <1>1, <3>1, <3>2, <3>4 DEF PlanAgrees
    <2>2. QED
      BY <1>4, <1>6, <2>1 DEF PrepareRefund
  <1>7. CASE CallGateway(v)
    <2> DEFINE a == plan[v].amount
    <2>1. a \in 0..Amount
      BY <1>1 DEF TypeOK, Plan
    <2>2. ASSUME NEW r \in 1..MaxRefunds, Accept(a, r), refunds'[r].state = "done", Goto(v, "settle")
          PROVE  PlanAgrees(v)'
      <3>1. pc'[v] = "settle" /\ plan'[v] = plan[v]
        BY <1>1, <2>2 DEF Goto, TypeOK
      <3>2. r \in DOMAIN refunds' /\ refunds'[r].amount = a
        BY <1>1, <2>1, <2>2, AcceptNames DEF Names
      <3>3. QED
        BY <1>1, <1>2, <2>2, <3>1, <3>2 DEF PlanAgrees, Confirmed, constVars
    <2>3. ASSUME NEW r \in 1..MaxRefunds, Accept(a, r), NEW no \in {0, r},
                 plan' = [plan EXCEPT ![v].refund = no], pc' = [pc EXCEPT ![v] = "pending_write"]
          PROVE  PlanAgrees(v)'
      <3>1. pc'[v] = "pending_write" /\ pc[v] = "gateway"
        BY <1>1, <1>7, <2>3 DEF TypeOK, CallGateway
      <3>2. /\ plan'[v].from = plan[v].from /\ plan'[v].amount = a
            /\ plan'[v].deduct = plan[v].deduct /\ plan'[v].refund = no
        BY <1>1, <2>3 DEF TypeOK, Plan
      <3>3. r \in DOMAIN refunds' /\ refunds'[r].amount = a
        BY <1>1, <2>1, <2>3, AcceptNames DEF Names
      <3>4. QED
        BY <1>1, <1>2, <3>1, <3>2, <3>3 DEF PlanAgrees, Names, constVars
    <2>4. CASE Goto(v, "restore")
      BY <1>5, <1>7, <2>4 DEF CallGateway, Label, Claimed
    <2>5. QED
      BY <1>7, <2>2, <2>3, <2>4 DEF CallGateway
  <1>8. CASE QueryRefund(v)
    <2>1. CASE Goto(v, "restore_pending") \/ Goto(v, "finalize_failed")
      BY <1>5, <2>1 DEF Label, Claimed
    <2>2. CASE refunds[plan[v].refund].state = "done" /\ Goto(v, "settlement") /\ UNCHANGED refunds
      <3>1. pc'[v] = "settlement" /\ plan'[v] = plan[v]
        BY <1>1, <2>2 DEF Goto, TypeOK
      <3>2. Names(plan[v].refund, plan[v].amount)
        BY <1>1, <1>8 DEF PlanAgrees, QueryRefund
      <3>3. QED
        BY <1>1, <1>2, <2>2, <3>1, <3>2 DEF PlanAgrees, Names, Confirmed, constVars
    <2>3. QED
      BY <1>8, <2>1, <2>2 DEF QueryRefund
  <1>9. CASE BuildSettlementPlan(v)
    <2> DEFINE d == IF plan[v].take THEN ToDeduct(plan[v].amount) ELSE 0
    <2>1. plan[v].amount \in 0..Amount /\ 0 <= plan[v].amount
      BY <1>1, RefundAssumption DEF TypeOK, Plan, RefundAssumption
    <2>2. orderType = "balance" => d <= plan[v].amount
      BY <1>1, <2>1, ToDeductType
    <2>3. pc'[v] = "settle" /\ pc[v] = "settlement"
      BY <1>1, <1>9 DEF TypeOK, BuildSettlementPlan
    <2>4. /\ plan'[v].from = plan[v].from /\ plan'[v].amount = plan[v].amount
          /\ plan'[v].deduct = d /\ refunds' = refunds
      BY <1>1, <1>9 DEF TypeOK, Plan, BuildSettlementPlan
    <2>5. QED
      BY <1>1, <1>2, <2>2, <2>3, <2>4 DEF PlanAgrees, Confirmed, constVars
  <1>10. CASE ReadOrder(v)
    <2>1. pc'[v] = "prepare"
      BY <1>1, <1>10 DEF TypeOK, ReadOrder
    <2>2. /\ plan'[v].from = status /\ plan'[v].amount = plan[v].amount
          /\ plan'[v].deduct = plan[v].deduct
      BY <1>1, <1>10 DEF TypeOK, Plan, ReadOrder
    <2>3. status \notin Terminal /\ status # "REFUND_PENDING"
      BY <1>10 DEF ReadOrder, Initiable, Terminal
    <2>4. QED
      BY <1>1, <1>2, <2>1, <2>2, <2>3 DEF PlanAgrees, constVars
  <1>11. CASE ReadPending(v)
    <2>1. pc'[v] = "lock_query" /\ refunds' = refunds
      BY <1>1, <1>11 DEF TypeOK, ReadPending
    <2>2. plan'[v] = [from |-> status, amount |-> refundAmount, take |-> deductOnSettle,
                      deduct |-> 0, refund |-> refundNo]
      BY <1>1, <1>11 DEF TypeOK, ReadPending
    <2>3. status = "REFUND_PENDING" /\ Names(refundNo, refundAmount) /\ 0 <= refundAmount
      BY <1>1, <1>11 DEF ReadPending, BInv, RowAgrees, TypeOK
    <2>4. QED
      BY <2>1, <2>2, <2>3 DEF PlanAgrees, Names, Terminal
  <1>12. CASE LockPending(v)
    <2>1. ASSUME Goto(v, "query"), pc[v] = "lock_query" PROVE PlanAgrees(v)'
      <3>1. pc'[v] = "query" /\ plan'[v] = plan[v]
        BY <1>1, <2>1 DEF Goto, TypeOK
      <3>2. QED
        BY <1>1, <1>2, <2>1, <3>1, PlanPersists
    <2>2. QED
      BY <1>4, <1>12, <2>1 DEF LockPending
  <1>13. ASSUME NEW w \in Workers, w # v,
                Continue(w) \/ RequestRefund(w) \/ ReadOrder(w) \/ ReadPending(w) \/ Crash(w)
         PROVE  pc'[v] = pc[v] /\ plan'[v] = plan[v]
    BY <1>1, <1>13
    DEF TypeOK, Goto, Return, Continue, SubmitRequest, PrepareRefund, ClaimRefund, SkipGateway,
        CallGateway, RestoreStatus, MarkRefundPending, ApplyDeductions, MarkRefundOk,
        LockPending, QueryRefund, BuildSettlementPlan, FinalizeFailed, RestorePending,
        RequestRefund, ReadOrder, ReadPending, Crash
  <1>14. CASE Continue(v) \/ RequestRefund(v) \/ Crash(v)
    <2>1. CASE SubmitRequest(v) \/ RestoreStatus(v) \/ MarkRefundPending(v) \/ MarkRefundOk(v)
            \/ RestorePending(v) \/ Crash(v)
      BY <1>4, <2>1 DEF SubmitRequest, RestoreStatus, MarkRefundPending, MarkRefundOk,
         RestorePending, Crash
    <2>2. CASE RequestRefund(v) \/ ClaimRefund(v)
      BY <1>4, <1>5, <2>2 DEF RequestRefund, ClaimRefund, Label, Claimed
    <2>3. CASE SkipGateway(v)
      BY <1>5, <2>3 DEF SkipGateway, Label, Claimed
    <2>4. CASE ApplyDeductions(v)
      BY <1>5, <2>4 DEF ApplyDeductions, Label, Claimed
    <2>5. CASE FinalizeFailed(v)
      BY <1>4, <1>5, <2>5 DEF FinalizeFailed, Label, Claimed
    <2>6. QED
      BY <1>6, <1>7, <1>8, <1>9, <1>12, <1>14, <2>1, <2>2, <2>3, <2>4, <2>5 DEF Continue
  <1>15. CASE GatewaySettles \/ Consume \/ UNCHANGED vars
    BY <1>3, <1>15 DEF GatewaySettles, Consume, vars
  <1>16. QED
    BY <1>3, <1>10, <1>11, <1>13, <1>14, <1>15 DEF Next

\* The requests whose next write is to a row they claimed from REFUND_PENDING.
Querying == {"query", "finalize_failed", "restore_pending"}

LEMMA StepRow == IInv /\ BInv /\ [Next]_vars => RowAgrees'
  <1> SUFFICES ASSUME IInv, BInv, [Next]_vars PROVE RowAgrees'
    OBVIOUS
  <1>1. TypeOK /\ OneOwner /\ TakenOnce /\ PlansAgree /\ RowAgrees
    BY DEF IInv, BInv
  <1> DEFINE Speaks == refundNo # 0 /\ (status = "REFUND_PENDING" \/ \E w \in Workers : pc[w] \in Querying)
  <1>2. ASSUME UNCHANGED <<refundNo, refundAmount>>, Speaks' => Speaks
        PROVE  Speaks' => Names(refundNo, refundAmount)'
    <2>1. Speaks => Names(refundNo, refundAmount)
      BY <1>1 DEF RowAgrees, Querying
    <2>2. Names(refundNo, refundAmount) => Names(refundNo, refundAmount)'
      BY <1>1, <1>2, RefundsGrow DEF Names
    <2>3. QED
      BY <1>2, <2>1, <2>2
  <1>3. ASSUME deductions' = deductions /\ deducted' = deducted, Speaks' => Names(refundNo, refundAmount)'
        PROVE  RowAgrees'
    BY <1>1, <1>3 DEF RowAgrees, Querying
  <1>4. ASSUME UNCHANGED <<rowVars, deductions, deducted>>,
               \A w \in Workers : pc'[w] \in Querying => pc[w] \in Querying
        PROVE  RowAgrees'
    <2>1. UNCHANGED <<refundNo, refundAmount>> /\ (Speaks' => Speaks)
      BY <1>4 DEF rowVars
    <2>2. QED
      BY <1>2, <1>3, <1>4, <2>1
  <1>5. ASSUME NEW w \in Workers, pc[w] \in Claimed
        PROVE  status = "REFUNDING" /\ \A v \in Workers : v # w => pc[v] \notin Claimed
    BY <1>1, <1>5 DEF OneOwner
  <1>6. ASSUME status \notin {"REFUNDING", "REFUND_PENDING"}, NEW s \in Status,
               status' = s, s # "REFUND_PENDING", assetVars' = assetVars,
               \A w \in Workers : pc'[w] \in Querying => pc[w] \in Querying
        PROVE  RowAgrees'
    <2>1. \A w \in Workers : pc[w] \notin Querying
      BY <1>5, <1>6 DEF Claimed, Querying
    <2>2. QED
      BY <1>3, <1>6, <2>1 DEF assetVars
  <1>7. ASSUME NEW w \in Workers, Continue(w) PROVE RowAgrees'
    <2> USE DEF Querying
    <2>1. CASE SubmitRequest(w)
      BY <1>1, <1>4, <1>6, <2>1
      DEF SubmitRequest, Return, TypeOK, assetVars, Status, Initiable, rowVars
    <2>2. CASE PrepareRefund(w)
      <3>1. pc' = [pc EXCEPT ![w] = "execute"] \/ pc' = [pc EXCEPT ![w] = "idle"]
        BY <2>2 DEF PrepareRefund, Return
      <3>2. QED
        BY <1>1, <1>4, <2>2, <3>1 DEF PrepareRefund, TypeOK, assetVars
    <2>3. CASE ClaimRefund(w)
      BY <1>1, <1>4, <1>6, <2>3
      DEF ClaimRefund, WriteStatus, Goto, Return, TypeOK, assetVars, Status, Initiable
    <2>4. CASE SkipGateway(w) \/ BuildSettlementPlan(w)
      BY <1>1, <1>4, <2>4 DEF SkipGateway, BuildSettlementPlan, Goto, TypeOK, assetVars
    <2>5. CASE CallGateway(w)
      <3>1. \E l \in {"settle", "pending_write", "restore"} : pc' = [pc EXCEPT ![w] = l]
        BY <2>5 DEF CallGateway, Goto
      <3>2. QED
        BY <1>1, <1>4, <2>5, <3>1 DEF CallGateway, TypeOK, assetVars
    <2>6. CASE RestoreStatus(w)
      <3>1. \A v \in Workers : pc'[v] \notin Querying
        BY <1>1, <1>5, <2>6 DEF RestoreStatus, Return, TypeOK, Claimed
      <3>2. CASE WriteStatus(plan[w].from)
        <4>1. plan[w].from # "REFUND_PENDING"
          BY <1>1, <2>6 DEF PlansAgree, RestoreStatus, Refunding
        <4>2. QED
          BY <1>3, <2>6, <3>1, <3>2, <4>1 DEF RestoreStatus, WriteStatus, assetVars
      <3>3. QED
        BY <1>1, <1>4, <2>6, <3>1, <3>2 DEF RestoreStatus, assetVars
    <2>7. CASE MarkRefundPending(w)
      <3>1. \A v \in Workers : pc'[v] \notin Querying
        BY <1>1, <1>5, <2>7 DEF MarkRefundPending, Return, TypeOK, Claimed
      <3>2. CASE refundAmount' = plan[w].amount /\ refundNo' = plan[w].refund
        <4>1. plan[w].refund # 0 => Names(plan[w].refund, plan[w].amount)
          BY <1>1, <2>7 DEF PlansAgree, MarkRefundPending
        <4>2. refundNo' # 0 => Names(refundNo, refundAmount)'
          BY <2>7, <3>2, <4>1 DEF MarkRefundPending, Names
        <4>3. QED
          BY <1>3, <2>7, <4>2 DEF MarkRefundPending, assetVars
      <3>3. CASE UNCHANGED rowVars
        BY <1>4, <2>7, <3>1, <3>3 DEF MarkRefundPending, assetVars
      <3>4. QED
        BY <2>7, <3>2, <3>3 DEF MarkRefundPending
    <2>8. CASE ApplyDeductions(w)
      <3>1. UNCHANGED rowVars /\ \A v \in Workers : pc'[v] \in Querying => pc[v] \in Querying
        BY <1>1, <2>8 DEF ApplyDeductions, Goto, TypeOK
      <3>2. CASE UNCHANGED assetVars
        BY <1>4, <3>1, <3>2 DEF assetVars
      <3>3. CASE deductions' = deductions + 1
        <4>1. Speaks' => Names(refundNo, refundAmount)'
          BY <1>2, <3>1 DEF rowVars
        <4>2. deductions' # 0
          BY <1>1, <3>3 DEF TypeOK
        <4>3. QED
          BY <4>1, <4>2 DEF RowAgrees
      <3>4. QED
        BY <2>8, <3>2, <3>3 DEF ApplyDeductions
    <2>9. CASE MarkRefundOk(w)
      <3>1. \A v \in Workers : pc'[v] \notin Querying
        BY <1>1, <1>5, <2>9 DEF MarkRefundOk, Return, TypeOK, Claimed
      <3>2. status' # "REFUND_PENDING"
        BY <1>5, <2>9 DEF MarkRefundOk, Claimed, rowVars
      <3>3. QED
        BY <1>3, <2>9, <3>1, <3>2 DEF MarkRefundOk, assetVars
    <2>10. CASE LockPending(w)
      <3>1. CASE status = "REFUND_PENDING"
        BY <1>2, <1>3, <2>10, <3>1 DEF LockPending, WriteStatus, assetVars
      <3>2. CASE status # "REFUND_PENDING"
        BY <1>1, <1>4, <2>10, <3>2 DEF LockPending, Return, TypeOK, assetVars
      <3>3. QED
        BY <3>1, <3>2
    <2>11. CASE QueryRefund(w)
      <3>1. \E l \in {"restore_pending", "finalize_failed", "settlement"} : pc' = [pc EXCEPT ![w] = l]
        BY <2>11 DEF QueryRefund, Goto
      <3>2. UNCHANGED <<rowVars, assetVars>> /\ pc[w] = "query"
        BY <2>11 DEF QueryRefund
      <3>3. QED
        BY <1>1, <1>4, <3>1, <3>2 DEF TypeOK, assetVars
    <2>12. CASE FinalizeFailed(w) \/ RestorePending(w)
      <3>1. pc[w] \in Querying /\ UNCHANGED <<refundNo, refundAmount, deductions, deducted>>
        BY <2>12 DEF FinalizeFailed, RestorePending, WriteStatus, rowVars, assetVars
      <3>2. Speaks' => Speaks
        BY <3>1
      <3>3. QED
        BY <1>2, <1>3, <3>1, <3>2
    <2>13. QED
      BY <1>7, <2>1, <2>2, <2>3, <2>4, <2>5, <2>6, <2>7, <2>8, <2>9, <2>10, <2>11, <2>12
      DEF Continue
  <1>8. ASSUME NEW w \in Workers, RequestRefund(w) \/ ReadOrder(w) \/ ReadPending(w) \/ Crash(w)
        PROVE  RowAgrees'
    BY <1>1, <1>4, <1>8
    DEF RequestRefund, ReadOrder, ReadPending, Crash, Goto, Return, TypeOK, Querying, assetVars
  <1>9. CASE GatewaySettles \/ Consume \/ UNCHANGED vars
    BY <1>4, <1>9 DEF GatewaySettles, Consume, vars, rowVars, assetVars
  <1>10. QED
    BY <1>7, <1>8, <1>9 DEF Next

\* What was taken back, and what a refunded order shows, the gateway has confirmed.
LEMMA StepConfirmed ==
  IInv /\ BInv /\ [Next]_vars => DeductionIsBacked' /\ RefundedIsConfirmed'
  <1> SUFFICES ASSUME IInv, BInv, [Next]_vars PROVE DeductionIsBacked' /\ RefundedIsConfirmed'
    OBVIOUS
  <1>1. /\ TypeOK /\ OneOwner /\ TakenOnce /\ PlansAgree /\ RowAgrees
        /\ DeductionIsBacked /\ RefundedIsConfirmed
    BY DEF IInv, BInv
  <1>2. ASSUME UNCHANGED <<constVars, deducted>> PROVE DeductionIsBacked'
    BY <1>1, <1>2, RefundsGrow DEF DeductionIsBacked, constVars
  <1>3. ASSUME UNCHANGED <<constVars, refundAmount>>, status' \in Terminal => status \in Terminal
        PROVE  RefundedIsConfirmed'
    BY <1>1, <1>3, RefundsGrow DEF RefundedIsConfirmed, constVars
  <1>4. ASSUME UNCHANGED constVars, status' \notin Terminal PROVE RefundedIsConfirmed'
    BY <1>4 DEF RefundedIsConfirmed
  <1>5. ASSUME NEW w \in Workers, ApplyDeductions(w) PROVE DeductionIsBacked'
    <2>1. CASE UNCHANGED assetVars
      BY <1>2, <1>5, <2>1 DEF ApplyDeductions, assetVars
    <2>2. CASE deductions' = deductions + 1 /\ deducted' = deducted + plan[w].deduct
      <3>1. status = "REFUNDING" /\ pc[w] = "settle"
        BY <1>1, <1>5 DEF ApplyDeductions, OneOwner, Claimed
      <3>2. deductions = 0
        BY <1>1, <3>1 DEF TakenOnce, Claimed, Terminal, TypeOK
      <3>3. deducted' = plan[w].deduct
        BY <1>1, <2>2, <3>2, RefundAssumption DEF RowAgrees, TypeOK, Plan, RefundAssumption
      <3>4. traded => Confirmed(plan[w].amount)
        BY <1>1, <3>1 DEF PlansAgree
      <3>5. orderType = "balance" => plan[w].deduct <= plan[w].amount
        BY <1>1 DEF PlansAgree
      <3>6. UNCHANGED <<constVars, refunds>>
        BY <1>5 DEF ApplyDeductions
      <3>7. QED
        BY <3>3, <3>4, <3>5, <3>6 DEF DeductionIsBacked, Confirmed, constVars
    <2>3. QED
      BY <1>5, <2>1, <2>2 DEF ApplyDeductions
  <1>6. ASSUME NEW w \in Workers, MarkRefundOk(w) PROVE RefundedIsConfirmed'
    <2>1. CASE refundAmount' = plan[w].amount
      <3>1. traded => Confirmed(plan[w].amount)
        BY <1>1, <1>6 DEF PlansAgree, MarkRefundOk
      <3>2. UNCHANGED <<constVars, refunds>>
        BY <1>6 DEF MarkRefundOk
      <3>3. QED
        BY <2>1, <3>1, <3>2 DEF RefundedIsConfirmed, Confirmed, constVars
    <2>2. CASE UNCHANGED rowVars
      BY <1>3, <1>6, <2>2 DEF MarkRefundOk, rowVars
    <2>3. QED
      BY <1>6, <2>1, <2>2 DEF MarkRefundOk
  <1>7. ASSUME NEW w \in Workers, Continue(w) PROVE DeductionIsBacked' /\ RefundedIsConfirmed'
    <2>1. CASE SubmitRequest(w)
      <3>1. UNCHANGED <<constVars, deducted>>
        BY <2>1 DEF SubmitRequest, assetVars
      <3>2. UNCHANGED rowVars \/ status' \notin Terminal
        BY <2>1 DEF SubmitRequest, Terminal
      <3>3. QED
        BY <1>2, <1>3, <1>4, <3>1, <3>2 DEF rowVars
    <2>2. CASE ClaimRefund(w) \/ LockPending(w) \/ FinalizeFailed(w) \/ RestorePending(w)
      <3>1. UNCHANGED <<constVars, deducted>>
        BY <2>2 DEF ClaimRefund, LockPending, FinalizeFailed, RestorePending, assetVars
      <3>2. UNCHANGED rowVars \/ status' \notin Terminal
        BY <2>2 DEF ClaimRefund, LockPending, FinalizeFailed, RestorePending, WriteStatus, Terminal
      <3>3. QED
        BY <1>2, <1>3, <1>4, <3>1, <3>2 DEF rowVars
    <2>3. CASE PrepareRefund(w) \/ SkipGateway(w) \/ CallGateway(w) \/ QueryRefund(w)
            \/ BuildSettlementPlan(w)
      <3>1. UNCHANGED <<constVars, deducted, rowVars>>
        BY <2>3 DEF PrepareRefund, SkipGateway, CallGateway, QueryRefund, BuildSettlementPlan, assetVars
      <3>2. QED
        BY <1>2, <1>3, <3>1 DEF rowVars
    <2>4. CASE RestoreStatus(w)
      <3>1. UNCHANGED <<constVars, deducted>>
        BY <2>4 DEF RestoreStatus, assetVars
      <3>2. UNCHANGED rowVars \/ status' \notin Terminal
        BY <1>1, <2>4 DEF RestoreStatus, WriteStatus, PlansAgree
      <3>3. QED
        BY <1>2, <1>3, <1>4, <3>1, <3>2 DEF rowVars
    <2>5. CASE MarkRefundPending(w)
      <3>1. UNCHANGED <<constVars, deducted>>
        BY <2>5 DEF MarkRefundPending, assetVars
      <3>2. UNCHANGED rowVars \/ status' \notin Terminal
        BY <2>5 DEF MarkRefundPending, Terminal
      <3>3. QED
        BY <1>2, <1>3, <1>4, <3>1, <3>2 DEF rowVars
    <2>6. CASE ApplyDeductions(w)
      BY <1>3, <1>5, <2>6 DEF ApplyDeductions, rowVars
    <2>7. CASE MarkRefundOk(w)
      BY <1>2, <1>6, <2>7 DEF MarkRefundOk, assetVars
    <2>8. QED
      BY <1>7, <2>1, <2>2, <2>3, <2>4, <2>5, <2>6, <2>7 DEF Continue
  <1>8. ASSUME NEW w \in Workers, RequestRefund(w) \/ ReadOrder(w) \/ ReadPending(w) \/ Crash(w)
        PROVE  DeductionIsBacked' /\ RefundedIsConfirmed'
    BY <1>2, <1>3, <1>8 DEF RequestRefund, ReadOrder, ReadPending, Crash, rowVars, assetVars
  <1>9. CASE GatewaySettles \/ Consume \/ UNCHANGED vars
    BY <1>2, <1>3, <1>9 DEF GatewaySettles, Consume, vars, rowVars, assetVars
  <1>10. QED
    BY <1>7, <1>8, <1>9 DEF Next

\* Every reachable state satisfies the second invariant too.
LEMMA BInvHolds ==
  ASSUME NoLostCommit
  PROVE  Spec => []BInv
  <1>1. Init => BInv
    BY RefundAssumption DEF RefundAssumption, Init, BInv, PlansAgree, RowAgrees, DeductionIsBacked,
       RefundedIsConfirmed, NoPlan, Terminal
  <1>2. IInv /\ BInv /\ [Next]_vars => BInv'
    BY StepPlans, StepRow, StepConfirmed DEF BInv
  <1>3. QED
    BY IInvHolds, <1>1, <1>2, PTL DEF Spec

\* Nothing is taken back from a user before the gateway has returned at least as
\* much: each path to the deduction passes a settled refund of the plan's amount,
\* and the plan deducts no more than it returns.
THEOREM DeductionsAreBacked ==
  ASSUME NoLostCommit
  PROVE  Spec => []DeductionIsBacked
  BY BInvHolds, PTL DEF BInv

\* An order that shows a refund was refunded, by the amount it shows: the query
\* asks for the very refund whose amount the row carries.
THEOREM RefundsAreConfirmed ==
  ASSUME NoLostCommit
  PROVE  Spec => []RefundedIsConfirmed
  BY BInvHolds, PTL DEF BInv

-----------------------------------------------------------------------------
(* The order implements the refund of RefundOnce.                          *)

\* Between the deduction and the terminal write, what was taken is covered by the
\* amount the write will show.
TakenFits ==
  \A w \in Workers :
    pc[w] = "terminal" /\ orderType = "balance" => deducted <= plan[w].amount

RInv == IInv /\ BInv /\ TakenFits

\* A deduction is the first: nothing was taken before, and the claim holds.
LEMMA FirstDeduction ==
  ASSUME RInv, NEW w \in Workers, pc[w] = "settle"
  PROVE  status = "REFUNDING" /\ deductions = 0 /\ deducted = 0
  BY DEF RInv, IInv, BInv, OneOwner, TakenOnce, RowAgrees, Claimed, Terminal, TypeOK

LEMMA StepTakenFits == RInv /\ [Next]_vars => TakenFits'
  <1> SUFFICES ASSUME RInv, [Next]_vars, NEW w \in Workers, pc'[w] = "terminal",
                      orderType' = "balance"
               PROVE  deducted' <= plan'[w].amount
    BY DEF TakenFits
  <1>1. UNCHANGED orderType
    BY DEF Next, vars, constVars, Continue, SubmitRequest, PrepareRefund, ClaimRefund,
       SkipGateway, CallGateway, RestoreStatus, MarkRefundPending, ApplyDeductions,
       MarkRefundOk, LockPending, QueryRefund, BuildSettlementPlan, FinalizeFailed,
       RestorePending, RequestRefund, ReadOrder, ReadPending, Crash, GatewaySettles, Consume
  <1>2. CASE pc[w] = "terminal" /\ plan'[w] = plan[w] /\ UNCHANGED deducted
    BY <1>1, <1>2 DEF RInv, TakenFits
  <1>3. CASE ApplyDeductions(w)
    <2>1. deducted = 0 /\ pc[w] = "settle"
      BY <1>3, FirstDeduction DEF ApplyDeductions
    <2>2. plan'[w] = plan[w] /\ plan[w].deduct <= plan[w].amount /\ plan[w] \in Plan
      BY <1>1, <1>3 DEF ApplyDeductions, Goto, RInv, IInv, BInv, PlansAgree, TypeOK
    <2>3. deducted' \in {deducted, deducted + plan[w].deduct}
      BY <1>3 DEF ApplyDeductions, assetVars
    <2>4. QED
      BY <2>1, <2>2, <2>3, RefundAssumption DEF Plan, RefundAssumption
  <1>4. ~ApplyDeductions(w) => pc[w] = "terminal" /\ plan'[w] = plan[w]
    <2>1. TypeOK
      BY DEF RInv, IInv
    <2>2. ASSUME NEW v \in Workers, Continue(v), ~ApplyDeductions(w)
          PROVE  pc[w] = "terminal" /\ plan'[w] = plan[w]
      BY <2>1, <2>2 DEF Continue, SubmitRequest, PrepareRefund, ClaimRefund,
         SkipGateway, CallGateway, RestoreStatus, MarkRefundPending, ApplyDeductions,
         MarkRefundOk, LockPending, QueryRefund, BuildSettlementPlan, FinalizeFailed,
         RestorePending, Goto, Return, TypeOK
    <2>3. ASSUME NEW v \in Workers, RequestRefund(v) \/ ReadOrder(v) \/ ReadPending(v) \/ Crash(v)
          PROVE  pc[w] = "terminal" /\ plan'[w] = plan[w]
      BY <2>1, <2>3 DEF RequestRefund, ReadOrder, ReadPending, Crash, Goto, Return, TypeOK
    <2>4. QED
      BY <2>2, <2>3 DEF Next, vars, GatewaySettles, Consume
  <1>5. ASSUME ~ApplyDeductions(w) PROVE UNCHANGED deducted
    <2>1. \A v \in Workers : ~ApplyDeductions(v)
      BY <1>4, <1>5 DEF RInv, IInv, OneOwner, Claimed, ApplyDeductions
    <2>2. ASSUME NEW v \in Workers, Continue(v) PROVE UNCHANGED deducted
      BY <2>1, <2>2 DEF assetVars, Continue, SubmitRequest, PrepareRefund, ClaimRefund,
         SkipGateway, CallGateway, RestoreStatus, MarkRefundPending, MarkRefundOk,
         LockPending, QueryRefund, BuildSettlementPlan, FinalizeFailed, RestorePending
    <2>3. QED
      BY <2>2 DEF Next, vars, assetVars, RequestRefund, ReadOrder, ReadPending, Crash,
         GatewaySettles, Consume
  <1>6. QED
    BY <1>2, <1>3, <1>4, <1>5

\* The gateway returns one amount more, or none.
LEMMA ReturnedGrows ==
  ASSUME TypeOK, [Next]_vars
  PROVE  ReturnedAmounts' = ReturnedAmounts
           \/ \E a \in 0..Amount : ReturnedAmounts' = ReturnedAmounts \cup {a}
  <1>1. UNCHANGED traded
    BY DEF Next, vars, constVars, Continue, SubmitRequest, PrepareRefund, ClaimRefund,
       SkipGateway, CallGateway, RestoreStatus, MarkRefundPending, ApplyDeductions,
       MarkRefundOk, LockPending, QueryRefund, BuildSettlementPlan, FinalizeFailed,
       RestorePending, RequestRefund, ReadOrder, ReadPending, Crash, GatewaySettles, Consume
  <1>2. CASE UNCHANGED refunds
    BY <1>1, <1>2 DEF ReturnedAmounts
  <1>3. ASSUME NEW a \in 0..Amount, NEW s \in {"pending", "done"},
               refunds' = Append(refunds, [amount |-> a, state |-> s])
        PROVE  ReturnedAmounts' \in {ReturnedAmounts, ReturnedAmounts \cup {a}}
    <2>1. /\ DOMAIN refunds' = DOMAIN refunds \cup {Len(refunds) + 1}
          /\ \A i \in DOMAIN refunds : refunds'[i] = refunds[i]
          /\ refunds'[Len(refunds) + 1] = [amount |-> a, state |-> s]
      BY <1>3 DEF TypeOK
    <2>2. CASE s = "done"
      BY <1>1, <2>1, <2>2 DEF ReturnedAmounts
    <2>3. CASE s = "pending"
      BY <1>1, <2>1, <2>3 DEF ReturnedAmounts
    <2>4. QED
      BY <2>2, <2>3
  <1>4. ASSUME NEW w \in Workers, CallGateway(w)
        PROVE  UNCHANGED refunds \/ \E a \in 0..Amount, s \in {"pending", "done"} :
                 refunds' = Append(refunds, [amount |-> a, state |-> s])
    <2>1. plan[w].amount \in 0..Amount
      BY DEF TypeOK, Plan
    <2>2. (\E r \in 1..MaxRefunds : Accept(plan[w].amount, r)) \/ UNCHANGED refunds
      BY <1>4 DEF CallGateway
    <2>3. QED
      BY <2>1, <2>2 DEF Accept
  <1>5. ASSUME GatewaySettles
        PROVE  \E a \in 0..Amount : ReturnedAmounts' \in {ReturnedAmounts, ReturnedAmounts \cup {a}}
    <2>1. PICK i \in DOMAIN refunds, s \in {"done", "failed"} :
                 refunds[i].state = "pending" /\ refunds' = [refunds EXCEPT ![i].state = s]
      BY <1>5 DEF GatewaySettles
    <2>2. refunds[i] \in Refund
      BY DEF TypeOK
    <2>3. /\ DOMAIN refunds' = DOMAIN refunds
          /\ \A j \in DOMAIN refunds \ {i} : refunds'[j] = refunds[j]
          /\ refunds'[i].state = s /\ refunds'[i].amount = refunds[i].amount
      BY <2>1, <2>2 DEF TypeOK, Refund
    <2>4. CASE s = "done"
      <3>1. ReturnedAmounts' \in {ReturnedAmounts, ReturnedAmounts \cup {refunds[i].amount}}
        BY <1>1, <2>1, <2>3, <2>4 DEF ReturnedAmounts
      <3>2. QED
        BY <3>1, <2>2 DEF Refund
    <2>5. CASE s = "failed"
      <3>1. {j \in DOMAIN refunds' : refunds'[j].state = "done"}
              = {j \in DOMAIN refunds : refunds[j].state = "done"}
        BY <2>1, <2>3, <2>5
      <3>2. \A j \in DOMAIN refunds : refunds'[j].amount = refunds[j].amount
        BY <2>3
      <3>3. ReturnedAmounts' = ReturnedAmounts
        BY <1>1, <3>1, <3>2 DEF ReturnedAmounts
      <3>4. QED
        BY <3>3, <2>2 DEF Refund
    <2>6. QED
      BY <2>4, <2>5
  <1>6. UNCHANGED refunds \/ GatewaySettles \/ \E w \in Workers : CallGateway(w)
    BY DEF Next, vars, Continue, SubmitRequest, PrepareRefund, ClaimRefund, SkipGateway,
       RestoreStatus, MarkRefundPending, ApplyDeductions, MarkRefundOk, LockPending,
       QueryRefund, BuildSettlementPlan, FinalizeFailed, RestorePending, RequestRefund,
       ReadOrder, ReadPending, Crash, Consume
  <1>7. QED
    BY <1>2, <1>3, <1>4, <1>5, <1>6

\* A confirmed amount of an order is one that was returned.
LEMMA ConfirmedReturned ==
  ASSUME NEW a \in 0..Amount, traded => Confirmed(a)
  PROVE  a \in ReturnedAmounts
  BY DEF Confirmed, ReturnedAmounts

\* What the mapping shows of the order.
TakenAmount == IF orderType = "balance" THEN deducted ELSE 0
ShownAmount == IF status \in Terminal THEN refundAmount ELSE 0

\* The steps that neither take back nor show a refund leave both as they are.
LEMMA NothingTakenOrShown ==
  ASSUME RInv, NoLostCommit, [Next]_vars,
         \A w \in Workers : ~ApplyDeductions(w) /\ ~MarkRefundOk(w)
  PROVE  UNCHANGED <<deductions, TakenAmount, ShownAmount>>
  <1>1. UNCHANGED <<orderType, deductions, deducted>>
    BY DEF Next, vars, constVars, assetVars, Continue, SubmitRequest, PrepareRefund,
       ClaimRefund, SkipGateway, CallGateway, RestoreStatus, MarkRefundPending, LockPending,
       QueryRefund, BuildSettlementPlan, FinalizeFailed, RestorePending, RequestRefund,
       ReadOrder, ReadPending, Crash, GatewaySettles, Consume
  <1>2. (UNCHANGED rowVars) \/ (status \notin Terminal /\ status' \notin Terminal)
    <2>1. ASSUME NEW w \in Workers, pc[w] \in Claimed PROVE status \notin Terminal
      BY <2>1 DEF RInv, IInv, OneOwner, Terminal
    <2>2. ASSUME NEW w \in Workers, Continue(w)
          PROVE  (UNCHANGED rowVars) \/ (status \notin Terminal /\ status' \notin Terminal)
      <3>1. CASE SubmitRequest(w) \/ ClaimRefund(w) \/ LockPending(w)
        BY <3>1 DEF SubmitRequest, ClaimRefund, LockPending, WriteStatus, Terminal, Initiable
      <3>2. CASE RestoreStatus(w)
        BY <3>2, <2>1 DEF RestoreStatus, WriteStatus, Claimed, RInv, BInv, PlansAgree
      <3>3. CASE MarkRefundPending(w) \/ FinalizeFailed(w) \/ RestorePending(w)
        BY <3>3, <2>1 DEF MarkRefundPending, FinalizeFailed, RestorePending, WriteStatus,
           Claimed, Terminal
      <3>4. CASE PrepareRefund(w) \/ SkipGateway(w) \/ CallGateway(w) \/ QueryRefund(w)
              \/ BuildSettlementPlan(w)
        BY <3>4 DEF PrepareRefund, SkipGateway, CallGateway, QueryRefund, BuildSettlementPlan
      <3>5. QED
        BY <2>2, <3>1, <3>2, <3>3, <3>4 DEF Continue
    <2>3. ASSUME NEW w \in Workers, RequestRefund(w) \/ ReadOrder(w) \/ ReadPending(w) \/ Crash(w)
          PROVE  UNCHANGED rowVars
      BY <2>3 DEF RequestRefund, ReadOrder, ReadPending, Crash
    <2>4. CASE GatewaySettles \/ Consume \/ UNCHANGED vars
      BY <2>4 DEF GatewaySettles, Consume, vars
    <2>5. QED
      BY <2>2, <2>3, <2>4 DEF Next
  <1>3. QED
    BY <1>1, <1>2 DEF TakenAmount, ShownAmount, rowVars

\* The deduction, backed by what its plan returned.
LEMMA DeductionRefines ==
  ASSUME RInv, NEW w \in Workers, ApplyDeductions(w)
  PROVE  Once!TakeBack \/ UNCHANGED Once!vars
  <1>1. status = "REFUNDING" /\ deductions = 0 /\ deducted = 0 /\ pc[w] = "settle"
    BY FirstDeduction DEF ApplyDeductions
  <1>2. UNCHANGED <<orderType, traded, status, refundAmount, refunds>>
    BY DEF ApplyDeductions, constVars, rowVars
  <1>3. UNCHANGED ReturnedAmounts
    BY <1>2 DEF ReturnedAmounts
  <1>4. ShownAmount = 0 /\ ShownAmount' = 0
    BY <1>1, <1>2 DEF ShownAmount, Terminal
  <1>5. CASE UNCHANGED assetVars
    BY <1>2, <1>3, <1>4, <1>5 DEF Once!vars, assetVars, ShownAmount
  <1>6. CASE deductions' = deductions + 1 /\ deducted' = deducted + plan[w].deduct
    <2>1. plan[w].amount \in 0..Amount /\ plan[w].deduct \in 0..Amount
      BY DEF RInv, IInv, TypeOK, Plan
    <2>2. plan[w].amount \in ReturnedAmounts
      BY <1>1, <2>1, ConfirmedReturned DEF RInv, BInv, PlansAgree
    <2>3. orderType = "balance" => plan[w].deduct <= plan[w].amount
      BY DEF RInv, BInv, PlansAgree
    <2>4. TakenAmount' \in 0..plan[w].amount
      BY <1>1, <1>2, <1>6, <2>1, <2>3, RefundAssumption DEF TakenAmount, RefundAssumption
    <2>5. deductions' = 1
      BY <1>1, <1>6
    <2>6. QED
      BY <1>1, <1>3, <1>4, <2>2, <2>4, <2>5 DEF Once!TakeBack, TakenAmount, ShownAmount
  <1>7. QED
    BY <1>5, <1>6 DEF ApplyDeductions

\* The terminal write shows what its plan returned.
LEMMA ShowRefines ==
  ASSUME RInv, NEW w \in Workers, MarkRefundOk(w)
  PROVE  Once!Show \/ UNCHANGED Once!vars
  <1>1. status = "REFUNDING" /\ pc[w] = "terminal"
    BY DEF MarkRefundOk, RInv, IInv, OneOwner, Claimed
  <1>2. UNCHANGED <<orderType, traded, deductions, deducted, refunds>>
    BY DEF MarkRefundOk, constVars, assetVars
  <1>3. UNCHANGED ReturnedAmounts
    BY <1>2 DEF ReturnedAmounts
  <1>4. CASE UNCHANGED rowVars
    BY <1>2, <1>3, <1>4 DEF Once!vars, rowVars
  <1>5. CASE status' \in Terminal /\ refundAmount' = plan[w].amount
    <2>1. plan[w].amount \in 0..Amount
      BY DEF RInv, IInv, TypeOK, Plan
    <2>2. plan[w].amount \in ReturnedAmounts
      BY <1>1, <2>1, ConfirmedReturned DEF RInv, BInv, PlansAgree
    <2>3. TakenAmount <= plan[w].amount /\ TakenAmount' = TakenAmount
      BY <1>1, <1>2, <2>1, RefundAssumption DEF TakenAmount, RInv, TakenFits, RefundAssumption
    <2>4. ShownAmount = 0 /\ ShownAmount' = plan[w].amount
      BY <1>1, <1>5 DEF ShownAmount, Terminal
    <2>5. QED
      BY <1>2, <1>3, <2>2, <2>3, <2>4 DEF Once!Show, TakenAmount, ShownAmount
  <1>6. QED
    BY <1>4, <1>5 DEF MarkRefundOk, Terminal

LEMMA StepRefines == NoLostCommit /\ RInv /\ [Next]_vars => [Once!Next]_Once!vars
  <1> SUFFICES ASSUME NoLostCommit, RInv, [Next]_vars PROVE [Once!Next]_Once!vars
    OBVIOUS
  <1>1. CASE \E w \in Workers : ApplyDeductions(w)
    BY <1>1, DeductionRefines DEF Once!Next
  <1>2. CASE \E w \in Workers : MarkRefundOk(w)
    BY <1>2, ShowRefines DEF Once!Next
  <1>3. CASE \A w \in Workers : ~ApplyDeductions(w) /\ ~MarkRefundOk(w)
    <2>1. UNCHANGED <<deductions, TakenAmount, ShownAmount>>
      BY <1>3, NothingTakenOrShown
    <2>2. UNCHANGED ReturnedAmounts
            \/ \E a \in 0..Amount : ReturnedAmounts' = ReturnedAmounts \cup {a}
      BY ReturnedGrows DEF RInv, IInv
    <2>3. QED
      BY <2>1, <2>2 DEF Once!Next, Once!GatewayReturns, Once!vars, TakenAmount, ShownAmount
  <1>4. QED
    BY <1>1, <1>2, <1>3

LEMMA InitRefines == Init => Once!Init
  BY DEF Init, Once!Init, ReturnedAmounts, Terminal

LEMMA RInvHolds ==
  ASSUME NoLostCommit
  PROVE  Spec => []RInv
  <1>1. Init => TakenFits
    BY DEF Init, TakenFits
  <1>2. RInv /\ [Next]_vars => TakenFits'
    BY StepTakenFits
  <1>3. QED
    BY IInvHolds, BInvHolds, <1>1, <1>2, PTL DEF Spec, RInv

\* However requests, retries, restores and queries interleave, the order implements
\* a refund that charges the user once, after the gateway returned the money, and
\* shows for good an amount that was returned and covers the charge.
THEOREM ImplementsRefundOnce ==
  ASSUME NoLostCommit
  PROVE  Spec => KeepsRefund
  BY InitRefines, StepRefines, RInvHolds, PTL DEF Spec, KeepsRefund, Once!Spec

-----------------------------------------------------------------------------
(* Who owns a refund.                                                      *)

\* No plan was made from an order that was being refunded.
OwnerInv == TypeOK /\ RefundingHasOwner /\ \A w \in Workers : plan[w].from # "REFUNDING"

OnlyGatewayFails == Faults \subseteq {"gateway"}

LEMMA StepOwner == OnlyGatewayFails /\ OwnerInv /\ [Next]_vars => OwnerInv'
  <1> SUFFICES ASSUME OnlyGatewayFails, OwnerInv, [Next]_vars PROVE OwnerInv'
    OBVIOUS
  <1>1. TypeOK'
    BY StepTypeOK DEF OwnerInv
  <1>2. \A kind \in {"crash", "cancelled", "database", "lost_commit"} : ~Fault(kind)
    BY DEF Fault, OnlyGatewayFails
  <1>3. \A w \in Workers : plan'[w].from # "REFUNDING"
    <2> SUFFICES ASSUME NEW w \in Workers PROVE plan'[w].from # "REFUNDING"
      OBVIOUS
    <2> USE DEF OwnerInv, TypeOK, Plan
    <2>1. ASSUME NEW v \in Workers, Continue(v) PROVE plan'[w].from # "REFUNDING"
      <3>1. CASE PrepareRefund(v)
        <4>1. Return(v) => plan'[w].from \in {plan[w].from, "COMPLETED"}
          BY DEF Return, NoPlan
        <4>2. ASSUME NEW a \in 1..Amount, NEW t \in BOOLEAN,
                     plan' = [plan EXCEPT ![v] = [@ EXCEPT !.amount = a, !.take = t,
                                !.deduct = IF t THEN ToDeduct(a) ELSE 0]]
              PROVE  plan'[w].from = plan[w].from
          BY <4>2
        <4>3. plan'[w].from \in {plan[w].from, "COMPLETED"}
          BY <3>1, <4>1, <4>2 DEF PrepareRefund
        <4>4. QED
          BY <4>3
      <3>2. CASE CallGateway(v)
        BY <3>2 DEF CallGateway, Goto
      <3>3. CASE BuildSettlementPlan(v)
        BY <3>3 DEF BuildSettlementPlan
      <3>4. CASE ~PrepareRefund(v) /\ ~CallGateway(v) /\ ~BuildSettlementPlan(v)
        BY <2>1, <3>4 DEF Continue, SubmitRequest, ClaimRefund, SkipGateway, RestoreStatus,
           MarkRefundPending, ApplyDeductions, MarkRefundOk, LockPending, QueryRefund,
           FinalizeFailed, RestorePending, Goto, Return, NoPlan
      <3>5. QED
        BY <3>1, <3>2, <3>3, <3>4
    <2>2. ASSUME NEW v \in Workers, RequestRefund(v) \/ ReadOrder(v) \/ ReadPending(v) \/ Crash(v)
          PROVE  plan'[w].from # "REFUNDING"
      BY <2>2 DEF RequestRefund, ReadOrder, ReadPending, Crash, Initiable, Goto, Return, NoPlan
    <2>3. CASE GatewaySettles \/ Consume \/ UNCHANGED vars
      BY <2>3 DEF GatewaySettles, Consume, vars
    <2>4. QED
      BY <2>1, <2>2, <2>3 DEF Next
  <1>4. ASSUME NEW w \in Workers, status' = "REFUNDING", Continue(w)
        PROVE  \E v \in Workers : pc'[v] \in Claimed
    <2> USE DEF OwnerInv, TypeOK
    <2>1. CASE ClaimRefund(w) \/ LockPending(w)
      BY <1>4, <2>1 DEF ClaimRefund, LockPending, Goto, Return, Claimed, Initiable, rowVars,
         RefundingHasOwner
    <2>2. CASE SubmitRequest(w) \/ PrepareRefund(w)
      <3>1. status = "REFUNDING"
        BY <1>4, <2>2 DEF SubmitRequest, PrepareRefund, rowVars
      <3>2. PICK v \in Workers : pc[v] \in Claimed
        BY <3>1 DEF RefundingHasOwner
      <3>3. pc'[v] = pc[v]
        BY <2>2, <3>2 DEF SubmitRequest, PrepareRefund, Return, Claimed
      <3>4. QED
        BY <3>2, <3>3
    <2>3. CASE SkipGateway(w) \/ CallGateway(w) \/ ApplyDeductions(w) \/ QueryRefund(w)
            \/ BuildSettlementPlan(w)
      <3>1. pc'[w] \in {"settle", "pending_write", "restore", "terminal", "restore_pending",
                        "finalize_failed", "settlement"}
        BY <2>3 DEF SkipGateway, CallGateway, ApplyDeductions, QueryRefund,
           BuildSettlementPlan, Goto
      <3>2. QED
        BY <3>1 DEF Claimed
    <2>4. CASE RestoreStatus(w) \/ MarkRefundPending(w) \/ MarkRefundOk(w) \/ FinalizeFailed(w)
            \/ RestorePending(w)
      BY <1>2, <1>4, <2>4 DEF RestoreStatus, MarkRefundPending, MarkRefundOk, FinalizeFailed,
         RestorePending, WriteStatus, rowVars
    <2>5. QED
      BY <1>4, <2>1, <2>2, <2>3, <2>4 DEF Continue
  <1>5. ASSUME NEW w \in Workers, status' = "REFUNDING",
               RequestRefund(w) \/ ReadOrder(w) \/ ReadPending(w) \/ Crash(w)
        PROVE  \E v \in Workers : pc'[v] \in Claimed
    <2>1. status = "REFUNDING" /\ ~Crash(w)
      BY <1>2, <1>5 DEF RequestRefund, ReadOrder, ReadPending, Crash, rowVars
    <2>2. PICK v \in Workers : pc[v] \in Claimed
      BY <2>1 DEF OwnerInv, RefundingHasOwner
    <2>3. pc'[v] = pc[v]
      BY <1>5, <2>1, <2>2 DEF OwnerInv, TypeOK, RequestRefund, ReadOrder, ReadPending, Goto, Claimed
    <2>4. QED
      BY <2>2, <2>3
  <1>6. ASSUME status' = "REFUNDING", GatewaySettles \/ Consume \/ UNCHANGED vars
        PROVE  \E v \in Workers : pc'[v] \in Claimed
    BY <1>6 DEF OwnerInv, RefundingHasOwner, GatewaySettles, Consume, vars, rowVars
  <1>7. RefundingHasOwner'
    BY <1>4, <1>5, <1>6 DEF RefundingHasOwner, Next
  <1>8. QED
    BY <1>1, <1>3, <1>7 DEF OwnerInv

\* As long as only gateway calls fail, every path out of a claim writes the row: an
\* order in REFUNDING always has a request that will move it on.
THEOREM RefundingIsOwned ==
  ASSUME OnlyGatewayFails
  PROVE  Spec => []RefundingHasOwner
  <1>1. Init => OwnerInv
    BY InitIInv DEF Init, IInv, OwnerInv, RefundingHasOwner, NoPlan
  <1>2. OwnerInv => RefundingHasOwner
    BY DEF OwnerInv
  <1>3. QED
    BY <1>1, <1>2, StepOwner, PTL DEF Spec

-----------------------------------------------------------------------------
(* Whatever fails, lost commits included: returned before taken or shown.  *)
(* OneOwner is not needed here, only what each request's plan stands for.  *)

SomeReturned == \E i \in DOMAIN refunds : refunds[i].state = "done"

\* A refund number is one the gateway knows, wherever it is kept.
Known(r) == r = 0 \/ r \in DOMAIN refunds

PlanFounded(w) ==
  /\ plan[w].from \notin Terminal
  /\ Known(plan[w].refund)
  /\ pc[w] \in {"lock_query", "query"} => plan[w].refund # 0
  /\ pc[w] \in {"settlement", "settle", "terminal"} /\ traded => SomeReturned

FInv ==
  /\ TypeOK
  /\ Known(refundNo)
  /\ \A w \in Workers : PlanFounded(w)
  /\ ReturnedFirst

LEMMA KnownPersists ==
  ASSUME TypeOK, [Next]_vars
  PROVE  /\ \A r : Known(r) => r = 0 \/ r \in DOMAIN refunds'
         /\ SomeReturned => SomeReturned'
  BY RefundsGrow DEF Known, SomeReturned

\* A plan no step of its request changes stays founded.
LEMMA FoundedPersists ==
  ASSUME TypeOK, [Next]_vars, NEW w \in Workers, PlanFounded(w),
         plan'[w] = plan[w], UNCHANGED constVars,
         pc'[w] \in {"lock_query", "query"} => pc[w] \in {"lock_query", "query"},
         pc'[w] \in {"settlement", "settle", "terminal"} /\ traded
           => pc[w] \in {"settlement", "settle", "terminal"}
  PROVE  PlanFounded(w)'
  BY KnownPersists DEF PlanFounded, Known, constVars

LEMMA ReturnFounded ==
  ASSUME TypeOK, NEW w \in Workers, Return(w)
  PROVE  PlanFounded(w)'
  BY DEF TypeOK, Return, PlanFounded, NoPlan, Terminal, Known

\* Every step of a request leaves its plan founded.
LEMMA StepFounded ==
  ASSUME FInv, [Next]_vars, NEW v \in Workers
  PROVE  PlanFounded(v)'
  <1>1. TypeOK /\ PlanFounded(v)
    BY DEF FInv
  <1>2. UNCHANGED constVars
    BY DEF Next, vars, Continue, SubmitRequest, PrepareRefund, ClaimRefund, SkipGateway,
       CallGateway, RestoreStatus, MarkRefundPending, ApplyDeductions, MarkRefundOk,
       LockPending, QueryRefund, BuildSettlementPlan, FinalizeFailed, RestorePending,
       RequestRefund, ReadOrder, ReadPending, Crash, GatewaySettles, Consume
  <1>3. CASE pc'[v] = pc[v] /\ plan'[v] = plan[v]
    BY <1>1, <1>2, <1>3, FoundedPersists
  <1>4. CASE Return(v)
    BY <1>1, <1>4, ReturnFounded
  <1>5. ASSUME NEW l \in Label, Goto(v, l), l \notin {"lock_query", "query"},
               l \in {"settlement", "settle", "terminal"} /\ traded
                 => pc[v] \in {"settlement", "settle", "terminal"}
        PROVE  PlanFounded(v)'
    <2>1. pc'[v] = l /\ plan'[v] = plan[v]
      BY <1>1, <1>5 DEF Goto, TypeOK
    <2>2. QED
      BY <1>1, <1>2, <1>5, <2>1, FoundedPersists
  <1>6. CASE PrepareRefund(v)
    <2>1. ASSUME NEW amount \in 1..Amount, NEW take \in BOOLEAN,
                 plan' = [plan EXCEPT ![v] = [@ EXCEPT !.amount = amount, !.take = take,
                            !.deduct = IF take THEN ToDeduct(amount) ELSE 0]],
                 pc' = [pc EXCEPT ![v] = "execute"]
          PROVE  PlanFounded(v)'
      <3>1. pc'[v] = "execute" /\ refunds' = refunds
        BY <1>1, <1>6, <2>1 DEF TypeOK, PrepareRefund
      <3>2. plan'[v].from = plan[v].from /\ plan'[v].refund = plan[v].refund
        BY <1>1, <2>1 DEF TypeOK, Plan
      <3>3. QED
        BY <1>1, <3>1, <3>2 DEF PlanFounded, Known
    <2>2. QED
      BY <1>4, <1>6, <2>1 DEF PrepareRefund
  <1>7. CASE CallGateway(v)
    <2> DEFINE a == plan[v].amount
    <2>1. a \in 0..Amount
      BY <1>1 DEF TypeOK, Plan
    <2>2. ASSUME NEW r \in 1..MaxRefunds, Accept(a, r), refunds'[r].state = "done", Goto(v, "settle")
          PROVE  PlanFounded(v)'
      <3>1. pc'[v] = "settle" /\ plan'[v] = plan[v]
        BY <1>1, <2>2 DEF Goto, TypeOK
      <3>2. r \in DOMAIN refunds'
        BY <1>1, <2>1, <2>2, AcceptNames DEF Names
      <3>3. QED
        BY <1>1, <2>2, <3>1, <3>2, KnownPersists DEF PlanFounded, SomeReturned, Known
    <2>3. ASSUME NEW r \in 1..MaxRefunds, Accept(a, r), NEW no \in {0, r},
                 plan' = [plan EXCEPT ![v].refund = no], pc' = [pc EXCEPT ![v] = "pending_write"]
          PROVE  PlanFounded(v)'
      <3>1. pc'[v] = "pending_write"
        BY <1>1, <2>3 DEF TypeOK
      <3>2. plan'[v].from = plan[v].from /\ plan'[v].refund = no
        BY <1>1, <2>3 DEF TypeOK, Plan
      <3>3. r \in DOMAIN refunds'
        BY <1>1, <2>1, <2>3, AcceptNames DEF Names
      <3>4. QED
        BY <1>1, <3>1, <3>2, <3>3 DEF PlanFounded, Known
    <2>4. CASE Goto(v, "restore")
      BY <1>5, <2>4 DEF Label, Claimed
    <2>5. QED
      BY <1>7, <2>2, <2>3, <2>4 DEF CallGateway
  <1>8. CASE QueryRefund(v)
    <2>1. CASE Goto(v, "restore_pending") \/ Goto(v, "finalize_failed")
      BY <1>5, <2>1 DEF Label, Claimed
    <2>2. CASE refunds[plan[v].refund].state = "done" /\ Goto(v, "settlement")
      <3>1. pc'[v] = "settlement" /\ plan'[v] = plan[v] /\ pc[v] = "query"
        BY <1>1, <1>8, <2>2 DEF Goto, TypeOK, QueryRefund
      <3>2. plan[v].refund \in DOMAIN refunds
        BY <1>1, <3>1 DEF PlanFounded, Known
      <3>3. SomeReturned
        BY <2>2, <3>2 DEF SomeReturned
      <3>4. QED
        BY <1>1, <3>1, <3>3, KnownPersists DEF PlanFounded, Known
    <2>3. QED
      BY <1>8, <2>1, <2>2 DEF QueryRefund
  <1>9. CASE BuildSettlementPlan(v)
    <2>1. pc'[v] = "settle" /\ pc[v] = "settlement" /\ refunds' = refunds
      BY <1>1, <1>9 DEF TypeOK, BuildSettlementPlan
    <2>2. plan'[v].from = plan[v].from /\ plan'[v].refund = plan[v].refund
      BY <1>1, <1>9 DEF TypeOK, Plan, BuildSettlementPlan
    <2>3. QED
      BY <1>1, <1>2, <2>1, <2>2 DEF PlanFounded, Known, SomeReturned, constVars
  <1>10. CASE ReadOrder(v)
    <2>1. pc'[v] = "prepare" /\ refunds' = refunds
      BY <1>1, <1>10 DEF TypeOK, ReadOrder
    <2>2. plan'[v].from = status /\ plan'[v].refund = plan[v].refund
      BY <1>1, <1>10 DEF TypeOK, Plan, ReadOrder
    <2>3. status \notin Terminal
      BY <1>10 DEF ReadOrder, Initiable, Terminal
    <2>4. QED
      BY <1>1, <2>1, <2>2, <2>3 DEF PlanFounded, Known
  <1>11. CASE ReadPending(v)
    <2>1. pc'[v] = "lock_query" /\ refunds' = refunds /\ refundNo # 0 /\ status = "REFUND_PENDING"
      BY <1>1, <1>11 DEF TypeOK, ReadPending
    <2>2. plan'[v] = [from |-> status, amount |-> refundAmount, take |-> deductOnSettle,
                      deduct |-> 0, refund |-> refundNo]
      BY <1>1, <1>11 DEF TypeOK, ReadPending
    <2>3. Known(refundNo)
      BY DEF FInv
    <2>4. QED
      BY <2>1, <2>2, <2>3 DEF PlanFounded, Known, Terminal
  <1>12. CASE LockPending(v)
    <2>1. ASSUME Goto(v, "query"), pc[v] = "lock_query" PROVE PlanFounded(v)'
      <3>1. pc'[v] = "query" /\ plan'[v] = plan[v]
        BY <1>1, <2>1 DEF Goto, TypeOK
      <3>2. QED
        BY <1>1, <1>2, <2>1, <3>1, FoundedPersists
    <2>2. QED
      BY <1>4, <1>12, <2>1 DEF LockPending
  <1>13. ASSUME NEW w \in Workers, w # v,
                Continue(w) \/ RequestRefund(w) \/ ReadOrder(w) \/ ReadPending(w) \/ Crash(w)
         PROVE  pc'[v] = pc[v] /\ plan'[v] = plan[v]
    BY <1>1, <1>13
    DEF TypeOK, Goto, Return, Continue, SubmitRequest, PrepareRefund, ClaimRefund, SkipGateway,
        CallGateway, RestoreStatus, MarkRefundPending, ApplyDeductions, MarkRefundOk,
        LockPending, QueryRefund, BuildSettlementPlan, FinalizeFailed, RestorePending,
        RequestRefund, ReadOrder, ReadPending, Crash
  <1>14. CASE Continue(v) \/ RequestRefund(v) \/ Crash(v)
    <2>1. CASE SubmitRequest(v) \/ RestoreStatus(v) \/ MarkRefundPending(v) \/ MarkRefundOk(v)
            \/ RestorePending(v) \/ Crash(v)
      BY <1>4, <2>1 DEF SubmitRequest, RestoreStatus, MarkRefundPending, MarkRefundOk,
         RestorePending, Crash
    <2>2. CASE RequestRefund(v) \/ ClaimRefund(v)
      BY <1>4, <1>5, <2>2 DEF RequestRefund, ClaimRefund, Label, Claimed
    <2>3. CASE SkipGateway(v)
      BY <1>5, <2>3 DEF SkipGateway, Label, Claimed
    <2>4. CASE ApplyDeductions(v)
      BY <1>5, <2>4 DEF ApplyDeductions, Label, Claimed
    <2>5. CASE FinalizeFailed(v)
      BY <1>4, <1>5, <2>5 DEF FinalizeFailed, Label, Claimed
    <2>6. QED
      BY <1>6, <1>7, <1>8, <1>9, <1>12, <1>14, <2>1, <2>2, <2>3, <2>4, <2>5 DEF Continue
  <1>15. CASE GatewaySettles \/ Consume \/ UNCHANGED vars
    BY <1>3, <1>15 DEF GatewaySettles, Consume, vars
  <1>16. QED
    BY <1>3, <1>10, <1>11, <1>13, <1>14, <1>15 DEF Next

\* The row names refunds the gateway knows, and what it shows was returned.
LEMMA StepFInv == FInv /\ [Next]_vars => FInv'
  <1> SUFFICES ASSUME FInv, [Next]_vars PROVE FInv'
    OBVIOUS
  <1>1. TypeOK /\ TypeOK' /\ Known(refundNo) /\ ReturnedFirst /\ \A w \in Workers : PlanFounded(w)
    BY StepTypeOK DEF FInv
  <1>2. \A w \in Workers : PlanFounded(w)'
    BY StepFounded
  <1>3. UNCHANGED constVars
    BY DEF Next, vars, Continue, SubmitRequest, PrepareRefund, ClaimRefund, SkipGateway,
       CallGateway, RestoreStatus, MarkRefundPending, ApplyDeductions, MarkRefundOk,
       LockPending, QueryRefund, BuildSettlementPlan, FinalizeFailed, RestorePending,
       RequestRefund, ReadOrder, ReadPending, Crash, GatewaySettles, Consume
  <1>4. UNCHANGED refundNo \/ \E w \in Workers : MarkRefundPending(w) /\ refundNo' = plan[w].refund
    BY DEF Next, vars, rowVars, WriteStatus, Continue, SubmitRequest, PrepareRefund, ClaimRefund,
       SkipGateway, CallGateway, RestoreStatus, MarkRefundPending, ApplyDeductions, MarkRefundOk,
       LockPending, QueryRefund, BuildSettlementPlan, FinalizeFailed, RestorePending,
       RequestRefund, ReadOrder, ReadPending, Crash, GatewaySettles, Consume
  <1>5. Known(refundNo)'
    BY <1>1, <1>4, KnownPersists DEF Known, PlanFounded
  <1> DEFINE Due == deducted > 0 \/ status \in Terminal
             Ending(w) == pc[w] \in {"settlement", "settle", "terminal"}
  <1>6. (Due' => Due) \/ \E w \in Workers : Ending(w)
    <2>1. ASSUME NEW w \in Workers, RestoreStatus(w) PROVE Due' => Due
      BY <1>1, <2>1 DEF RestoreStatus, WriteStatus, rowVars, assetVars, PlanFounded
    <2>2. ASSUME NEW w \in Workers, ApplyDeductions(w) \/ MarkRefundOk(w) PROVE Ending(w)
      BY <2>2 DEF ApplyDeductions, MarkRefundOk
    <2>3. CASE UNCHANGED <<status, deducted>>
      BY <2>3
    <2>4. CASE UNCHANGED deducted /\ status' \notin Terminal
      BY <2>4
    <2>5. UNCHANGED <<status, deducted>> \/ (UNCHANGED deducted /\ status' \notin Terminal)
          \/ \E w \in Workers : RestoreStatus(w) \/ ApplyDeductions(w) \/ MarkRefundOk(w)
      BY DEF Next, vars, rowVars, assetVars, WriteStatus, Terminal, Continue, SubmitRequest,
         PrepareRefund, ClaimRefund, SkipGateway, CallGateway, MarkRefundPending,
         LockPending, QueryRefund, BuildSettlementPlan, FinalizeFailed, RestorePending,
         RequestRefund, ReadOrder, ReadPending, Crash, GatewaySettles, Consume
    <2>6. QED
      BY <2>1, <2>2, <2>3, <2>4, <2>5
  <1>7. ReturnedFirst'
    <2>1. Due' /\ traded => SomeReturned
      BY <1>1, <1>6 DEF ReturnedFirst, SomeReturned, PlanFounded
    <2>2. SomeReturned => SomeReturned'
      BY <1>1, KnownPersists
    <2>3. QED
      BY <1>3, <2>1, <2>2 DEF ReturnedFirst, SomeReturned, constVars
  <1>8. QED
    BY <1>1, <1>2, <1>5, <1>7 DEF FInv

\* Whatever fails and whoever loses his claim, nothing is taken back from the user
\* and no order is shown as refunded before the gateway has returned something.
THEOREM NothingTakenUnreturned == Spec => []ReturnedFirst
  <1>1. Init => FInv
    <2> SUFFICES ASSUME Init PROVE FInv
      OBVIOUS
    <2>1. TypeOK
      BY InitIInv DEF IInv
    <2>2. QED
      BY <2>1 DEF Init, FInv, Known, PlanFounded, NoPlan, ReturnedFirst, Terminal
  <1>2. FInv => ReturnedFirst
    BY DEF FInv
  <1>3. QED
    BY <1>1, <1>2, StepFInv, PTL DEF Spec

=============================================================================
