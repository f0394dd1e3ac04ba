------------------------- MODULE UsageCleanupProofs -------------------------
(***************************************************************************)
(* Proofs about ClusterTaskLease and UsageCleanup for any numbers of nodes,*)
(* tasks, rows and faults, and any batch size.                             *)
(***************************************************************************)
EXTENDS UsageCleanup, FiniteSetTheorems, TLAPS

RunTypes ==
  /\ pc \in [Nodes -> Steps]
  /\ task \in [Nodes -> Tasks \cup {0}]
  /\ total \in [Nodes -> Nat]
  /\ target \in [Nodes -> SUBSET Rows]
  /\ last \in [Nodes -> BOOLEAN]
  /\ held \in [Nodes -> Nat]
  /\ lost \in [Nodes -> BOOLEAN]
  /\ done \in [Nodes -> BOOLEAN]

LeaseTypes ==
  /\ lease \in [owner : Nodes \cup {NoNode}, token : Nat, live : BOOLEAN]
  /\ passed \in Nat

TaskTypes ==
  /\ status \in [Tasks -> Status]
  /\ stale \in [Tasks -> BOOLEAN]
  /\ deletedRows \in [Tasks -> Nat]

RowTypes == rows \subseteq Rows /\ removed \in [Tasks -> Nat] /\ cut \subseteq Tasks

BoundTypes == faults \in 0..MaxFaults

DataTypes == LeaseTypes /\ TaskTypes /\ RowTypes /\ BoundTypes

\* The control of a run: it has a token, and a task where it needs one.
Controlled ==
  \A n \in Nodes : /\ Running(n) <=> pc[n] # "idle"
                   /\ pc[n] \notin {"idle", "start", "claim", "end"} => task[n] \in Tasks

LEMMA TypeParts == TypeOK <=> RunTypes /\ DataTypes /\ Controlled
  BY DEF TypeOK, LeaseTypeOK, RunTypes, DataTypes, LeaseTypes, TaskTypes, RowTypes, BoundTypes,
     Controlled

LEMMA GuardedSteps ==
  /\ DOMAIN Guarded = {"start", "before", "after", "finish", "failing", "recompute"}
  /\ Guarded["start"] = "claim" /\ Guarded["before"] = "delete"
  /\ Guarded["after"] = "progress" /\ Guarded["finish"] = "succeed"
  /\ Guarded["failing"] = "fail" /\ Guarded["recompute"] = "end"
  BY DEF Guarded

LEMMA StepNames ==
  Steps = {"start", "before", "after", "finish", "failing", "recompute", "idle", "claim",
           "loop", "delete", "deleting", "progress", "succeed", "fail", "end"}
  BY GuardedSteps DEF Steps

LEMMA DeletedIsNat ==
  ASSUME RunTypes, NEW n \in Nodes
  PROVE  Cardinality(target[n] \cap rows) \in Nat
  <1>1. target[n] \cap rows \subseteq Rows
    BY DEF RunTypes
  <1>2. IsFiniteSet(target[n] \cap rows)
    BY <1>1, CleanupAssumption, FS_Subset DEF CleanupAssumption
  <1>3. QED
    BY <1>2, FS_CardinalityType

LEMMA DeleteTargetTypes ==
  ASSUME RunTypes, RowTypes, NEW n \in Nodes, task[n] \in Tasks, DeleteTarget(n)
  PROVE  RowTypes'
  <1>1. rows' \subseteq Rows /\ cut' \subseteq Tasks
    BY DEF DeleteTarget, RowTypes
  <1>2. DEFINE k == Cardinality(target[n] \cap rows)
  <1>3. k \in Nat
    BY DeletedIsNat
  <1>4. removed' = [removed EXCEPT ![task[n]] = removed[task[n]] + k]
    BY DEF DeleteTarget
  <1> HIDE DEF k
  <1>5. removed' \in [Tasks -> Nat]
    BY <1>3, <1>4 DEF RowTypes
  <1>6. QED
    BY <1>1, <1>5 DEF RowTypes

LEMMA ClaimTypes ==
  ASSUME TaskTypes, NEW t \in Tasks, Claim(t)
  PROVE  TaskTypes'
  BY DEF TaskTypes, Claim, Status

LEMMA InitTypeOK == Init => TypeOK
  BY CleanupAssumption, NodesAssumption, StepNames
     DEF Init, LeaseInit, TypeOK, LeaseTypeOK, CleanupAssumption, Status, Running

LEMMA StepTypeOK == TypeOK /\ [Next]_vars => TypeOK'
  <1> SUFFICES ASSUME RunTypes, DataTypes, Controlled, [Next]_vars
               PROVE  RunTypes' /\ DataTypes' /\ Controlled'
    BY TypeParts DEF TypeOK, LeaseTypeOK, RunTypes, DataTypes, LeaseTypes, TaskTypes, RowTypes, BoundTypes, Controlled
  <1> DEFINE Goal == RunTypes' /\ DataTypes' /\ Controlled'
  <1> USE CleanupAssumption, NodesAssumption, StepNames
      DEF CleanupAssumption, Status, Running, Goto, Fault, leaseVars, taskVars, rowVars, runVars
  <1>1. ASSUME NEW t \in Tasks, CreateTask(t) \/ CancelTask(t) \/ GoesStale(t) PROVE Goal
    <2>1. RunTypes'
      BY <1>1 DEF CreateTask, CancelTask, GoesStale, RunTypes, DataTypes, Controlled
    <2>2. DataTypes'
      <3>1. LeaseTypes'
        BY <1>1 DEF CreateTask, CancelTask, GoesStale, LeaseTypes, DataTypes, RunTypes, Controlled
      <3>2. TaskTypes'
        BY <1>1 DEF CreateTask, CancelTask, GoesStale, TaskTypes, DataTypes, RunTypes, Controlled
      <3>3. RowTypes'
        BY <1>1 DEF CreateTask, CancelTask, GoesStale, RowTypes, DataTypes, RunTypes, Controlled
      <3>4. BoundTypes'
        BY <1>1 DEF CreateTask, CancelTask, GoesStale, BoundTypes, DataTypes, RunTypes, Controlled
      <3>5. QED
        BY <3>1, <3>2, <3>3, <3>4 DEF DataTypes
    <2>3. Controlled'
      BY <1>1 DEF CreateTask, CancelTask, GoesStale, Controlled, RunTypes
    <2>4. QED
      BY <2>1, <2>2, <2>3
  <1>2. ASSUME NEW n \in Nodes, Run(n) PROVE Goal
    BY <1>2 DEF Run, AcquireTaskLease, RunTypes, DataTypes, LeaseTypes, TaskTypes, RowTypes, BoundTypes, Controlled
  <1>3. ASSUME NEW n \in Nodes, Check(n) PROVE Goal
    <2>1. DataTypes'
      <3>1. LeaseTypes'
        BY <1>3 DEF Check, CheckPasses, CheckFails, LeaseTypes, DataTypes, RunTypes, Controlled
      <3>2. TaskTypes'
        BY <1>3 DEF Check, CheckPasses, CheckFails, TaskTypes, DataTypes, RunTypes, Controlled
      <3>3. RowTypes'
        BY <1>3 DEF Check, CheckPasses, CheckFails, RowTypes, DataTypes, RunTypes, Controlled
      <3>4. BoundTypes'
        BY <1>3 DEF Check, CheckPasses, CheckFails, BoundTypes, DataTypes, RunTypes, Controlled
      <3>5. QED
        BY <3>1, <3>2, <3>3, <3>4 DEF DataTypes
    <2>2. /\ pc[n] \in DOMAIN Guarded
          /\ pc' = [pc EXCEPT ![n] = "end"] \/ pc' = [pc EXCEPT ![n] = Guarded[pc[n]]]
          /\ UNCHANGED <<held, done, task, total, target, last>>
          /\ lost' = lost \/ lost' = [lost EXCEPT ![n] = @ \/ ~done[n]]
      BY <1>3 DEF Check, CheckPasses, CheckFails
    <2>3. Guarded[pc[n]] \in Steps \ {"idle", "start", "before", "after", "finish"}
      BY <2>2, GuardedSteps
    <2>4. lost' \in [Nodes -> BOOLEAN]
      BY <2>2 DEF RunTypes
    <2>5. RunTypes'
      BY <2>2, <2>3, <2>4 DEF RunTypes
    <2>6. Guarded[pc[n]] \notin {"idle", "start", "claim", "end"} => task[n] \in Tasks
      BY <2>2, GuardedSteps DEF Controlled
    <2>7. Controlled'
      BY <2>2, <2>3, <2>6, GuardedSteps DEF Controlled, RunTypes
    <2>8. QED
      BY <2>1, <2>5, <2>7
  <1>4. ASSUME NEW n \in Nodes, ClaimNextPendingTask(n) PROVE Goal
    BY <1>4 DEF ClaimNextPendingTask, Claim, RunTypes, DataTypes, LeaseTypes, TaskTypes, RowTypes, BoundTypes, Controlled
  <1>5. ASSUME NEW n \in Nodes, ClaimNothing(n) PROVE Goal
    <2>1. RunTypes'
      BY <1>5 DEF ClaimNothing, Claim, RunTypes, DataTypes, Controlled
    <2>2. DataTypes'
      <3>1. LeaseTypes'
        BY <1>5 DEF ClaimNothing, Claim, LeaseTypes, DataTypes, RunTypes, Controlled
      <3>2. TaskTypes'
        BY <1>5, ClaimTypes DEF ClaimNothing, TaskTypes, DataTypes
      <3>3. RowTypes'
        BY <1>5 DEF ClaimNothing, Claim, RowTypes, DataTypes, RunTypes, Controlled
      <3>4. BoundTypes'
        BY <1>5 DEF ClaimNothing, Claim, BoundTypes, DataTypes, RunTypes, Controlled
      <3>5. QED
        BY <3>1, <3>2, <3>3, <3>4 DEF DataTypes
    <2>3. Controlled'
      BY <1>5 DEF ClaimNothing, Claim, Controlled, RunTypes
    <2>4. QED
      BY <2>1, <2>2, <2>3
  <1>6. ASSUME NEW n \in Nodes, NextBatch(n) \/ DeleteInterrupted(n) PROVE Goal
    <2>1. RunTypes'
      BY <1>6 DEF NextBatch, DeleteInterrupted, RunTypes, DataTypes, Controlled
    <2>2. DataTypes'
      <3>1. LeaseTypes'
        BY <1>6 DEF NextBatch, DeleteInterrupted, LeaseTypes, DataTypes, RunTypes, Controlled
      <3>2. TaskTypes'
        BY <1>6 DEF NextBatch, DeleteInterrupted, TaskTypes, DataTypes, RunTypes, Controlled
      <3>3. RowTypes'
        BY <1>6 DEF NextBatch, DeleteInterrupted, RowTypes, DataTypes, RunTypes, Controlled
      <3>4. BoundTypes'
        BY <1>6 DEF NextBatch, DeleteInterrupted, BoundTypes, DataTypes, RunTypes, Controlled
      <3>5. QED
        BY <3>1, <3>2, <3>3, <3>4 DEF DataTypes
    <2>3. Controlled'
      BY <1>6 DEF NextBatch, DeleteInterrupted, Controlled, RunTypes
    <2>4. QED
      BY <2>1, <2>2, <2>3
  <1>7. ASSUME NEW n \in Nodes, ChooseBatch(n) PROVE Goal
    BY <1>7 DEF ChooseBatch, RunTypes, DataTypes, LeaseTypes, TaskTypes, RowTypes, BoundTypes, Controlled
  <1>8. ASSUME NEW n \in Nodes, DeleteBatch(n) PROVE Goal
    <2>1. RunTypes'
      <3>1. Deleted(n) \in Nat
        BY DeletedIsNat DEF Deleted
      <3>2. IsLast(Deleted(n)) \in BOOLEAN
        BY DEF IsLast
      <3>3. total' \in [Nodes -> Nat] /\ last' \in [Nodes -> BOOLEAN]
        BY <1>8, <3>1, <3>2 DEF DeleteBatch, RunTypes
      <3>4. QED
        BY <1>8, <3>3 DEF DeleteBatch, RunTypes
    <2>2. DataTypes'
      <3>1. LeaseTypes'
        BY <1>8 DEF DeleteBatch, DeleteTarget, Deleted, IsLast, LeaseTypes, DataTypes, RunTypes, Controlled
      <3>2. TaskTypes'
        BY <1>8 DEF DeleteBatch, DeleteTarget, Deleted, IsLast, TaskTypes, DataTypes, RunTypes, Controlled
      <3>3. RowTypes'
        BY <1>8, DeleteTargetTypes DEF DeleteBatch, RowTypes, DataTypes, Controlled
      <3>4. BoundTypes'
        BY <1>8 DEF DeleteBatch, DeleteTarget, Deleted, IsLast, BoundTypes, DataTypes, RunTypes, Controlled
      <3>5. QED
        BY <3>1, <3>2, <3>3, <3>4 DEF DataTypes
    <2>3. Controlled'
      BY <1>8 DEF DeleteBatch, DeleteTarget, Deleted, IsLast, Controlled, RunTypes
    <2>4. QED
      BY <2>1, <2>2, <2>3
  <1>9. ASSUME NEW n \in Nodes, DeleteFails(n) PROVE Goal
    <2>1. RunTypes'
      BY <1>9 DEF DeleteFails, DeleteTarget, RunTypes, DataTypes, Controlled
    <2>2. DataTypes'
      <3>1. LeaseTypes'
        BY <1>9 DEF DeleteFails, DeleteTarget, LeaseTypes, DataTypes, RunTypes, Controlled
      <3>2. TaskTypes'
        BY <1>9 DEF DeleteFails, DeleteTarget, TaskTypes, DataTypes, RunTypes, Controlled
      <3>3. RowTypes'
        BY <1>9, DeleteTargetTypes DEF DeleteFails, RowTypes, DataTypes, Controlled
      <3>4. BoundTypes'
        BY <1>9 DEF DeleteFails, DeleteTarget, BoundTypes, DataTypes, RunTypes, Controlled
      <3>5. QED
        BY <3>1, <3>2, <3>3, <3>4 DEF DataTypes
    <2>3. Controlled'
      BY <1>9 DEF DeleteFails, DeleteTarget, Controlled, RunTypes
    <2>4. QED
      BY <2>1, <2>2, <2>3
  <1>10. ASSUME NEW n \in Nodes, UpdateTaskProgress(n) PROVE Goal
    BY <1>10 DEF UpdateTaskProgress, RunTypes, DataTypes, LeaseTypes, TaskTypes, RowTypes, BoundTypes, Controlled
  <1>11. ASSUME NEW n \in Nodes, MarkTaskSucceeded(n) \/ MarkTaskFailed(n) PROVE Goal
    <2>1. RunTypes'
      BY <1>11 DEF MarkTaskSucceeded, MarkTaskFailed, MarkTask, RunTypes, DataTypes, Controlled
    <2>2. DataTypes'
      <3>1. LeaseTypes'
        BY <1>11 DEF MarkTaskSucceeded, MarkTaskFailed, MarkTask, LeaseTypes, DataTypes, RunTypes, Controlled
      <3>2. TaskTypes'
        BY <1>11 DEF MarkTaskSucceeded, MarkTaskFailed, MarkTask, TaskTypes, DataTypes, RunTypes, Controlled
      <3>3. RowTypes'
        BY <1>11 DEF MarkTaskSucceeded, MarkTaskFailed, MarkTask, RowTypes, DataTypes, RunTypes, Controlled
      <3>4. BoundTypes'
        BY <1>11 DEF MarkTaskSucceeded, MarkTaskFailed, MarkTask, BoundTypes, DataTypes, RunTypes, Controlled
      <3>5. QED
        BY <3>1, <3>2, <3>3, <3>4 DEF DataTypes
    <2>3. Controlled'
      BY <1>11 DEF MarkTaskSucceeded, MarkTaskFailed, MarkTask, Controlled, RunTypes
    <2>4. QED
      BY <2>1, <2>2, <2>3
  <1>12. ASSUME NEW n \in Nodes, End(n) \/ Crash(n) PROVE Goal
    <2>1. /\ Leave(n) /\ Return(n)
          /\ UNCHANGED taskVars
          /\ UNCHANGED faults \/ Fault
          /\ UNCHANGED rowVars \/ (DeleteTarget(n) /\ pc[n] = "deleting")
          /\ UNCHANGED lease \/ lease' = [lease EXCEPT !.owner = NoNode, !.live = FALSE]
      <3>1. CASE End(n)
        BY <3>1 DEF End, ReleaseTaskLease, LeaveWithoutRelease
      <3>2. CASE Crash(n)
        BY <3>2 DEF Crash, LeaveWithoutRelease
      <3>3. QED
        BY <1>12, <3>1, <3>2
    <2>2. RunTypes' /\ Controlled'
      BY <2>1 DEF Leave, Return, RunTypes, Controlled
    <2>3. DataTypes'
      <3>1. LeaseTypes'
        BY <2>1 DEF Leave, DeleteTarget, LeaseTypes, DataTypes, RunTypes, Controlled
      <3>2. TaskTypes'
        BY <2>1 DEF Leave, DeleteTarget, TaskTypes, DataTypes, RunTypes, Controlled
      <3>3. RowTypes'
        BY <2>1, DeletedIsNat DEF Leave, DeleteTarget, RowTypes, DataTypes, RunTypes, Controlled
      <3>4. BoundTypes'
        BY <2>1 DEF Leave, DeleteTarget, BoundTypes, DataTypes, RunTypes, Controlled
      <3>5. QED
        BY <3>1, <3>2, <3>3, <3>4 DEF DataTypes
    <2>4. QED
      BY <2>2, <2>3
  <1>13. ASSUME NEW n \in Nodes, RenewalStops(n) \/ Timeout(n) PROVE Goal
    <2>1. RunTypes'
      BY <1>13 DEF RenewalStops, RenewalGivesUp, Timeout, ContextEnds, RunTypes, DataTypes, Controlled
    <2>2. DataTypes'
      <3>1. LeaseTypes'
        BY <1>13 DEF RenewalStops, RenewalGivesUp, Timeout, ContextEnds, LeaseTypes, DataTypes, RunTypes, Controlled
      <3>2. TaskTypes'
        BY <1>13 DEF RenewalStops, RenewalGivesUp, Timeout, ContextEnds, TaskTypes, DataTypes, RunTypes, Controlled
      <3>3. RowTypes'
        BY <1>13 DEF RenewalStops, RenewalGivesUp, Timeout, ContextEnds, RowTypes, DataTypes, RunTypes, Controlled
      <3>4. BoundTypes'
        BY <1>13 DEF RenewalStops, RenewalGivesUp, Timeout, ContextEnds, BoundTypes, DataTypes, RunTypes, Controlled
      <3>5. QED
        BY <3>1, <3>2, <3>3, <3>4 DEF DataTypes
    <2>3. Controlled'
      BY <1>13 DEF RenewalStops, RenewalGivesUp, Timeout, ContextEnds, Controlled, RunTypes
    <2>4. QED
      BY <2>1, <2>2, <2>3
  <1>14. CASE Expire
    <2>1. RunTypes'
      BY <1>14 DEF Expire, LeaseExpires, RunTypes, DataTypes, Controlled
    <2>2. DataTypes'
      <3>1. LeaseTypes'
        BY <1>14 DEF Expire, LeaseExpires, LeaseTypes, DataTypes, RunTypes, Controlled
      <3>2. TaskTypes'
        BY <1>14 DEF Expire, LeaseExpires, TaskTypes, DataTypes, RunTypes, Controlled
      <3>3. RowTypes'
        BY <1>14 DEF Expire, LeaseExpires, RowTypes, DataTypes, RunTypes, Controlled
      <3>4. BoundTypes'
        BY <1>14 DEF Expire, LeaseExpires, BoundTypes, DataTypes, RunTypes, Controlled
      <3>5. QED
        BY <3>1, <3>2, <3>3, <3>4 DEF DataTypes
    <2>3. Controlled'
      BY <1>14 DEF Expire, LeaseExpires, Controlled, RunTypes
    <2>4. QED
      BY <2>1, <2>2, <2>3
  <1>15. CASE UNCHANGED vars
    BY <1>15 DEF vars, RunTypes, DataTypes, LeaseTypes, TaskTypes, RowTypes, BoundTypes, Controlled
  <1>16. QED
    BY <1>1, <1>2, <1>3, <1>4, <1>5, <1>6, <1>7, <1>8, <1>9, <1>10, <1>11, <1>12, <1>13,
       <1>14, <1>15 DEF Next, WorkerStep

\* Every variable keeps its type, and a node has a token exactly while it runs.
THEOREM TypeCorrect == Spec => []TypeOK
  BY InitTypeOK, StepTypeOK, PTL DEF Spec

-----------------------------------------------------------------------------
(* The lease.                                                              *)

\* What a step of a worker or of time does to lease and guards.
LeaseStep(n) ==
  \/ UNCHANGED <<lease, held, passed>>
  \/ held[n] = 0 /\ AcquireTaskLease(n)
  \/ CheckPasses(n)
  \/ held[n] # 0 /\ (ReleaseTaskLease(n) \/ LeaveWithoutRelease(n))

LEMMA LeaseStepMaps ==
  ASSUME TypeOK, NEW n \in Nodes, LeaseStep(n)
  PROVE  [Fencing!Next]_Fencing!vars
  <1> USE DEF Fencing!vars, Fencing!Next
  <1>0. lease \in [owner : Nodes \cup {NoNode}, token : Nat, live : BOOLEAN]
        /\ held \in [Nodes -> Nat]
    BY DEF TypeOK, LeaseTypeOK
  <1>1. CASE UNCHANGED <<lease, held, passed>>
    BY <1>1
  <1>2. CASE held[n] = 0 /\ AcquireTaskLease(n)
    BY <1>0, <1>2 DEF AcquireTaskLease, Fencing!Take
  <1>3. CASE CheckPasses(n)
    BY <1>0, <1>3 DEF CheckPasses, RenewTaskLease, Fencing!Pass
  <1>4. CASE held[n] # 0 /\ ReleaseTaskLease(n)
    <2>1. /\ lease'.token = lease.token
          /\ lease'.live = lease.live \/ (lease'.live = FALSE /\ lease.token = held[n])
      BY <1>0, <1>4 DEF ReleaseTaskLease, RenewTaskLease
    <2>2. Fencing!Leave(n)
      BY <1>0, <1>4, <2>1 DEF ReleaseTaskLease, Leave, Fencing!Leave
    <2>3. QED
      BY <2>2
  <1>5. CASE held[n] # 0 /\ LeaveWithoutRelease(n)
    BY <1>0, <1>5 DEF LeaveWithoutRelease, Leave, Fencing!Leave
  <1>6. QED
    BY <1>1, <1>2, <1>3, <1>4, <1>5 DEF LeaseStep

LEMMA StepFencing == TypeOK /\ [Next]_vars => [Fencing!Next]_Fencing!vars
  <1> SUFFICES ASSUME TypeOK, [Next]_vars PROVE [Fencing!Next]_Fencing!vars
    OBVIOUS
  <1>0. \A n \in Nodes : held[n] # 0 <=> pc[n] # "idle"
    BY DEF TypeOK, Running
  <1>1. ASSUME NEW n \in Nodes, Run(n) \/ WorkerStep(n) \/ Crash(n) \/ RenewalStops(n) \/ Timeout(n)
        PROVE  LeaseStep(n)
    <2> USE DEF LeaseStep, leaseVars
    <2>1. CASE Run(n)
      BY <1>0, <2>1 DEF Run
    <2>2. CASE Check(n)
      BY <2>2 DEF Check, CheckFails
    <2>3. CASE End(n) \/ Crash(n)
      BY <1>0, <2>3 DEF End, Crash
    <2>4. CASE RenewalStops(n) \/ Timeout(n)
      BY <2>4 DEF RenewalStops, Timeout, RenewalGivesUp, ContextEnds
    <2>5. CASE \/ ClaimNextPendingTask(n) \/ ClaimNothing(n) \/ NextBatch(n) \/ ChooseBatch(n)
               \/ DeleteInterrupted(n) \/ DeleteBatch(n) \/ DeleteFails(n)
               \/ UpdateTaskProgress(n) \/ MarkTaskSucceeded(n) \/ MarkTaskFailed(n)
      BY <2>5 DEF ClaimNextPendingTask, ClaimNothing, NextBatch, ChooseBatch, DeleteInterrupted,
         DeleteBatch, DeleteFails, UpdateTaskProgress, MarkTaskSucceeded, MarkTaskFailed
    <2>6. QED
      BY <1>1, <2>1, <2>2, <2>3, <2>4, <2>5 DEF WorkerStep
  <1>2. ASSUME NEW t \in Tasks, CreateTask(t) \/ CancelTask(t) \/ GoesStale(t)
        PROVE  UNCHANGED Fencing!vars
    BY <1>2 DEF CreateTask, CancelTask, GoesStale, leaseVars, Fencing!vars
  <1>3. CASE Expire
    BY <1>3 DEF Expire, LeaseExpires, TypeOK, LeaseTypeOK, Fencing!Next, Fencing!Lapse
  <1>4. CASE UNCHANGED vars
    BY <1>4 DEF vars, leaseVars, Fencing!vars
  <1>5. QED
    BY <1>1, <1>2, <1>3, <1>4, LeaseStepMaps DEF Next

\* The lease of the periodic tasks, with renewals that come late, guards that
\* ask in between, crashes and failing statements, is a fenced lease.
THEOREM ImplementsFencedLease == Spec => KeepsFencing
  <1>1. Init => Fencing!Init
    BY DEF Init, LeaseInit, Fencing!Init
  <1>2. QED
    BY <1>1, StepFencing, TypeCorrect, PTL DEF Spec, Fencing!Spec, KeepsFencing

\* No two runs have the same fencing token, and none a token not yet given.
TokensDiffer ==
  /\ \A n \in Nodes : held[n] <= lease.token
  /\ \A m, n \in Nodes : held[m] = held[n] /\ held[m] # 0 => m = n

\* A fencing token names one run: two nodes that both believe to own the lease
\* have different tokens (AcquireTaskLease, whatever expired in between).
THEOREM TokensNameRuns == Spec => []TokensDiffer
  <1>1. Init => TokensDiffer
    BY DEF Init, LeaseInit, TokensDiffer
  <1>2. TypeOK /\ TokensDiffer /\ [Fencing!Next]_Fencing!vars => TokensDiffer'
    <2> SUFFICES ASSUME TypeOK, TokensDiffer, [Fencing!Next]_Fencing!vars PROVE TokensDiffer'
      OBVIOUS
    <2>0. lease.token \in Nat /\ held \in [Nodes -> Nat]
      BY DEF TypeOK, LeaseTypeOK
    <2>1. ASSUME NEW n \in Nodes, Fencing!Take(n) PROVE TokensDiffer'
      BY <2>0, <2>1 DEF Fencing!Take, TokensDiffer
    <2>2. ASSUME NEW n \in Nodes, Fencing!Leave(n) PROVE TokensDiffer'
      BY <2>0, <2>2 DEF Fencing!Leave, TokensDiffer
    <2>3. CASE Fencing!Lapse \/ (\E n \in Nodes : Fencing!Pass(n)) \/ UNCHANGED Fencing!vars
      BY <2>3 DEF Fencing!Lapse, Fencing!Pass, Fencing!vars, TokensDiffer
    <2>4. QED
      BY <2>1, <2>2, <2>3 DEF Fencing!Next
  <1>3. QED
    BY <1>1, <1>2, TypeCorrect, StepFencing, PTL DEF Spec

-----------------------------------------------------------------------------
(* The rows.                                                               *)

\* Workers have only counted what was deleted for their task.
Backed ==
  /\ NeverOvercounts
  /\ \A n \in Nodes : task[n] \in Tasks => total[n] <= removed[task[n]]

\* A batch in flight is full, or all there is to delete.
BatchIsFull ==
  \A n \in Nodes : pc[n] = "deleting" =>
    Cardinality(target[n]) = BatchSize \/ Matches[task[n]] \cap rows \subseteq target[n]

\* The worker has seen a batch that was not full.
Finishing(n) == pc[n] \in {"finish", "succeed"} \/ (pc[n] \in {"after", "progress"} /\ last[n])

LastIsLast ==
  \A n \in Nodes : Finishing(n) /\ task[n] \notin cut => Matches[task[n]] \cap rows = {}

Complete == BatchIsFull /\ LastIsLast /\ SucceededIsComplete

LEMMA DeleteTargetEffect ==
  ASSUME TypeOK, NEW n \in Nodes, task[n] \in Tasks, DeleteTarget(n)
  PROVE  /\ rows' \subseteq rows /\ cut \subseteq cut'
         /\ removed'[task[n]] = removed[task[n]] + Deleted(n)
         /\ \A t \in Tasks : removed[t] <= removed'[t]
  <1>1. RunTypes /\ RowTypes
    BY TypeParts DEF DataTypes
  <1>2. Deleted(n) \in Nat
    BY <1>1, DeletedIsNat DEF Deleted
  <1>3. removed' = [removed EXCEPT ![task[n]] = removed[task[n]] + Deleted(n)]
    BY DEF DeleteTarget, Deleted
  <1>4. removed'[task[n]] = removed[task[n]] + Deleted(n) /\ \A t \in Tasks : removed[t] <= removed'[t]
    BY <1>1, <1>2, <1>3 DEF RowTypes
  <1>5. QED
    BY <1>4 DEF DeleteTarget

\* Steps that leave counts alone, or only let what was removed grow.
LEMMA BackedFrame ==
  ASSUME TypeOK, TypeOK', Backed, UNCHANGED deletedRows,
         \A t \in Tasks : removed[t] <= removed'[t],
         \A n \in Nodes : task'[n] = 0 \/ (task'[n] = task[n] /\ total'[n] = total[n])
  PROVE  Backed'
  <1>1. /\ deletedRows \in [Tasks -> Nat] /\ removed \in [Tasks -> Nat] /\ removed' \in [Tasks -> Nat]
        /\ total \in [Nodes -> Nat] /\ 0 \notin Tasks
    BY CleanupAssumption DEF TypeOK, CleanupAssumption
  <1>2. NeverOvercounts'
    BY <1>1 DEF Backed, NeverOvercounts
  <1>3. ASSUME NEW n \in Nodes, task'[n] \in Tasks PROVE total'[n] <= removed'[task'[n]]
    <2>1. task[n] = task'[n] /\ total[n] = total'[n]
      BY <1>1, <1>3
    <2>2. QED
      BY <1>1, <1>3, <2>1 DEF Backed
  <1>4. QED
    BY <1>2, <1>3 DEF Backed

LEMMA StepBacked == TypeOK /\ Backed /\ [Next]_vars => Backed'
  <1> SUFFICES ASSUME TypeOK, Backed, [Next]_vars PROVE Backed'
    OBVIOUS
  <1>0. TypeOK'
    BY StepTypeOK
  <1>t. /\ deletedRows \in [Tasks -> Nat] /\ removed \in [Tasks -> Nat]
        /\ total \in [Nodes -> Nat] /\ task \in [Nodes -> Tasks \cup {0}] /\ 0 \notin Tasks
        /\ \A n \in Nodes : pc[n] \in {"deleting", "progress", "succeed", "fail"} => task[n] \in Tasks
    BY CleanupAssumption DEF TypeOK, CleanupAssumption
  <1> DEFINE Frame == /\ UNCHANGED deletedRows
                      /\ \A t \in Tasks : removed[t] <= removed'[t]
                      /\ \A n \in Nodes : task'[n] = 0 \/ (task'[n] = task[n] /\ total'[n] = total[n])
  <1>1. Frame => Backed'
    BY <1>0, BackedFrame
  <1>2. ASSUME UNCHANGED <<deletedRows, removed, task, total>> PROVE Frame
    BY <1>2, <1>t
  <1>3. ASSUME NEW n \in Nodes, End(n) \/ Crash(n) PROVE Frame
    <2>1. /\ UNCHANGED deletedRows
          /\ task' = [task EXCEPT ![n] = 0] /\ total' = [total EXCEPT ![n] = 0]
          /\ UNCHANGED removed \/ (DeleteTarget(n) /\ pc[n] = "deleting")
      <3>1. CASE End(n)
        BY <3>1 DEF End, Return, taskVars, rowVars
      <3>2. CASE Crash(n)
        BY <3>2 DEF Crash, Return, taskVars, rowVars
      <3>3. QED
        BY <1>3, <3>1, <3>2
    <2>2. \A t \in Tasks : removed[t] <= removed'[t]
      BY <1>t, <2>1, DeleteTargetEffect
    <2>3. QED
      BY <1>t, <2>1, <2>2
  <1>4. ASSUME NEW n \in Nodes, DeleteFails(n) PROVE Frame
    <2>1. UNCHANGED <<deletedRows, task, total>> /\ (UNCHANGED removed \/ DeleteTarget(n))
      BY <1>4 DEF DeleteFails, taskVars, rowVars
    <2>2. \A t \in Tasks : removed[t] <= removed'[t]
      BY <1>t, <1>4, <2>1, DeleteTargetEffect DEF DeleteFails
    <2>3. QED
      BY <2>1, <2>2
  <1>5. ASSUME NEW n \in Nodes, ClaimNextPendingTask(n) PROVE Backed'
    <2>1. PICK t \in Tasks : /\ task' = [task EXCEPT ![n] = t]
                             /\ total' = [total EXCEPT ![n] = deletedRows[t]]
                             /\ UNCHANGED <<deletedRows, removed>>
      BY <1>5 DEF ClaimNextPendingTask, Claim, rowVars
    <2>2. QED
      BY <1>t, <2>1 DEF Backed, NeverOvercounts
  <1>6. ASSUME NEW n \in Nodes, DeleteBatch(n) PROVE Backed'
    <2>1. /\ pc[n] = "deleting" /\ DeleteTarget(n) /\ UNCHANGED <<deletedRows, task>>
          /\ total' = [total EXCEPT ![n] = total[n] + Deleted(n)]
      BY <1>6 DEF DeleteBatch, taskVars
    <2>2. Deleted(n) \in Nat
      BY TypeParts, DeletedIsNat DEF Deleted
    <2>3. /\ removed'[task[n]] = removed[task[n]] + Deleted(n)
          /\ \A t \in Tasks : removed[t] <= removed'[t]
      BY <1>t, <2>1, DeleteTargetEffect
    <2>4. removed' \in [Tasks -> Nat]
      BY <1>0 DEF TypeOK
    <2>5. NeverOvercounts'
      BY <1>t, <2>1, <2>3, <2>4 DEF Backed, NeverOvercounts
    <2>6. ASSUME NEW m \in Nodes, task'[m] \in Tasks PROVE total'[m] <= removed'[task'[m]]
      <3>1. task'[m] = task[m] /\ total[m] <= removed[task[m]] /\ removed[task[m]] <= removed'[task[m]]
        BY <2>1, <2>3, <2>6 DEF Backed
      <3>2. CASE m = n
        BY <1>t, <2>1, <2>2, <2>3, <3>1, <3>2
      <3>3. CASE m # n
        BY <1>t, <2>1, <2>4, <2>6, <3>1, <3>3
      <3>4. QED
        BY <3>2, <3>3
    <2>7. QED
      BY <2>5, <2>6 DEF Backed
  <1>7. ASSUME NEW n \in Nodes, UpdateTaskProgress(n) \/ MarkTaskSucceeded(n) \/ MarkTaskFailed(n)
        PROVE  Backed'
    <2>1. /\ UNCHANGED <<removed, task, total>> /\ task[n] \in Tasks
          /\ \/ UNCHANGED deletedRows
             \/ deletedRows' = [deletedRows EXCEPT ![task[n]] = total[n]]
      BY <1>t, <1>7 DEF UpdateTaskProgress, MarkTaskSucceeded, MarkTaskFailed, MarkTask, taskVars, rowVars, runVars
    <2>2. QED
      BY <1>t, <2>1 DEF Backed, NeverOvercounts
  <1>8. ASSUME NEW n \in Nodes,
               \/ Run(n) \/ Check(n) \/ ClaimNothing(n) \/ NextBatch(n) \/ ChooseBatch(n)
               \/ DeleteInterrupted(n) \/ RenewalStops(n) \/ Timeout(n)
        PROVE  UNCHANGED <<deletedRows, removed, task, total>>
    BY <1>8 DEF Run, Check, ClaimNothing, Claim, NextBatch, ChooseBatch, DeleteInterrupted,
       RenewalStops, Timeout, taskVars, rowVars, runVars
  <1>9. ASSUME NEW t \in Tasks, CreateTask(t) \/ CancelTask(t) \/ GoesStale(t)
        PROVE  UNCHANGED <<deletedRows, removed, task, total>>
    BY <1>9 DEF CreateTask, CancelTask, GoesStale, rowVars, runVars
  <1>10. CASE Expire \/ UNCHANGED vars
    BY <1>1, <1>2, <1>10 DEF Expire, vars, taskVars, rowVars, runVars
  <1>11. QED
    BY <1>1, <1>2, <1>3, <1>4, <1>5, <1>6, <1>7, <1>8, <1>9, <1>10 DEF Next, WorkerStep

\* deleted_rows never reports more than was deleted (UpdateTaskProgress,
\* MarkTaskSucceeded and MarkTaskFailed, of any workers in any order).
THEOREM CountsAreBacked == Spec => []NeverOvercounts
  <1>1. Init => Backed
    BY CleanupAssumption DEF Init, Backed, NeverOvercounts, CleanupAssumption
  <1>2. Backed => NeverOvercounts
    BY DEF Backed
  <1>3. QED
    BY <1>1, <1>2, TypeCorrect, StepBacked, PTL DEF Spec

\* Steps after which nobody chooses a batch, sees the last one or succeeds who
\* did not before.
LEMMA CompleteFrame ==
  ASSUME Complete, rows' \subseteq rows, cut \subseteq cut',
         \A n \in Nodes : /\ pc'[n] = "deleting" => /\ pc[n] = "deleting" /\ task'[n] = task[n]
                                                    /\ target'[n] = target[n]
                          /\ Finishing(n)' => Finishing(n) /\ task'[n] = task[n],
         \A t \in Tasks : status'[t] = "succeeded" => status[t] = "succeeded"
  PROVE  Complete'
  <1>1. BatchIsFull'
    BY DEF Complete, BatchIsFull
  <1>2. LastIsLast'
    BY DEF Complete, LastIsLast
  <1>3. SucceededIsComplete'
    BY DEF Complete, SucceededIsComplete
  <1>4. QED
    BY <1>1, <1>2, <1>3 DEF Complete

LEMMA StepComplete == TypeOK /\ Complete /\ [Next]_vars => Complete'
  <1> SUFFICES ASSUME TypeOK, Complete, [Next]_vars PROVE Complete'
    OBVIOUS
  <1>t. /\ pc \in [Nodes -> Steps] /\ task \in [Nodes -> Tasks \cup {0}]
        /\ target \in [Nodes -> SUBSET Rows] /\ last \in [Nodes -> BOOLEAN]
        /\ status \in [Tasks -> Status]
        /\ \A n \in Nodes : pc[n] \in {"deleting", "progress", "succeed", "fail"} => task[n] \in Tasks
    BY DEF TypeOK
  <1> DEFINE Quiet(n) == /\ pc'[n] \notin {"deleting", "finish", "succeed", "after", "progress"}
                         /\ \A m \in Nodes \ {n} : /\ pc'[m] = pc[m] /\ task'[m] = task[m]
                                                    /\ target'[m] = target[m] /\ last'[m] = last[m]
             KeepsStatus == \A t \in Tasks : status'[t] = "succeeded" => status[t] = "succeeded"
  <1>1. ASSUME NEW n \in Nodes, Quiet(n), KeepsStatus, rows' \subseteq rows, cut \subseteq cut'
        PROVE  Complete'
    BY <1>1, CompleteFrame DEF Finishing
  <1>2. ASSUME NEW n \in Nodes,
               \/ Run(n) \/ ClaimNextPendingTask(n) \/ ClaimNothing(n) \/ NextBatch(n)
               \/ DeleteInterrupted(n) \/ MarkTaskFailed(n)
        PROVE  Complete'
    <2>1. Quiet(n)
      BY <1>t, <1>2 DEF Run, ClaimNextPendingTask, ClaimNothing, NextBatch, DeleteInterrupted,
         MarkTaskFailed, Goto, runVars
    <2>2. KeepsStatus
      BY <1>t, <1>2 DEF Run, ClaimNextPendingTask, ClaimNothing, Claim, NextBatch, DeleteInterrupted,
         MarkTaskFailed, MarkTask, taskVars
    <2>3. UNCHANGED <<rows, cut>>
      BY <1>2 DEF Run, ClaimNextPendingTask, ClaimNothing, NextBatch, DeleteInterrupted,
         MarkTaskFailed, rowVars
    <2>4. QED
      BY <1>1, <2>1, <2>2, <2>3
  <1>3. ASSUME NEW n \in Nodes, End(n) \/ Crash(n) \/ DeleteFails(n) PROVE Complete'
    <2>1. /\ UNCHANGED status
          /\ UNCHANGED rowVars \/ (pc[n] = "deleting" /\ DeleteTarget(n))
      <3>1. CASE End(n)
        BY <3>1 DEF End, taskVars
      <3>2. CASE Crash(n)
        BY <3>2 DEF Crash, taskVars
      <3>3. CASE DeleteFails(n)
        BY <3>3 DEF DeleteFails, taskVars
      <3>4. QED
        BY <1>3, <3>1, <3>2, <3>3
    <2>2. Quiet(n)
      BY <1>t, <1>3 DEF End, Crash, DeleteFails, Return, Goto
    <2>3. rows' \subseteq rows /\ cut \subseteq cut'
      BY <1>t, <2>1, DeleteTargetEffect DEF rowVars
    <2>4. QED
      BY <1>1, <2>1, <2>2, <2>3
  <1>4. ASSUME NEW n \in Nodes, Check(n) PROVE Complete'
    <2>1. /\ UNCHANGED <<status, rows, cut, task, target, last>>
          /\ pc[n] \in DOMAIN Guarded
          /\ pc' = [pc EXCEPT ![n] = "end"] \/ pc' = [pc EXCEPT ![n] = Guarded[pc[n]]]
      BY <1>4 DEF Check, CheckPasses, CheckFails, Goto, taskVars, rowVars, runVars
    <2>2. \A m \in Nodes \ {n} : pc'[m] = pc[m]
      BY <1>t, <2>1
    <2>3. pc'[n] = "end" \/ (pc'[n] = Guarded[pc[n]])
      BY <1>t, <2>1
    <2>4. /\ pc'[n] # "deleting" /\ pc'[n] \notin {"after", "finish"}
          /\ pc'[n] = "succeed" => pc[n] = "finish"
          /\ pc'[n] = "progress" => pc[n] = "after"
      BY <2>1, <2>3, GuardedSteps
    <2>5. QED
      BY <2>1, <2>2, <2>4, CompleteFrame DEF Finishing
  <1>5. ASSUME NEW n \in Nodes, ChooseBatch(n) PROVE Complete'
    <2>1. /\ UNCHANGED <<status, rows, cut, task, last>>
          /\ pc' = [pc EXCEPT ![n] = "deleting"]
      BY <1>5 DEF ChooseBatch, Goto, taskVars, rowVars
    <2>2. PICK T \in SUBSET (Matches[task[n]] \cap rows) :
            /\ Cardinality(T) = BatchSize \/ T = Matches[task[n]] \cap rows
            /\ target' = [target EXCEPT ![n] = T]
      BY <1>5 DEF ChooseBatch
    <2>3. BatchIsFull'
      <3>1. target'[n] = T /\ \A m \in Nodes \ {n} : target'[m] = target[m] /\ pc'[m] = pc[m]
        BY <1>t, <2>1, <2>2
      <3>2. QED
        BY <2>1, <2>2, <3>1 DEF Complete, BatchIsFull
    <2>4. LastIsLast'
      BY <1>t, <2>1 DEF Complete, LastIsLast, Finishing
    <2>5. SucceededIsComplete'
      BY <2>1 DEF Complete, SucceededIsComplete
    <2>6. QED
      BY <2>3, <2>4, <2>5 DEF Complete
  <1>6. ASSUME NEW n \in Nodes, DeleteBatch(n) PROVE Complete'
    <2>1. /\ pc[n] = "deleting" /\ DeleteTarget(n) /\ UNCHANGED <<status, task>>
          /\ last' = [last EXCEPT ![n] = IsLast(Deleted(n))]
          /\ target' = [target EXCEPT ![n] = {}]
          /\ pc' = [pc EXCEPT ![n] = IF Deleted(n) > 0 THEN "after" ELSE "finish"]
      BY <1>6 DEF DeleteBatch, Goto, taskVars
    <2>2. rows' \subseteq rows /\ cut \subseteq cut'
      BY <1>t, <2>1, DeleteTargetEffect
    <2>3. Deleted(n) \in Nat
      BY TypeParts, DeletedIsNat DEF Deleted
    <2>4. ASSUME Finishing(n)', task[n] \notin cut' PROVE Matches[task[n]] \cap rows' = {}
      <3>1. IsLast(Deleted(n))
        <4>1. CASE Deleted(n) > 0
          <5>1. pc'[n] = "after" /\ (last'[n] <=> IsLast(Deleted(n)))
            BY <1>t, <2>1, <4>1
          <5>2. QED
            BY <2>4, <5>1 DEF Finishing
        <4>2. CASE ~(Deleted(n) > 0)
          BY <2>3, <4>2, CleanupAssumption DEF IsLast, CleanupAssumption
        <4>3. QED
          BY <4>1, <4>2
      <3>2. target[n] \subseteq rows /\ rows' = rows \ target[n]
        BY <2>1, <2>4 DEF DeleteTarget
      <3>3. target[n] \cap rows = target[n]
        BY <3>2
      <3>4. Cardinality(target[n]) # BatchSize
        BY <3>1, <3>3, <2>3, CleanupAssumption DEF Deleted, IsLast, CleanupAssumption
      <3>5. Matches[task[n]] \cap rows \subseteq target[n]
        BY <2>1, <3>4 DEF Complete, BatchIsFull
      <3>6. QED
        BY <3>2, <3>5
    <2>5. \A m \in Nodes \ {n} : pc'[m] = pc[m] /\ target'[m] = target[m] /\ last'[m] = last[m]
      BY <1>t, <2>1
    <2>6. pc'[n] # "deleting"
      BY <1>t, <2>1
    <2>7. BatchIsFull'
      BY <2>1, <2>2, <2>5, <2>6 DEF Complete, BatchIsFull
    <2>8. LastIsLast'
      <3> SUFFICES ASSUME NEW m \in Nodes, Finishing(m)', task'[m] \notin cut'
                   PROVE  Matches[task'[m]] \cap rows' = {}
        BY DEF LastIsLast
      <3>1. CASE m = n
        BY <2>1, <2>4, <3>1
      <3>2. CASE m # n
        BY <2>1, <2>2, <2>5, <3>2 DEF Complete, LastIsLast, Finishing
      <3>3. QED
        BY <3>1, <3>2
    <2>9. SucceededIsComplete'
      BY <2>1, <2>2 DEF Complete, SucceededIsComplete
    <2>10. QED
      BY <2>7, <2>8, <2>9 DEF Complete
  <1>7. ASSUME NEW n \in Nodes, UpdateTaskProgress(n) PROVE Complete'
    <2>1. /\ pc[n] = "progress" /\ UNCHANGED <<status, rows, cut, task, target, last>>
          /\ pc' = [pc EXCEPT ![n] = IF last[n] THEN "finish" ELSE "loop"]
      BY <1>7 DEF UpdateTaskProgress, Goto, rowVars, runVars
    <2>2. QED
      BY <1>t, <2>1, CompleteFrame DEF Finishing
  <1>8. ASSUME NEW n \in Nodes, MarkTaskSucceeded(n) PROVE Complete'
    <2>1. /\ pc[n] = "succeed" /\ UNCHANGED <<rows, cut, task, target, last>>
          /\ pc' = [pc EXCEPT ![n] = "recompute"] \/ pc' = [pc EXCEPT ![n] = "end"]
          /\ UNCHANGED status \/ status' = [status EXCEPT ![task[n]] = "succeeded"]
      BY <1>8 DEF MarkTaskSucceeded, MarkTask, Goto, taskVars, rowVars, runVars
    <2>2. task[n] \notin cut => Matches[task[n]] \cap rows = {}
      BY <2>1 DEF Complete, LastIsLast, Finishing
    <2>3. SucceededIsComplete'
      BY <1>t, <2>1, <2>2 DEF Complete, SucceededIsComplete
    <2>4. BatchIsFull' /\ LastIsLast'
      BY <1>t, <2>1 DEF Complete, BatchIsFull, LastIsLast, Finishing
    <2>5. QED
      BY <2>3, <2>4 DEF Complete
  <1>9. ASSUME UNCHANGED <<rows, cut, pc, task, target, last>>, KeepsStatus PROVE Complete'
    BY <1>9, CompleteFrame DEF Finishing
  <1>10. ASSUME NEW t \in Tasks, CreateTask(t) \/ CancelTask(t) \/ GoesStale(t) PROVE Complete'
    BY <1>t, <1>9, <1>10 DEF CreateTask, CancelTask, GoesStale, rowVars, runVars
  <1>11. ASSUME NEW n \in Nodes, RenewalStops(n) \/ Timeout(n) PROVE Complete'
    BY <1>9, <1>11 DEF RenewalStops, Timeout, taskVars, rowVars, runVars
  <1>12. CASE Expire \/ UNCHANGED vars
    BY <1>9, <1>12 DEF Expire, vars, taskVars, rowVars, runVars
  <1>13. QED
    BY <1>2, <1>3, <1>4, <1>5, <1>6, <1>7, <1>8, <1>10, <1>11, <1>12 DEF Next, WorkerStep

\* A succeeded task has left no row behind (executeTask, across interruptions,
\* takeovers and crashes), unless a batch of it met another delete.
THEOREM SuccessMeansComplete == Spec => []SucceededIsComplete
  <1>1. Init => Complete
    BY DEF Init, Complete, BatchIsFull, LastIsLast, Finishing, SucceededIsComplete
  <1>2. Complete => SucceededIsComplete
    BY DEF Complete
  <1>3. QED
    BY <1>1, <1>2, TypeCorrect, StepComplete, PTL DEF Spec

=============================================================================
