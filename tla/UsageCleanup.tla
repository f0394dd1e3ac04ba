---------------------------- MODULE UsageCleanup ----------------------------
(***************************************************************************)
(* UsageCleanupService: administrators create and cancel tasks that delete *)
(* the usage logs matching a filter; a worker, run on one node at a time   *)
(* by ClusterTaskExecutor, claims a due task and deletes in batches.       *)
(* A worker stops when its guard does not pass or its context is done; the *)
(* task then stays running and is claimed again once it is stale.          *)
(***************************************************************************)
EXTENDS ClusterTaskLease, FiniteSets

CONSTANTS
  Rows,        \* usage logs, numbered by age
  Tasks,       \* cleanup tasks, numbered by created_at
  Matches,     \* per task: the rows its filters select
  BatchSize,   \* rows deleted by one statement
  MaxFaults    \* bound: crashes, failed statements, late renewals, timeouts,
               \* and runs that start when no task is due

ASSUME CleanupAssumption ==
  /\ IsFiniteSet(Rows)
  /\ Rows \subseteq Nat /\ Tasks \subseteq Nat \ {0}
  /\ Matches \in [Tasks -> SUBSET Rows]
  /\ BatchSize \in Nat \ {0} /\ MaxFaults \in Nat

VARIABLES
  status,       \* per task: the status column, "none" before it is created
  stale,        \* per task: started_at is longer ago than the task timeout
  deletedRows,  \* per task: the deleted_rows column
  rows,         \* the usage logs that are left
  removed,      \* history, per task: rows its workers have really deleted
  cut,          \* history: tasks of which a batch met another worker's delete
  pc,           \* per node: next step of runOnce
  task,         \* per node: the claimed task, 0 without one
  total,        \* per node: deletedTotal
  target,       \* per node: rows chosen by the DELETE in flight
  last,         \* per node: the last batch was not full
  faults        \* for the bound

taskVars == <<status, stale, deletedRows>>
rowVars == <<rows, removed, cut>>
runVars == <<task, total, target, last>>
vars == <<leaseVars, taskVars, rowVars, pc, runVars, faults>>

Status == {"none", "pending", "running", "succeeded", "failed", "canceled"}
Ended == {"succeeded", "failed", "canceled"}

\* guard.Check is called before each of these steps.
Guarded == [start |-> "claim", before |-> "delete", after |-> "progress",
            finish |-> "succeed", failing |-> "fail", recompute |-> "end"]

Steps == DOMAIN Guarded \cup {"idle", "claim", "loop", "delete", "deleting", "progress",
                              "succeed", "fail", "end"}

TypeOK ==
  /\ LeaseTypeOK
  /\ status \in [Tasks -> Status]
  /\ stale \in [Tasks -> BOOLEAN]
  /\ deletedRows \in [Tasks -> Nat] /\ removed \in [Tasks -> Nat]
  /\ rows \subseteq Rows /\ cut \subseteq Tasks
  /\ pc \in [Nodes -> Steps]
  /\ task \in [Nodes -> Tasks \cup {0}]
  /\ total \in [Nodes -> Nat]
  /\ target \in [Nodes -> SUBSET Rows]
  /\ last \in [Nodes -> BOOLEAN]
  /\ faults \in 0..MaxFaults
  /\ \A n \in Nodes : /\ Running(n) <=> pc[n] # "idle"
                      /\ pc[n] \notin {"idle", "start", "claim", "end"} => task[n] \in Tasks

Init ==
  /\ LeaseInit
  /\ status = [t \in Tasks |-> "none"]
  /\ stale = [t \in Tasks |-> FALSE]
  /\ deletedRows = [t \in Tasks |-> 0] /\ removed = [t \in Tasks |-> 0]
  /\ rows = Rows /\ cut = {}
  /\ pc = [n \in Nodes |-> "idle"]
  /\ task = [n \in Nodes |-> 0]
  /\ total = [n \in Nodes |-> 0]
  /\ target = [n \in Nodes |-> {}]
  /\ last = [n \in Nodes |-> FALSE]
  /\ faults = 0

-----------------------------------------------------------------------------
(* Administrators.                                                         *)

CreateTask(t) ==
  /\ status[t] = "none"
  /\ \A u \in Tasks : u < t => status[u] # "none"
  /\ status' = [status EXCEPT ![t] = "pending"]
  /\ UNCHANGED <<leaseVars, stale, deletedRows, rowVars, pc, runVars, faults>>

\* The conditional update; the read before it only chooses the error.
CancelTask(t) ==
  /\ status[t] \in {"pending", "running"}
  /\ status' = [status EXCEPT ![t] = "canceled"]
  /\ UNCHANGED <<leaseVars, stale, deletedRows, rowVars, pc, runVars, faults>>

-----------------------------------------------------------------------------
(* The worker.                                                             *)

Fault == faults < MaxFaults /\ faults' = faults + 1

Goto(n, step) == pc' = [pc EXCEPT ![n] = step]

\* Mutant: a task whose worker is gone is not claimed again.
ClaimablePending(t) == status[t] = "pending"

Claimable(t) == status[t] = "pending" \/ (status[t] = "running" /\ stale[t])

\* runOnce: the timing wheel calls it, or CreateTask.
Run(n) ==
  /\ pc[n] = "idle"
  /\ AcquireTaskLease(n)
  /\ Goto(n, "start")
  /\ IF \E t \in Tasks : Claimable(t) THEN UNCHANGED faults ELSE Fault
  /\ UNCHANGED <<taskVars, rowVars, runVars>>

\* A guard that does not pass, or cannot be asked, ends the run.
Check(n) ==
  /\ pc[n] \in DOMAIN Guarded
  /\ \/ CheckPasses(n) /\ Goto(n, Guarded[pc[n]]) /\ UNCHANGED faults
     \/ CheckFails(n) /\ Goto(n, "end") /\ UNCHANGED faults
     \/ Fault /\ Goto(n, "end") /\ UNCHANGED leaseVars
  /\ UNCHANGED <<taskVars, rowVars, runVars>>

\* UPDATE ... FROM next, the oldest task due that nobody has locked: SKIP LOCKED
\* passes over a task that another statement is just writing.
Claim(t) ==
  /\ Claimable(t)
  /\ status' = [status EXCEPT ![t] = "running"]
  /\ stale' = [stale EXCEPT ![t] = FALSE]
  /\ UNCHANGED deletedRows

ClaimNextPendingTask(n) ==
  /\ pc[n] = "claim"
  /\ ~done[n]
  /\ \E t \in Tasks :
       /\ Claim(t)
       /\ task' = [task EXCEPT ![n] = t]
       /\ total' = [total EXCEPT ![n] = deletedRows[t]]
       /\ Goto(n, "loop")
  /\ UNCHANGED <<leaseVars, rowVars, target, last, faults>>

\* No task is due or the context is done; or the statement fails, with or
\* without effect, or finds each due task locked.
ClaimNothing(n) ==
  /\ pc[n] = "claim"
  /\ \/ done[n] /\ UNCHANGED <<taskVars, faults>>
     \/ (\A t \in Tasks : ~Claimable(t)) /\ UNCHANGED <<taskVars, faults>>
     \/ Fault /\ ((\E t \in Tasks : Claim(t)) \/ UNCHANGED taskVars)
  /\ Goto(n, "end")
  /\ UNCHANGED <<leaseVars, rowVars, runVars>>

\* The head of executeTask's loop: the context, then isTaskCanceled.
NextBatch(n) ==
  /\ pc[n] = "loop"
  /\ \/ /\ Goto(n, IF done[n] \/ status[task[n]] = "canceled" THEN "end" ELSE "before")
        /\ UNCHANGED faults
     \/ Fault /\ Goto(n, "failing")
  /\ UNCHANGED <<leaseVars, taskVars, rowVars, runVars>>

\* DeleteUsageLogsBatch chooses the oldest rows and then deletes what is left of
\* them; another statement may delete some in between.
ChooseBatch(n) ==
  /\ pc[n] = "delete"
  /\ ~done[n]
  /\ LET found == Matches[task[n]] \cap rows
     IN \E T \in SUBSET found :
          /\ Cardinality(T) = BatchSize \/ (Cardinality(T) < BatchSize /\ T = found)
          /\ \A r \in T, s \in found \ T : r < s
          /\ target' = [target EXCEPT ![n] = T]
  /\ Goto(n, "deleting")
  /\ UNCHANGED <<leaseVars, taskVars, rowVars, task, total, last, faults>>

DeleteInterrupted(n) ==
  /\ pc[n] = "delete"
  /\ done[n]
  /\ Goto(n, "end")
  /\ UNCHANGED <<leaseVars, taskVars, rowVars, runVars, faults>>

DeleteTarget(n) ==
  /\ rows' = rows \ target[n]
  /\ removed' = [removed EXCEPT ![task[n]] = @ + Cardinality(target[n] \cap rows)]
  /\ cut' = IF target[n] \subseteq rows THEN cut ELSE cut \cup {task[n]}

\* Mutant: the loop ends on a full batch, too.
LastIfFull(k) == k <= BatchSize

\* A batch that was not full is the last one.
IsLast(k) == k < BatchSize

\* Mutant: what the statement chose counts, not what it deleted.
CountChosen(n) == Cardinality(target[n])

\* RETURNING id
Deleted(n) == Cardinality(target[n] \cap rows)

DeleteBatch(n) ==
  /\ pc[n] = "deleting"
  /\ DeleteTarget(n)
  /\ total' = [total EXCEPT ![n] = @ + Deleted(n)]
  /\ last' = [last EXCEPT ![n] = IsLast(Deleted(n))]
  /\ target' = [target EXCEPT ![n] = {}]
  /\ Goto(n, IF Deleted(n) > 0 THEN "after" ELSE "finish")
  /\ UNCHANGED <<leaseVars, taskVars, task, faults>>

\* An error, with or without effect: of the context, or any other.
DeleteFails(n) ==
  /\ pc[n] = "deleting"
  /\ DeleteTarget(n) \/ UNCHANGED rowVars
  /\ \/ done[n] /\ Goto(n, "end") /\ UNCHANGED faults
     \/ ~done[n] /\ Goto(n, "failing") /\ Fault
  /\ target' = [target EXCEPT ![n] = {}]
  /\ UNCHANGED <<leaseVars, taskVars, task, total, last>>

\* UpdateTaskProgress; an error is only logged.
UpdateTaskProgress(n) ==
  /\ pc[n] = "progress"
  /\ \/ deletedRows' = [deletedRows EXCEPT ![task[n]] = total[n]]
     \/ UNCHANGED deletedRows
  /\ Goto(n, IF last[n] THEN "finish" ELSE "loop")
  /\ UNCHANGED <<leaseVars, status, stale, rowVars, runVars, faults>>

\* MarkTaskSucceeded and MarkTaskFailed compare only the id, and use a context
\* of their own.
MarkTask(n, outcome) ==
  /\ status' = [status EXCEPT ![task[n]] = outcome]
  /\ deletedRows' = [deletedRows EXCEPT ![task[n]] = total[n]]
  /\ UNCHANGED stale

MarkTaskSucceeded(n) ==
  /\ pc[n] = "succeed"
  /\ \/ MarkTask(n, "succeeded") /\ Goto(n, "recompute") /\ UNCHANGED faults
     \/ Fault /\ Goto(n, "end") /\ (MarkTask(n, "succeeded") \/ UNCHANGED taskVars)
  /\ UNCHANGED <<leaseVars, rowVars, runVars>>

MarkTaskFailed(n) ==
  /\ pc[n] = "fail"
  /\ \/ MarkTask(n, "failed") /\ UNCHANGED faults
     \/ Fault /\ UNCHANGED taskVars
  /\ Goto(n, "end")
  /\ UNCHANGED <<leaseVars, rowVars, runVars>>

Return(n) ==
  /\ Goto(n, "idle")
  /\ task' = [task EXCEPT ![n] = 0]
  /\ total' = [total EXCEPT ![n] = 0]
  /\ target' = [target EXCEPT ![n] = {}]
  /\ last' = [last EXCEPT ![n] = FALSE]

End(n) ==
  /\ pc[n] = "end"
  /\ \/ ReleaseTaskLease(n) /\ UNCHANGED faults
     \/ LeaveWithoutRelease(n) /\ Fault
  /\ Return(n)
  /\ UNCHANGED <<taskVars, rowVars>>

WorkerStep(n) ==
  \/ Check(n) \/ ClaimNextPendingTask(n) \/ ClaimNothing(n) \/ NextBatch(n)
  \/ ChooseBatch(n) \/ DeleteInterrupted(n) \/ DeleteBatch(n) \/ DeleteFails(n)
  \/ UpdateTaskProgress(n) \/ MarkTaskSucceeded(n) \/ MarkTaskFailed(n) \/ End(n)

-----------------------------------------------------------------------------
(* What happens to a run, and time.                                        *)

\* The process dies; the server completes or drops the DELETE it was running.
Crash(n) ==
  /\ pc[n] # "idle" /\ Fault
  /\ LeaveWithoutRelease(n)
  /\ IF pc[n] = "deleting" THEN DeleteTarget(n) \/ UNCHANGED rowVars ELSE UNCHANGED rowVars
  /\ Return(n)
  /\ UNCHANGED <<taskVars>>

RenewalStops(n) ==
  /\ RenewalGivesUp(n)
  /\ \/ (done[n] \/ ~RenewTaskLease(n)) /\ UNCHANGED faults
     \/ Fault
  /\ UNCHANGED <<taskVars, rowVars, pc, runVars>>

Timeout(n) ==
  /\ ContextEnds(n) /\ Fault
  /\ UNCHANGED <<taskVars, rowVars, pc, runVars>>

\* Under a run that goes on the lease ends only when its renewals are late.
Expire ==
  /\ LeaseExpires
  /\ IF Renewed THEN Fault ELSE UNCHANGED faults
  /\ UNCHANGED <<taskVars, rowVars, pc, runVars>>

\* The claim is older than the task timeout, which is also the deadline of the
\* run that made it.
GoesStale(t) ==
  /\ status[t] = "running" /\ ~stale[t]
  /\ \A n \in Nodes : task[n] = t => done[n]
  /\ stale' = [stale EXCEPT ![t] = TRUE]
  /\ UNCHANGED <<leaseVars, status, deletedRows, rowVars, pc, runVars, faults>>

Next ==
  \/ \E t \in Tasks : CreateTask(t) \/ CancelTask(t) \/ GoesStale(t)
  \/ \E n \in Nodes : Run(n) \/ WorkerStep(n) \/ Crash(n) \/ RenewalStops(n) \/ Timeout(n)
  \/ Expire

Spec == Init /\ [][Next]_vars

\* A started run goes on, the timing wheel of some node that does not drain
\* starts the next one, and time passes.
Fairness ==
  /\ \A n \in Nodes : WF_vars(WorkerStep(n))
  /\ WF_vars(\E n \in Nodes : Run(n))
  /\ WF_vars(Expire)
  /\ \A t \in Tasks : WF_vars(GoesStale(t))

LiveSpec == Spec /\ Fairness

-----------------------------------------------------------------------------
(* Properties.                                                             *)

Fencing == INSTANCE FencedLease WITH epoch <- lease.token, valid <- lease.live, mine <- held

\* The lease row and the guards are a fenced lease: a lease is taken only when
\* the last one is over, no guard passes once the lease has ended or another
\* node has taken it, and nobody releases another node's lease ("Run executes
\* task only when this process owns its PostgreSQL-backed lease").
KeepsFencing == Fencing!Spec

\* A task reported as succeeded has left none of the rows it was to delete, in
\* whatever workers it was interrupted and resumed; except when a batch came out
\* short because another worker's delete took rows from it.
SucceededIsComplete ==
  \A t \in Tasks : status[t] = "succeeded" /\ t \notin cut => Matches[t] \cap rows = {}

\* deleted_rows, carried from worker to worker and written by late ones, never
\* reports more than was deleted.
NeverOvercounts == \A t \in Tasks : deletedRows[t] <= removed[t]

\* Whatever happens to the workers, a task ends.
TaskEnds == \A t \in Tasks : status[t] = "pending" ~> status[t] \in Ended

\* A canceled task stays canceled.  It does not: a worker past its last look at
\* the status overwrites it.
CanceledIsFinal == [][\A t \in Tasks : status[t] = "canceled" => status'[t] = "canceled"]_vars

=============================================================================
