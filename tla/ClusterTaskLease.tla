-------------------------- MODULE ClusterTaskLease --------------------------
(***************************************************************************)
(* ClusterTaskExecutor.Run and the row of cluster_task_leases behind it:   *)
(* a periodic task runs on the node that owns the row, a goroutine renews  *)
(* the lease while it runs, and the task asks its guard before each side   *)
(* effect.  Operators on that state, for the tasks that run this way.      *)
(* A draining node does not acquire; that it may come to Run at any time   *)
(* covers it.  A restarted process has a new boot id, and no local state:  *)
(* the node stands for both.                                               *)
(***************************************************************************)
EXTENDS Naturals

CONSTANTS
  Nodes,     \* processes that run the task
  NoNode     \* owner_node_id IS NULL

ASSUME NodesAssumption == NoNode \notin Nodes

VARIABLES
  lease,     \* the row; live: lease_expires_at > clock_timestamp()
  held,      \* per node: ClusterLeaseGuard.fencingToken, 0 outside of Run
  lost,      \* per node: ClusterLeaseGuard.lost
  done,      \* per node: taskCtx is cancelled or past its deadline
  passed     \* history: the token with which a guard passed last

leaseVars == <<lease, held, lost, done, passed>>

LeaseTypeOK ==
  /\ lease \in [owner : Nodes \cup {NoNode}, token : Nat, live : BOOLEAN]
  /\ held \in [Nodes -> Nat]
  /\ lost \in [Nodes -> BOOLEAN]
  /\ done \in [Nodes -> BOOLEAN]
  /\ passed \in Nat

\* The row before the first insert is one that was never owned.
LeaseInit ==
  /\ lease = [owner |-> NoNode, token |-> 0, live |-> FALSE]
  /\ held = [n \in Nodes |-> 0]
  /\ lost = [n \in Nodes |-> FALSE]
  /\ done = [n \in Nodes |-> FALSE]
  /\ passed = 0

Running(n) == held[n] # 0

-----------------------------------------------------------------------------
(* Statements on the row.                                                  *)

\* Mutant: the expiry of the present lease is not compared.
AcquireOwned(n) ==
  /\ lease' = [owner |-> n, token |-> lease.token + 1, live |-> TRUE]
  /\ held' = [held EXCEPT ![n] = lease.token + 1]
  /\ lost' = [lost EXCEPT ![n] = FALSE]
  /\ done' = [done EXCEPT ![n] = FALSE]
  /\ UNCHANGED passed

\* INSERT ... ON CONFLICT DO UPDATE of a row that is free or expired.
AcquireTaskLease(n) ==
  /\ ~lease.live
  /\ lease' = [owner |-> n, token |-> lease.token + 1, live |-> TRUE]
  /\ held' = [held EXCEPT ![n] = lease.token + 1]
  /\ lost' = [lost EXCEPT ![n] = FALSE]
  /\ done' = [done EXCEPT ![n] = FALSE]
  /\ UNCHANGED passed

\* Mutant: an expired lease may be renewed.
RenewsExpired(n) == lease.owner = n /\ lease.token = held[n]

\* What renewal and release compare.  (A renewal that matches moves the expiry,
\* of which the model only knows that it is ahead.)
RenewTaskLease(n) == lease.live /\ lease.owner = n /\ lease.token = held[n]

-----------------------------------------------------------------------------
(* The run on one node.                                                    *)

CheckPasses(n) ==
  /\ ~lost[n] /\ ~done[n] /\ RenewTaskLease(n)
  /\ passed' = held[n]
  /\ UNCHANGED <<lease, held, lost, done>>

\* Lost before, found lost now, or no answer since the context is done.
CheckFails(n) ==
  /\ lost[n] \/ done[n] \/ ~RenewTaskLease(n)
  /\ lost' = [lost EXCEPT ![n] = @ \/ ~done[n]]
  /\ UNCHANGED <<lease, held, done, passed>>

\* The renewal goroutine: no match, or an error (the context's, if it is done).
RenewalGivesUp(n) ==
  /\ Running(n) /\ ~lost[n]
  /\ lost' = [lost EXCEPT ![n] = TRUE]
  /\ done' = [done EXCEPT ![n] = TRUE]
  /\ UNCHANGED <<lease, held, passed>>

\* The deadline of the run passes, or the service stops.
ContextEnds(n) ==
  /\ Running(n) /\ ~done[n]
  /\ done' = [done EXCEPT ![n] = TRUE]
  /\ UNCHANGED <<lease, held, lost, passed>>

\* Mutant: the guard outlives its run.
LeaveKeepsToken(n) ==
  /\ lost' = [lost EXCEPT ![n] = FALSE]
  /\ done' = [done EXCEPT ![n] = FALSE]
  /\ UNCHANGED <<held, passed>>

Leave(n) ==
  /\ held' = [held EXCEPT ![n] = 0]
  /\ lost' = [lost EXCEPT ![n] = FALSE]
  /\ done' = [done EXCEPT ![n] = FALSE]
  /\ UNCHANGED passed

\* Mutant: the release does not compare the fencing token and the owner.
ReleaseAny(n) ==
  /\ lease' = IF ~lost[n] THEN [lease EXCEPT !.owner = NoNode, !.live = FALSE] ELSE lease
  /\ Leave(n)

\* The callback has returned: nothing is released once the lease is known lost.
ReleaseTaskLease(n) ==
  /\ lease' = IF ~lost[n] /\ RenewTaskLease(n)
              THEN [lease EXCEPT !.owner = NoNode, !.live = FALSE] ELSE lease
  /\ Leave(n)

\* The process dies, or the release fails: the row stays until it expires.
LeaveWithoutRelease(n) == Leave(n) /\ UNCHANGED lease

\* Somebody renews the present lease in time.
Renewed == \E n \in Nodes : lease.token = held[n] /\ ~lost[n] /\ ~done[n]

LeaseExpires ==
  /\ lease.live
  /\ lease' = [lease EXCEPT !.live = FALSE]
  /\ UNCHANGED <<held, lost, done, passed>>

=============================================================================
