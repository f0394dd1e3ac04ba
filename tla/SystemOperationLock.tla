------------------------ MODULE SystemOperationLock ------------------------
(***************************************************************************)
(* SystemOperationLockService: update, rollback and restart of the system  *)
(* exclude each other by a lease on one row of idempotency_records, whose  *)
(* request_fingerprint is the operation's id.  An operation acquires,      *)
(* runs while a goroutine renews its lease, and releases.                  *)
(***************************************************************************)
EXTENDS IdempotencyRecords

CONSTANTS
  Lease,   \* the service's lease (ProcessingTimeout)
  TTL      \* SystemOperationTTL

ASSUME LockAssumption == Lease \in Nat /\ TTL \in Nat

\* Every operation is known by its id.
Operations == Fingerprints

VARIABLES
  pc,        \* per operation: next step; "holding" while it runs
  since,     \* per operation: time the request started, or of its last renewal
  seen,      \* per operation: id and status of the row as read by Acquire
  held,      \* per operation: SystemOperationLock.recordID, 0 without a lock
  renewing,  \* per operation: whether its renewLoop runs
  lapsed     \* history: since the lock was last free of running operations, one
             \* of them has run on without it (Lapses)

opVars == <<pc, since, seen, held, renewing>>
vars == <<clock, tableVars, opVars, lapsed>>

Nothing == [id |-> 0, status |-> "absent"]

Claiming == {"create", "read", "reclaim"}

TypeOK ==
  /\ RecordsTypeOK
  /\ pc \in [Operations -> {"idle", "holding"} \cup Claiming]
  /\ since \in [Operations -> 0..MaxTime]
  /\ seen \in [Operations -> [id : Nat, status : RecordStatus]]
  /\ held \in [Operations -> Nat]
  /\ renewing \in [Operations -> BOOLEAN]
  /\ lapsed \in BOOLEAN

Init ==
  /\ RecordsInit
  /\ pc = [o \in Operations |-> "idle"]
  /\ since = [o \in Operations |-> 0]
  /\ seen = [o \in Operations |-> Nothing]
  /\ held = [o \in Operations |-> 0]
  /\ renewing = [o \in Operations |-> FALSE]
  /\ lapsed = FALSE

-----------------------------------------------------------------------------
Running == {o \in Operations : pc[o] = "holding"}

\* An operation runs on although the lease it wrote last has ended, or although a
\* clean-up that had found its row expired before has deleted it.
Lapses == \E o \in Running : since[o] + Lease <= clock \/ record.id = 0

\* What every step leaves in the history.
Watch == lapsed' = (Running' # {} /\ (lapsed \/ Lapses'))

Return(o) ==
  /\ pc' = [pc EXCEPT ![o] = "idle"]
  /\ since' = [since EXCEPT ![o] = 0]
  /\ seen' = [seen EXCEPT ![o] = Nothing]
  /\ held' = [held EXCEPT ![o] = 0]
  /\ renewing' = [renewing EXCEPT ![o] = FALSE]

\* Acquire returns a lock and starts its renewLoop.
Acquired(o, id) ==
  /\ pc' = [pc EXCEPT ![o] = "holding"]
  /\ held' = [held EXCEPT ![o] = id]
  /\ seen' = [seen EXCEPT ![o] = Nothing]
  /\ renewing' = [renewing EXCEPT ![o] = TRUE]
  /\ UNCHANGED since

StartAcquire(o) ==
  /\ pc[o] = "idle"
  /\ pc' = [pc EXCEPT ![o] = "create"]
  /\ since' = [since EXCEPT ![o] = clock]
  /\ UNCHANGED <<clock, tableVars, seen, held, renewing>>
  /\ Watch

Create(o) ==
  /\ pc[o] = "create"
  /\ \/ /\ CreateProcessing(o, since[o] + Lease, since[o] + TTL)
        /\ Acquired(o, lastId')
     \/ /\ record.id # 0
        /\ pc' = [pc EXCEPT ![o] = "read"]
        /\ UNCHANGED <<tableVars, since, seen, held, renewing>>
  /\ UNCHANGED clock
  /\ Watch

\* Busy, or gone again: Acquire returns an error.
ReadBusy(o) ==
  /\ pc[o] = "read"
  /\ record.id = 0 \/ (record.status = "processing" /\ record.lockedUntil > since[o])
  /\ Return(o)
  /\ UNCHANGED <<clock, tableVars>>
  /\ Watch

ReadFree(o) ==
  /\ pc[o] = "read"
  /\ record.id # 0
  /\ record.status # "processing" \/ record.lockedUntil <= since[o]
  /\ seen' = [seen EXCEPT ![o] = [id |-> record.id, status |-> record.status]]
  /\ pc' = [pc EXCEPT ![o] = "reclaim"]
  /\ UNCHANGED <<clock, tableVars, since, held, renewing>>
  /\ Watch

Reclaim(o) ==
  /\ pc[o] = "reclaim"
  /\ IF Reclaimable(seen[o].id, seen[o].status, since[o])
     THEN TryReclaim(since[o] + Lease, since[o] + TTL) /\ Acquired(o, seen[o].id)
     ELSE Return(o) /\ UNCHANGED tableVars
  /\ UNCHANGED clock
  /\ Watch

\* Mutant: the new lease counts from the old one's start.
RenewFromStart(o) ==
  /\ pc[o] = "holding" /\ renewing[o]
  /\ IF ExtendsProcessingLock(held[o], o)
     THEN /\ ExtendProcessingLock(since[o] + Lease, since[o] + TTL)
          /\ since' = [since EXCEPT ![o] = clock]
          /\ UNCHANGED renewing
     ELSE renewing' = [renewing EXCEPT ![o] = FALSE] /\ UNCHANGED <<tableVars, since>>
  /\ UNCHANGED <<clock, pc, seen, held>>
  /\ Watch

\* One tick of renewLoop.  A row that does not match ends the loop and nothing
\* else: the operation is not told.  (A tick that fails changes nothing.)
Renew(o) ==
  /\ pc[o] = "holding" /\ renewing[o]
  /\ IF ExtendsProcessingLock(held[o], o)
     THEN /\ ExtendProcessingLock(clock + Lease, clock + TTL)
          /\ since' = [since EXCEPT ![o] = clock]
          /\ UNCHANGED renewing
     ELSE renewing' = [renewing EXCEPT ![o] = FALSE] /\ UNCHANGED <<tableVars, since>>
  /\ UNCHANGED <<clock, pc, seen, held>>
  /\ Watch

\* Release after success, or after a failure, which leaves no backoff.  Nobody reads
\* the body it stores.
Release(o) ==
  /\ pc[o] = "holding"
  /\ \/ MarkSucceeded(held[o], NoFingerprint, clock + TTL)
     \/ MarkFailedRetryable(held[o], clock, clock + TTL)
  /\ Return(o)
  /\ UNCHANGED clock
  /\ Watch

\* The process dies (restart does so by design), or a statement fails: Acquire
\* returns an error, Release is only tried.
Abandon(o) ==
  /\ pc[o] # "idle"
  /\ Return(o)
  /\ UNCHANGED <<clock, tableVars>>
  /\ Watch

CleanUp ==
  /\ DeleteExpired
  /\ UNCHANGED <<clock, opVars>>
  /\ Watch

\* Nothing bounds an operation: PerformUpdate downloads as long as it takes.
Tick ==
  /\ clock < MaxTime
  /\ clock' = clock + 1
  /\ UNCHANGED <<tableVars, opVars>>
  /\ Watch

Next ==
  \/ \E o \in Operations :
       \/ StartAcquire(o) \/ Create(o) \/ ReadBusy(o) \/ ReadFree(o) \/ Reclaim(o)
       \/ Renew(o) \/ Release(o) \/ Abandon(o)
  \/ CleanUp
  \/ Tick

Spec == Init /\ [][Next]_vars

-----------------------------------------------------------------------------
(* Mutual exclusion, and how long it lasts.                                *)

\* At most one system operation runs (ErrSystemOperationBusy: "another system
\* operation is in progress").  The code does not keep this: give it as INVARIANT of
\* MCSystemOperationLock_safety.cfg.  TryReclaim leaves request_fingerprint as it is,
\* so that no renewal matches a row that was reclaimed, its holder is not told, and
\* an update longer than the lease meets the next operation.
OneOperation == \A o, p \in Running : o = p

\* Two operations meet only after one of them has outlived the lease it wrote last
\* (or has lost its row to a late clean-up): no race of Create, read, Reclaim, Renew
\* and Release lets a second one in earlier, however long each of them takes.
ExclusiveUntilLapse == ~lapsed => OneOperation

\* Until then a running operation's row is its own, claimed, and locked for as long
\* as the operation believes, so Release, which asks only for the id, frees nobody
\* else's lock, and a renewal that was heard is in the row.
OwnedUntilLapse ==
  ~lapsed => \A o \in Running :
    /\ record.id = held[o] /\ record.status = "processing"
    /\ record.lockedUntil = since[o] + Lease /\ record.lockedUntil > clock

=============================================================================
