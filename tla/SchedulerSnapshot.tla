------------------------- MODULE SchedulerSnapshot -------------------------
(***************************************************************************)
(* SchedulerSnapshotService and the scheduler cache in Redis, for one      *)
(* bucket of one group: requests, outbox events and the periodic full      *)
(* rebuild publish snapshots of the bucket's accounts; the group's         *)
(* lifecycle retires the bucket when the group is inactive and reopens it. *)
(*                                                                         *)
(* The outbox may lose, repeat and delay events: a job may start at any    *)
(* time, and nothing but the full rebuild must come again.                 *)
(***************************************************************************)
EXTENDS Naturals, Sequences, SequencesExt

CONSTANTS
  Procs,        \* goroutines of all nodes
  Rebuilders,   \* those that run the periodic full rebuild, and nothing else
  NoProc,       \* no owner
  Unknown,      \* an owner token that no goroutine has (any more)
  NoSnapshot,
  MaxChanges,   \* bound: changes of the bucket's accounts
  MaxTurns,     \* bound: the group is deactivated or activated
  MaxFaults     \* bound: crashes, timeouts, failing or unanswered calls

ASSUME SchedulerAssumption ==
  /\ Rebuilders \subseteq Procs
  /\ NoProc \notin Procs /\ Unknown \notin Procs /\ NoProc # Unknown
  /\ MaxChanges \in Nat /\ MaxTurns \in Nat /\ MaxFaults \in Nat
  /\ NoSnapshot \notin [change : Nat, life : Nat]

VARIABLES
  change,      \* the bucket's accounts: the number of their changes so far
  turn,        \* the group's status: the number of its changes so far
  epoch,       \* sched:epoch, 0 when missing
  retired,     \* sched:retired exists
  registered,  \* sched:buckets has the bucket
  served,      \* the snapshot that sched:active names: which accounts it lists
  rows,        \* sched:meta, the accounts' rows, which every snapshot shares and
               \* GetSnapshot decodes: the change they are from
  lease,       \* sched:group:lifecycle-lock
  locked,      \* sched:lock
  versions,    \* allocated versions, by their owners, without those that are
               \* older than the active one
  job, pc,     \* per goroutine: what it does, and its next step
  known,       \* the bucket was among ListBuckets
  read,        \* the status that was read under the lease
  token,       \* the write token's epoch, 0 without one
  loaded,      \* the accounts that were loaded
  done,        \* the lifecycle context is done
  lives,       \* history: how often the bucket was retired
  decided,     \* history: the status that the last retirement or reopening read
  faults

dbVars == <<change, turn>>
bucketVars == <<epoch, retired, registered, served, rows, lives, decided>>
procVars == <<known, read, token, loaded, done>>
vars == <<dbVars, bucketVars, lease, locked, versions, job, pc, procVars, faults>>

\* A group's status is active at first and then alternates.
IsActive(t) == t % 2 = 0

\* What loadAccountsFromDB finds now; its life is history.
Accounts == [change |-> change, life |-> lives]

Snapshots == [change : Nat, life : Nat]

Jobs == {"read", "bucket", "account", "group", "full"}

FirstStep == [read |-> "capture", bucket |-> "capture", account |-> "account",
              group |-> "acquire", full |-> "list"]

Publishing == {"lock", "load", "allocate", "write", "activate"}

Steps == {"idle", "list", "groups", "account", "set", "capture", "acquire", "decide", "apply", "release",
          "unlock"} \cup Publishing

TypeOK ==
  /\ change \in 0..MaxChanges /\ turn \in 0..MaxTurns
  /\ epoch \in Nat /\ retired \in BOOLEAN /\ registered \in BOOLEAN
  /\ served \in Snapshots \cup {NoSnapshot} /\ rows \in Nat
  /\ lease \in Procs \cup {NoProc, Unknown} /\ locked \in BOOLEAN
  /\ versions \in Seq(Procs)
  /\ job \in [Procs -> Jobs] /\ pc \in [Procs -> Steps]
  /\ known \in [Procs -> BOOLEAN] /\ read \in [Procs -> Nat]
  /\ token \in [Procs -> Nat] /\ done \in [Procs -> BOOLEAN]
  /\ loaded \in [Procs -> Snapshots \cup {NoSnapshot}]
  /\ lives \in Nat /\ decided \in Nat /\ faults \in 0..MaxFaults
  /\ \A p \in Procs : /\ pc[p] \in Publishing => token[p] # 0
                      /\ pc[p] \in {"set", "allocate", "write", "activate"} => loaded[p] # NoSnapshot

Init ==
  /\ change = 0 /\ turn = 0
  /\ epoch = 0 /\ retired = FALSE /\ registered = FALSE /\ served = NoSnapshot /\ rows = 0
  /\ lease = NoProc /\ locked = FALSE /\ versions = <<>>
  /\ job = [p \in Procs |-> "read"] /\ pc = [p \in Procs |-> "idle"]
  /\ known = [p \in Procs |-> FALSE] /\ read = [p \in Procs |-> 0]
  /\ token = [p \in Procs |-> 0] /\ done = [p \in Procs |-> FALSE]
  /\ loaded = [p \in Procs |-> NoSnapshot]
  /\ lives = 0 /\ decided = 0 /\ faults = 0

-----------------------------------------------------------------------------
(* The database.                                                           *)

ChangeAccounts ==
  /\ change < MaxChanges /\ change' = change + 1
  /\ UNCHANGED <<turn, bucketVars, lease, locked, versions, job, pc, procVars, faults>>

TurnGroup ==
  /\ turn < MaxTurns /\ turn' = turn + 1
  /\ UNCHANGED <<change, bucketVars, lease, locked, versions, job, pc, procVars, faults>>

-----------------------------------------------------------------------------
(* Jobs.                                                                   *)

Fault == faults < MaxFaults /\ faults' = faults + 1

Goto(p, step) == pc' = [pc EXCEPT ![p] = step]

Discard(p) ==
  IF Contains(versions, p)
  THEN \E i \in DOMAIN versions : versions[i] = p /\ versions' = RemoveAt(versions, i)
  ELSE UNCHANGED versions

\* The job returns; what it held in memory is gone.
Return(p) ==
  /\ Goto(p, "idle")
  /\ job' = [job EXCEPT ![p] = "read"]
  /\ known' = [known EXCEPT ![p] = FALSE]
  /\ read' = [read EXCEPT ![p] = 0]
  /\ token' = [token EXCEPT ![p] = 0]
  /\ loaded' = [loaded EXCEPT ![p] = NoSnapshot]
  /\ done' = [done EXCEPT ![p] = FALSE]

\* A request misses the cache or cannot read it; an event or the debounced rest
\* rebuilds the bucket; a group event; a full rebuild, of an event or periodic.
Start(p, j) ==
  /\ pc[p] = "idle"
  /\ p \in Rebuilders => j = "full"
  /\ job' = [job EXCEPT ![p] = j]
  /\ Goto(p, FirstStep[j])
  /\ UNCHANGED <<dbVars, bucketVars, lease, locked, versions, procVars, faults>>

\* rebuildFullSnapshot reads the registered buckets, then the active groups.
ListBuckets(p) ==
  /\ pc[p] = "list"
  /\ known' = [known EXCEPT ![p] = registered]
  /\ Goto(p, "groups")
  /\ UNCHANGED <<dbVars, bucketVars, lease, locked, versions, job, read, token, loaded, done, faults>>

\* Mutant: registered buckets of groups that are not active are left alone.
ForgetStaleGroups(p) == "idle"

\* A registered bucket of a group that is not active goes through the lifecycle.
StaleGroup(p) == IF known[p] THEN "acquire" ELSE "idle"

ListActiveIDs(p) ==
  /\ pc[p] = "groups"
  /\ Goto(p, IF IsActive(turn) THEN "capture" ELSE StaleGroup(p))
  /\ known' = [known EXCEPT ![p] = FALSE]
  /\ UNCHANGED <<dbVars, bucketVars, lease, locked, versions, job, read, token, loaded, done, faults>>

\* handleAccountEvent reads the account, writes its row, and goes on to the bucket.
GetAccount(p) ==
  /\ pc[p] = "account"
  /\ loaded' = [loaded EXCEPT ![p] = Accounts]
  /\ Goto(p, "set")
  /\ UNCHANGED <<dbVars, bucketVars, lease, locked, versions, job, known, read, token, done, faults>>

SetAccount(p) ==
  /\ pc[p] = "set"
  /\ rows' = loaded[p].change
  /\ loaded' = [loaded EXCEPT ![p] = NoSnapshot]
  /\ Goto(p, "capture")
  /\ UNCHANGED <<dbVars, epoch, retired, registered, served, lives, decided, lease, locked, versions,
                 job, known, read, token, done, faults>>

CaptureBucketWriteToken(p) ==
  /\ pc[p] = "capture"
  /\ ~retired
  /\ epoch' = IF epoch = 0 THEN 1 ELSE epoch
  /\ token' = [token EXCEPT ![p] = epoch']
  /\ Goto(p, IF job[p] = "read" THEN "load" ELSE "lock")
  /\ UNCHANGED <<dbVars, retired, registered, served, rows, lives, decided, lease, locked,
                 versions, job, known, read, loaded, done, faults>>

\* Only the full rebuild asks whether a retired bucket is to be reopened.
CaptureRetired(p) ==
  /\ pc[p] = "capture"
  /\ retired
  /\ IF job[p] = "full"
     THEN Goto(p, "acquire") /\ UNCHANGED <<job, procVars>>
     ELSE Return(p)
  /\ UNCHANGED <<dbVars, bucketVars, lease, locked, versions, faults>>

-----------------------------------------------------------------------------
(* prepareGroupLifecycle.                                                  *)

TryAcquireLease(p) ==
  /\ pc[p] = "acquire"
  /\ \/ /\ lease = NoProc /\ lease' = p
        /\ Goto(p, "decide")
        /\ UNCHANGED <<job, procVars, faults>>
     \/ lease # NoProc /\ Return(p) /\ UNCHANGED <<lease, faults>>
     \/ lease = NoProc /\ lease' = Unknown /\ Return(p) /\ Fault
  /\ UNCHANGED <<dbVars, bucketVars, locked, versions>>

GetGroup(p) ==
  /\ pc[p] = "decide"
  /\ ~done[p]
  /\ read' = [read EXCEPT ![p] = turn]
  /\ Goto(p, "apply")
  /\ UNCHANGED <<dbVars, bucketVars, lease, locked, versions, job, known, token, loaded, done, faults>>

\* Mutant: the retired bucket's snapshot stays, and with it the registration.
RetireQuietly ==
  /\ epoch' = IF retired THEN epoch ELSE epoch + 1
  /\ lives' = IF retired THEN lives ELSE lives + 1
  /\ retired' = TRUE
  /\ UNCHANGED <<registered, served>>

RetireBucket ==
  /\ epoch' = IF retired THEN epoch ELSE epoch + 1
  /\ lives' = IF retired THEN lives ELSE lives + 1
  /\ retired' = TRUE
  /\ registered' = FALSE
  /\ served' = NoSnapshot

ReopenBucket ==
  /\ epoch' = IF epoch = 0 THEN 1 ELSE epoch
  /\ retired' = FALSE
  /\ IF retired THEN registered' = FALSE /\ served' = NoSnapshot ELSE UNCHANGED <<registered, served>>
  /\ UNCHANGED lives

\* The plan of an active group has a token; after an error there is no plan.
Apply(p) ==
  /\ pc[p] = "apply"
  /\ ~done[p]
  /\ IF IsActive(read[p]) THEN ReopenBucket ELSE RetireBucket
  /\ decided' = read[p] /\ UNCHANGED rows
  /\ \/ token' = [token EXCEPT ![p] = IF IsActive(read[p]) THEN epoch' ELSE 0] /\ UNCHANGED faults
     \/ UNCHANGED token /\ Fault
  /\ read' = [read EXCEPT ![p] = 0]
  /\ Goto(p, "release")
  /\ UNCHANGED <<dbVars, lease, locked, versions, job, known, loaded, done>>

GiveUp(p) ==
  /\ pc[p] \in {"decide", "apply"}
  /\ IF done[p] THEN UNCHANGED faults ELSE Fault
  /\ read' = [read EXCEPT ![p] = 0]
  /\ Goto(p, "release")
  /\ UNCHANGED <<dbVars, bucketVars, lease, locked, versions, job, known, token, loaded, done>>

\* Mutant: the key is deleted without a look at its owner.
ReleaseAny(p) == lease' = NoProc

\* The script deletes the key only for its owner.
ReleaseLease(p) == lease' = IF lease = p THEN NoProc ELSE lease

HasPlan(p) == token[p] # 0 /\ lease = p

Release(p) ==
  /\ pc[p] = "release"
  /\ \/ /\ ReleaseLease(p)
        /\ IF HasPlan(p)
           THEN Goto(p, "lock") /\ done' = [done EXCEPT ![p] = FALSE]
                /\ UNCHANGED <<job, known, read, token, loaded>>
           ELSE Return(p)
        /\ UNCHANGED faults
     \/ /\ Fault
        /\ lease' = IF lease = p THEN Unknown ELSE lease
        /\ Return(p)
  /\ UNCHANGED <<dbVars, bucketVars, locked, versions>>

-----------------------------------------------------------------------------
(* rebuildBucketWithTokenPolicyAndQueryCache, and the read's publication.  *)

TryLockBucket(p) ==
  /\ pc[p] = "lock"
  /\ IF locked
     THEN Return(p) /\ UNCHANGED locked
     ELSE /\ locked' = TRUE
          /\ Goto(p, IF loaded[p] = NoSnapshot THEN "load" ELSE "allocate")
          /\ UNCHANGED <<job, procVars>>
  /\ UNCHANGED <<dbVars, bucketVars, lease, versions, faults>>

\* The query cache: the accounts were loaded for the bucket of another mode,
\* before this bucket was locked.
LoadForSibling(p) ==
  /\ pc[p] = "lock"
  /\ loaded[p] = NoSnapshot
  /\ loaded' = [loaded EXCEPT ![p] = Accounts]
  /\ UNCHANGED <<dbVars, bucketVars, lease, locked, versions, job, pc, known, read, token, done, faults>>

Load(p) ==
  /\ pc[p] = "load"
  /\ loaded' = [loaded EXCEPT ![p] = Accounts]
  /\ Goto(p, "allocate")
  /\ UNCHANGED <<dbVars, bucketVars, lease, locked, versions, job, known, read, token, done, faults>>

\* Mutant: retirement stops writers, but its epoch does not.
NotRetired(p) == ~retired

\* allocate- and activateSnapshotVersion compare the epoch with the token's.
MayWrite(p) == ~retired /\ epoch = token[p]

AllocateVersion(p) ==
  /\ pc[p] = "allocate"
  /\ IF MayWrite(p)
     THEN versions' = Append(versions, p) /\ Goto(p, "write")
     ELSE UNCHANGED versions /\ Goto(p, "unlock")
  /\ UNCHANGED <<dbVars, bucketVars, lease, locked, job, procVars, faults>>

\* writeAccounts: the rows are shared by all versions, and are written before the
\* version is known to be activated.
WriteSnapshot(p) ==
  /\ pc[p] = "write"
  /\ rows' = loaded[p].change
  /\ Goto(p, "activate")
  /\ UNCHANGED <<dbVars, epoch, retired, registered, served, lives, decided, lease, locked, versions,
                 job, procVars, faults>>

\* The compare-and-set: not if a newer version is active.
ActivateVersion(p) ==
  /\ pc[p] = "activate"
  /\ MayWrite(p)
  /\ \E i \in DOMAIN versions :
       /\ versions[i] = p
       /\ versions' = SubSeq(versions, i + 1, Len(versions))
  /\ served' = loaded[p]
  /\ registered' = TRUE
  /\ Goto(p, "unlock")
  /\ UNCHANGED <<dbVars, epoch, retired, rows, lives, decided, lease, locked, job, procVars, faults>>

ActivateNothing(p) ==
  /\ pc[p] = "activate"
  /\ ~MayWrite(p) \/ ~Contains(versions, p)
  /\ Discard(p)
  /\ Goto(p, "unlock")
  /\ UNCHANGED <<dbVars, bucketVars, lease, locked, job, procVars, faults>>

\* UnlockBucket deletes the key, whoever has set it.  Requests do not lock.
Unlock(p) ==
  /\ pc[p] = "unlock"
  /\ locked' = IF job[p] = "read" THEN locked ELSE FALSE
  /\ Return(p)
  /\ UNCHANGED <<dbVars, bucketVars, lease, versions, faults>>

Step(p) ==
  \/ ListBuckets(p) \/ ListActiveIDs(p) \/ GetAccount(p) \/ SetAccount(p)
  \/ CaptureBucketWriteToken(p) \/ CaptureRetired(p)
  \/ TryAcquireLease(p) \/ GetGroup(p) \/ Apply(p) \/ GiveUp(p) \/ Release(p)
  \/ TryLockBucket(p) \/ LoadForSibling(p) \/ Load(p)
  \/ AllocateVersion(p) \/ WriteSnapshot(p) \/ ActivateVersion(p) \/ ActivateNothing(p) \/ Unlock(p)

-----------------------------------------------------------------------------
(* What happens to jobs, and time.                                         *)

\* A call fails, or its answer is lost: the job unlocks what it knows to be locked
\* and returns an error.
Fail(p) ==
  /\ pc[p] \in {"list", "groups", "account", "set", "capture", "lock", "load", "allocate",
               "write", "activate"}
  /\ Fault
  /\ IF pc[p] \in Publishing \ {"lock"}
     THEN Goto(p, "unlock") /\ UNCHANGED <<job, procVars, locked>>
     ELSE /\ Return(p)
          /\ IF pc[p] = "lock" THEN locked' \in {locked, TRUE} ELSE UNCHANGED locked
  /\ IF pc[p] \in {"set", "write"} THEN rows' \in {rows, loaded[p].change} ELSE UNCHANGED rows
  /\ Discard(p)
  /\ UNCHANGED <<dbVars, epoch, retired, registered, served, lives, decided, lease>>

\* The process dies.  The keys it has set stay until they expire.
Crash(p) ==
  /\ pc[p] # "idle" /\ Fault
  /\ lease' = IF lease = p THEN Unknown ELSE lease
  /\ Return(p)
  /\ Discard(p)
  /\ UNCHANGED <<dbVars, bucketVars, locked>>

\* schedulerGroupLifecycleTimeout: no call is made with the context any more.
LifecycleTimeout(p) ==
  /\ pc[p] \in {"decide", "apply", "release"} /\ ~done[p] /\ Fault
  /\ done' = [done EXCEPT ![p] = TRUE]
  /\ UNCHANGED <<dbVars, bucketVars, lease, locked, versions, job, pc, known, read, token, loaded>>

\* The lease outlasts its owner's context (60 s, 30 s).
LeaseExpires ==
  /\ lease = Unknown \/ \E p \in Procs : lease = p /\ done[p]
  /\ lease' = NoProc
  /\ UNCHANGED <<dbVars, bucketVars, locked, versions, job, pc, procVars, faults>>

LockExpires ==
  /\ locked /\ locked' = FALSE
  /\ UNCHANGED <<dbVars, bucketVars, lease, versions, job, pc, procVars, faults>>

Next ==
  \/ ChangeAccounts \/ TurnGroup \/ LeaseExpires \/ LockExpires
  \/ \E p \in Procs : \/ \E j \in Jobs : Start(p, j)
                      \/ Step(p) \/ Fail(p) \/ Crash(p) \/ LifecycleTimeout(p)

Spec == Init /\ [][Next]_vars

\* Jobs go on, keys expire, and the ticker starts full rebuilds.
Fairness ==
  /\ \A p \in Procs : WF_vars(Step(p))
  /\ \A p \in Rebuilders : WF_vars(Start(p, "full"))
  /\ WF_vars(LeaseExpires) /\ WF_vars(LockExpires)

LiveSpec == Spec /\ Fairness

-----------------------------------------------------------------------------
(* Properties.                                                             *)

\* A retired bucket has no published snapshot, and a reopened one only a snapshot
\* that was loaded since: a writer that was under way during the retirement does
\* not publish, wherever it was ("The token must be captured before loading
\* accounts").  The rows it may have written by then are another matter
\* (RowsFollowSnapshot).
ServesThisLife == served # NoSnapshot => ~retired /\ served.life = lives

\* Retirements and reopenings take effect in the order of the statuses they are
\* due to: a decision read before another one's does not follow it.
DecisionsInOrder == [][decided' >= decided]_decided

\* The published snapshot is what GroupBucket promises: the accounts that it lists
\* were loaded since the bucket was last retired, as they were at that time, and it
\* is there only while the newest decision is that the group is active.  This is
\* about served alone, not about the rows in which requests find these accounts.
Bucket == INSTANCE GroupBucket WITH
  Nothing <- NoSnapshot, accounts <- change, status <- turn, life <- lives,
  drafts <- {loaded[p] : p \in Procs} \ {NoSnapshot}

KeepsBucket == Bucket!Spec

\* Whatever events are lost, after the last change the snapshot becomes the
\* accounts of the database, and an inactive group's bucket serves nothing.
Converges ==
  <>[](IF IsActive(turn) THEN served # NoSnapshot /\ served.change = change /\ rows = change
       ELSE served = NoSnapshot)

\* The rows of the accounts are not older than the snapshot that lists them.  They
\* may be: writeAccounts and SetAccount ask for no token, so a job that is late
\* overwrites newer rows, even one from before a retirement whose snapshot is then
\* refused, and requests read the old rows under the new snapshot until the next
\* rebuild (Converges); give it as INVARIANT of MCSchedulerSnapshot.cfg.
RowsFollowSnapshot == served # NoSnapshot => rows >= served.change

\* The snapshot does not go back to older accounts.  It does: accounts are loaded
\* before the version is allocated, so a late load may get the newer version, and
\* the script ("防止并发写入导致版本回滚") compares only versions; give it as PROPERTY
\* of MCSchedulerSnapshot.cfg.
ServedNeverGoesBack ==
  [][served # NoSnapshot /\ served' # NoSnapshot => served'.change >= served.change]_served

=============================================================================
