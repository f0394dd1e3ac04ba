---------------------- MODULE SchedulerSnapshotProofs ----------------------
(***************************************************************************)
(* Proofs about SchedulerSnapshot for any goroutines and any numbers of    *)
(* changes and faults.                                                     *)
(***************************************************************************)
EXTENDS SchedulerSnapshot, SequenceTheorems, TLAPS

DbTypes == change \in 0..MaxChanges /\ turn \in 0..MaxTurns

BucketTypes ==
  /\ epoch \in Nat /\ retired \in BOOLEAN /\ registered \in BOOLEAN
  /\ served \in Snapshots \cup {NoSnapshot} /\ rows \in Nat
  /\ lives \in Nat /\ decided \in Nat

KeyTypes ==
  /\ lease \in Procs \cup {NoProc, Unknown} /\ locked \in BOOLEAN
  /\ faults \in 0..MaxFaults

ProcTypes ==
  /\ job \in [Procs -> Jobs] /\ pc \in [Procs -> Steps]
  /\ known \in [Procs -> BOOLEAN] /\ read \in [Procs -> Nat]
  /\ token \in [Procs -> Nat] /\ done \in [Procs -> BOOLEAN]
  /\ loaded \in [Procs -> Snapshots \cup {NoSnapshot}]

\* A job that publishes has a token, and accounts once it has loaded them.
Controlled ==
  \A p \in Procs : /\ pc[p] \in Publishing => token[p] # 0
                   /\ pc[p] \in {"set", "allocate", "write", "activate"} => loaded[p] # NoSnapshot

LEMMA TypeParts ==
  TypeOK <=> DbTypes /\ BucketTypes /\ KeyTypes /\ versions \in Seq(Procs) /\ ProcTypes /\ Controlled
  BY DEF TypeOK, DbTypes, BucketTypes, KeyTypes, ProcTypes, Controlled

LEMMA Bounds == MaxChanges \in Nat /\ MaxTurns \in Nat /\ MaxFaults \in Nat
  BY SchedulerAssumption DEF SchedulerAssumption

LEMMA StepNames ==
  /\ Publishing = {"lock", "load", "allocate", "write", "activate"}
  /\ Steps = {"idle", "list", "groups", "account", "set", "capture", "acquire", "decide",
              "apply", "release", "unlock", "lock", "load", "allocate", "write", "activate"}
  BY DEF Steps, Publishing

LEMMA AccountsType ==
  ASSUME DbTypes, BucketTypes
  PROVE  Accounts \in Snapshots /\ Accounts # NoSnapshot /\ Accounts.life = lives
  <1>1. change \in Nat /\ lives \in Nat
    BY SchedulerAssumption DEF SchedulerAssumption, DbTypes, BucketTypes
  <1>2. QED
    BY <1>1, SchedulerAssumption DEF SchedulerAssumption, Accounts, Snapshots

LEMMA LoadedType ==
  ASSUME ProcTypes, NEW p \in Procs, loaded[p] # NoSnapshot
  PROVE  loaded[p] \in Snapshots /\ loaded[p].change \in Nat /\ loaded[p].life \in Nat
  BY DEF ProcTypes, Snapshots

-----------------------------------------------------------------------------
(* Types.                                                                  *)

LEMMA VersionsStay ==
  ASSUME versions \in Seq(Procs), Next
  PROVE  versions' \in Seq(Procs)
  <1>1. ASSUME NEW p \in Procs, Discard(p) PROVE versions' \in Seq(Procs)
    <2>1. CASE Contains(versions, p)
      <3>1. PICK i \in DOMAIN versions : versions' = RemoveAt(versions, i)
        BY <1>1, <2>1 DEF Discard
      <3> DEFINE front == SubSeq(versions, 1, i-1)  back == SubSeq(versions, i+1, Len(versions))
      <3>2. front \in Seq(Procs) /\ back \in Seq(Procs)
        OBVIOUS
      <3>3. versions' = front \o back
        BY <3>1 DEF RemoveAt
      <3> HIDE DEF front, back
      <3>4. QED
        BY <3>2, <3>3, ConcatProperties
    <2>2. CASE ~Contains(versions, p)
      BY <1>1, <2>2 DEF Discard
    <2>3. QED
      BY <2>1, <2>2
  <1>2. ASSUME NEW p \in Procs, AllocateVersion(p) PROVE versions' \in Seq(Procs)
    BY <1>2 DEF AllocateVersion
  <1>3. ASSUME NEW p \in Procs, ActivateVersion(p) PROVE versions' \in Seq(Procs)
    BY <1>3 DEF ActivateVersion
  <1>4. ASSUME NEW p \in Procs, ActivateNothing(p) \/ Fail(p) \/ Crash(p) PROVE versions' \in Seq(Procs)
    BY <1>1, <1>4 DEF ActivateNothing, Fail, Crash
  <1>5. CASE ChangeAccounts \/ TurnGroup \/ LeaseExpires \/ LockExpires
    BY <1>5 DEF ChangeAccounts, TurnGroup, LeaseExpires, LockExpires
  <1>6. ASSUME NEW p \in Procs,
               \/ \E j \in Jobs : Start(p, j)
               \/ ListBuckets(p) \/ ListActiveIDs(p) \/ GetAccount(p) \/ SetAccount(p)
               \/ CaptureBucketWriteToken(p) \/ CaptureRetired(p) \/ TryAcquireLease(p)
               \/ GetGroup(p) \/ Apply(p) \/ GiveUp(p) \/ Release(p) \/ TryLockBucket(p)
               \/ LoadForSibling(p) \/ Load(p) \/ WriteSnapshot(p) \/ Unlock(p) \/ LifecycleTimeout(p)
        PROVE  versions' \in Seq(Procs)
    BY <1>6 DEF Start, ListBuckets, ListActiveIDs, GetAccount, SetAccount, CaptureBucketWriteToken,
       CaptureRetired, TryAcquireLease, GetGroup, Apply, GiveUp, Release, TryLockBucket,
       LoadForSibling, Load, WriteSnapshot, Unlock, LifecycleTimeout
  <1>7. QED
    BY <1>2, <1>3, <1>4, <1>5, <1>6 DEF Next, Step

\* A job that returns has its types, and does not publish.
LEMMA ReturnTypes ==
  ASSUME ProcTypes, Controlled, NEW p \in Procs, Return(p)
  PROVE  ProcTypes' /\ Controlled'
  BY StepNames DEF ProcTypes, Controlled, Return, Goto, Jobs, Snapshots

LEMMA InitTypes == Init => TypeOK
  <1> SUFFICES ASSUME Init PROVE TypeOK
    OBVIOUS
  <1>1. retired \in BOOLEAN /\ registered \in BOOLEAN /\ locked \in BOOLEAN
    BY DEF Init
  <1>2. DbTypes /\ BucketTypes /\ KeyTypes
    BY <1>1, Bounds DEF Init, DbTypes, BucketTypes, KeyTypes
  <1>3. versions \in Seq(Procs)
    BY DEF Init
  <1>4. ProcTypes /\ Controlled
    BY StepNames DEF Init, ProcTypes, Controlled, Jobs
  <1>5. QED
    BY <1>2, <1>3, <1>4, TypeParts

LEMMA BucketTypesStay ==
  ASSUME TypeOK, Next
  PROVE  DbTypes' /\ BucketTypes' /\ KeyTypes'
  <1> DEFINE Goal == DbTypes' /\ BucketTypes' /\ KeyTypes'
  <1> USE TypeParts, Bounds DEF DbTypes, BucketTypes, KeyTypes
  <1>0. ASSUME UNCHANGED faults \/ Fault PROVE faults' \in 0..MaxFaults
    BY <1>0 DEF Fault
  <1>1. CASE ChangeAccounts \/ TurnGroup \/ LeaseExpires \/ LockExpires
    <2>1. CASE ChangeAccounts \/ TurnGroup \/ LeaseExpires
      BY <2>1 DEF ChangeAccounts, TurnGroup, LeaseExpires, dbVars, bucketVars
    <2>2. CASE LockExpires
      <3>1. locked' \in BOOLEAN
        BY <2>2 DEF LockExpires
      <3>2. QED
        BY <2>2, <3>1 DEF LockExpires, dbVars, bucketVars
    <2>3. QED
      BY <1>1, <2>1, <2>2
  <1>2. ASSUME NEW p \in Procs,
               \/ \E j \in Jobs : Start(p, j)
               \/ ListBuckets(p) \/ ListActiveIDs(p) \/ GetAccount(p) \/ CaptureRetired(p)
               \/ GetGroup(p) \/ LoadForSibling(p) \/ Load(p) \/ AllocateVersion(p)
               \/ ActivateNothing(p)
        PROVE  Goal
    BY <1>2 DEF Start, ListBuckets, ListActiveIDs, GetAccount, CaptureRetired, GetGroup,
       LoadForSibling, Load, AllocateVersion, ActivateNothing, dbVars, bucketVars
  <1>3. ASSUME NEW p \in Procs, SetAccount(p) \/ WriteSnapshot(p) PROVE Goal
    <2>1. loaded[p] # NoSnapshot
      BY <1>3 DEF SetAccount, WriteSnapshot, Controlled
    <2>2. loaded[p].change \in Nat
      BY <2>1, LoadedType
    <2>3. QED
      BY <1>3, <2>2 DEF SetAccount, WriteSnapshot, dbVars
  <1>4. ASSUME NEW p \in Procs, CaptureBucketWriteToken(p) PROVE Goal
    BY <1>4 DEF CaptureBucketWriteToken, dbVars
  <1>5. ASSUME NEW p \in Procs, TryAcquireLease(p) \/ GiveUp(p) \/ Release(p) PROVE Goal
    <2>1. faults' \in 0..MaxFaults
      BY <1>0, <1>5 DEF TryAcquireLease, GiveUp, Release
    <2>2. QED
      BY <1>5, <2>1 DEF TryAcquireLease, GiveUp, Release, ReleaseLease, dbVars, bucketVars
  <1>6. ASSUME NEW p \in Procs, Apply(p) PROVE Goal
    <2>1. faults' \in 0..MaxFaults
      BY <1>0, <1>6 DEF Apply
    <2>2. read[p] \in Nat
      BY DEF ProcTypes
    <2>3. ReopenBucket \/ RetireBucket
      BY <1>6 DEF Apply
    <2>4. epoch' \in Nat /\ lives' \in Nat
      BY <2>3 DEF ReopenBucket, RetireBucket
    <2>5. retired' \in BOOLEAN /\ registered' \in BOOLEAN
      BY <2>3, Zenon DEF ReopenBucket, RetireBucket
    <2>6. served' \in Snapshots \cup {NoSnapshot}
      BY <2>3 DEF ReopenBucket, RetireBucket
    <2>7. QED
      BY <1>6, <2>1, <2>2, <2>4, <2>5, <2>6 DEF Apply, dbVars
  <1>7. ASSUME NEW p \in Procs, TryLockBucket(p) \/ Unlock(p) PROVE Goal
    BY <1>7 DEF TryLockBucket, Unlock, dbVars, bucketVars
  <1>8. ASSUME NEW p \in Procs, ActivateVersion(p) PROVE Goal
    BY <1>8 DEF ActivateVersion, ProcTypes, dbVars
  <1>9. ASSUME NEW p \in Procs, Fail(p) PROVE Goal
    <2>1. faults' \in 0..MaxFaults
      BY <1>0, <1>9 DEF Fail
    <2>2. rows' \in Nat
      <3>1. CASE pc[p] \in {"set", "write"}
        <4>1. loaded[p] # NoSnapshot
          BY <3>1 DEF Controlled
        <4>2. loaded[p].change \in Nat
          BY <4>1, LoadedType
        <4>3. QED
          BY <1>9, <3>1, <4>2 DEF Fail
      <3>2. CASE pc[p] \notin {"set", "write"}
        BY <1>9, <3>2 DEF Fail
      <3>3. QED
        BY <3>1, <3>2
    <2>3. locked' \in BOOLEAN
      BY <1>9 DEF Fail
    <2>4. QED
      BY <1>9, <2>1, <2>2, <2>3 DEF Fail, dbVars
  <1>10. ASSUME NEW p \in Procs, Crash(p) \/ LifecycleTimeout(p) PROVE Goal
    <2>1. faults' \in 0..MaxFaults
      BY <1>0, <1>10 DEF Crash, LifecycleTimeout
    <2>2. QED
      BY <1>10, <2>1 DEF Crash, LifecycleTimeout, dbVars, bucketVars
  <1>11. QED
    BY <1>1, <1>2, <1>3, <1>4, <1>5, <1>6, <1>7, <1>8, <1>9, <1>10 DEF Next, Step

LEMMA ProcTypesStay ==
  ASSUME TypeOK, BucketTypes', Next
  PROVE  ProcTypes' /\ Controlled'
  <1> DEFINE Goal == ProcTypes' /\ Controlled'
  <1>0. DbTypes /\ BucketTypes /\ KeyTypes /\ ProcTypes /\ Controlled
    BY TypeParts
  <1> USE <1>0, StepNames
  <1>1. CASE ChangeAccounts \/ TurnGroup \/ LeaseExpires \/ LockExpires
    BY <1>1 DEF ChangeAccounts, TurnGroup, LeaseExpires, LockExpires, procVars, ProcTypes, Controlled
  <1>2. ASSUME NEW p \in Procs, NEW j \in Jobs, Start(p, j) PROVE Goal
    <2>1. FirstStep[j] \in {"capture", "account", "acquire", "list"}
      BY DEF FirstStep, Jobs
    <2>2. QED
      BY <1>2, <2>1 DEF Start, Goto, procVars, ProcTypes, Controlled
  <1>3. ASSUME NEW p \in Procs, ListBuckets(p) \/ ListActiveIDs(p) PROVE Goal
    <2>1. StaleGroup(p) \in {"acquire", "idle"}
      BY DEF StaleGroup
    <2>2. QED
      BY <1>3, <2>1 DEF ListBuckets, ListActiveIDs, Goto, ProcTypes, Controlled, BucketTypes
  <1>4. ASSUME NEW p \in Procs, GetAccount(p) \/ LoadForSibling(p) \/ Load(p) PROVE Goal
    BY <1>4, AccountsType DEF GetAccount, LoadForSibling, Load, Goto, ProcTypes, Controlled
  <1>5. ASSUME NEW p \in Procs, SetAccount(p) PROVE Goal
    BY <1>5 DEF SetAccount, Goto, ProcTypes, Controlled
  <1>6. ASSUME NEW p \in Procs, CaptureBucketWriteToken(p) PROVE Goal
    <2>1. epoch' \in Nat \ {0}
      BY <1>6 DEF CaptureBucketWriteToken, BucketTypes
    <2>2. QED
      BY <1>6, <2>1 DEF CaptureBucketWriteToken, Goto, ProcTypes, Controlled
  <1>7. ASSUME NEW p \in Procs, CaptureRetired(p) \/ TryAcquireLease(p) \/ TryLockBucket(p) PROVE Goal
    <2>1. CASE Return(p)
      BY <2>1, ReturnTypes
    <2>2. CASE ~Return(p)
      BY <1>7, <2>2 DEF CaptureRetired, TryAcquireLease, TryLockBucket, Goto, procVars, ProcTypes,
         Controlled
    <2>3. QED
      BY <2>1, <2>2
  <1>8. ASSUME NEW p \in Procs, GetGroup(p) PROVE Goal
    <2>1. turn \in Nat
      BY SchedulerAssumption DEF SchedulerAssumption, DbTypes
    <2>2. QED
      BY <1>8, <2>1 DEF GetGroup, Goto, ProcTypes, Controlled
  <1>9. ASSUME NEW p \in Procs, Apply(p) PROVE Goal
    <2>1. epoch' \in Nat
      BY DEF BucketTypes
    <2>2. QED
      BY <1>9, <2>1 DEF Apply, Goto, ProcTypes, Controlled
  <1>10. ASSUME NEW p \in Procs, GiveUp(p) \/ LifecycleTimeout(p) PROVE Goal
    <2>1. CASE GiveUp(p)
      BY <2>1 DEF GiveUp, Goto, ProcTypes, Controlled
    <2>2. CASE LifecycleTimeout(p)
      BY <2>2 DEF LifecycleTimeout, ProcTypes, Controlled
    <2>3. QED
      BY <1>10, <2>1, <2>2
  <1>11. ASSUME NEW p \in Procs, Release(p) PROVE Goal
    <2>1. CASE Return(p)
      BY <2>1, ReturnTypes
    <2>2. CASE ~Return(p)
      BY <1>11, <2>2 DEF Release, HasPlan, Goto, ProcTypes, Controlled
    <2>3. QED
      BY <2>1, <2>2
  <1>12. ASSUME NEW p \in Procs, AllocateVersion(p) \/ WriteSnapshot(p) \/ ActivateVersion(p)
                                 \/ ActivateNothing(p)
         PROVE  Goal
    BY <1>12 DEF AllocateVersion, WriteSnapshot, ActivateVersion, ActivateNothing, Goto, procVars,
       ProcTypes, Controlled
  <1>13. ASSUME NEW p \in Procs, Unlock(p) \/ Crash(p) PROVE Goal
    BY <1>13, ReturnTypes DEF Unlock, Crash
  <1>14. ASSUME NEW p \in Procs, Fail(p) PROVE Goal
    <2>1. CASE Return(p)
      BY <2>1, ReturnTypes
    <2>2. CASE ~Return(p)
      BY <1>14, <2>2 DEF Fail, Goto, procVars, ProcTypes, Controlled
    <2>3. QED
      BY <2>1, <2>2
  <1>15. QED
    BY <1>1, <1>2, <1>3, <1>4, <1>5, <1>6, <1>7, <1>8, <1>9, <1>10, <1>11, <1>12, <1>13, <1>14
    DEF Next, Step

LEMMA TypesStay == TypeOK /\ [Next]_vars => TypeOK'
  <1> SUFFICES ASSUME TypeOK, [Next]_vars PROVE TypeOK'
    OBVIOUS
  <1>1. CASE Next
    <2>1. DbTypes' /\ BucketTypes' /\ KeyTypes'
      BY <1>1, BucketTypesStay
    <2>2. ProcTypes' /\ Controlled'
      BY <1>1, <2>1, ProcTypesStay
    <2>3. versions' \in Seq(Procs)
      BY <1>1, TypeParts, VersionsStay
    <2>4. QED
      BY <2>1, <2>2, <2>3 DEF TypeOK, DbTypes, BucketTypes, KeyTypes, ProcTypes, Controlled
  <1>2. CASE UNCHANGED vars
    BY <1>2 DEF vars, dbVars, bucketVars, procVars, TypeOK
  <1>3. QED
    BY <1>1, <1>2

-----------------------------------------------------------------------------
(* The fence.                                                              *)

\* No token is from the future, and none that is from now outlives a retirement.
TokensAreOfThePast ==
  \A p \in Procs : token[p] <= epoch /\ (retired => token[p] < epoch)

\* Accounts loaded with the present epoch's token were loaded in this life.
LoadsAreOfThisLife ==
  \A p \in Procs : token[p] # 0 /\ token[p] = epoch /\ loaded[p] # NoSnapshot => loaded[p].life = lives

\* Before a job has its token it has loaded nothing, but for the account of an event.
TokenFirst ==
  \A p \in Procs : pc[p] \in {"idle", "list", "groups", "account", "capture", "acquire",
                             "decide", "apply", "release"} => loaded[p] = NoSnapshot

Fence == TokensAreOfThePast /\ LoadsAreOfThisLife /\ TokenFirst /\ ServesThisLife

LEMMA InitFence == Init => Fence
  BY DEF Init, Fence, TokensAreOfThePast, LoadsAreOfThisLife, TokenFirst, ServesThisLife

\* A step that leaves the bucket's life and snapshot, and gets no token, loads
\* at most what is there now, and not before it has a token.
LEMMA FenceKept ==
  ASSUME TypeOK, Fence,
         epoch' = epoch, retired' = retired, lives' = lives, served' = served,
         \A p \in Procs : token'[p] \in {token[p], 0},
         \A p \in Procs : \/ loaded'[p] \in {loaded[p], NoSnapshot} 
                          \/ loaded'[p] = Accounts,
         TokenFirst'
  PROVE  Fence'
  <1>1. BucketTypes /\ DbTypes /\ ProcTypes
    BY TypeParts
  <1>2. TokensAreOfThePast'
    BY <1>1 DEF Fence, TokensAreOfThePast, BucketTypes, ProcTypes
  <1>3. LoadsAreOfThisLife'
    BY <1>1, AccountsType DEF Fence, LoadsAreOfThisLife
  <1>4. ServesThisLife'
    BY DEF Fence, ServesThisLife
  <1>5. QED
    BY <1>2, <1>3, <1>4 DEF Fence

LEMMA FenceStays == TypeOK /\ Fence /\ [Next]_vars => Fence'
  <1> SUFFICES ASSUME TypeOK, Fence, [Next]_vars PROVE Fence'
    OBVIOUS
  <1>0. DbTypes /\ BucketTypes /\ ProcTypes /\ Controlled /\ TokenFirst
    BY TypeParts DEF Fence
  <1> USE <1>0, StepNames
  <1>1. CASE UNCHANGED vars
    BY <1>1 DEF vars, bucketVars, procVars, Fence, TokensAreOfThePast, LoadsAreOfThisLife,
       TokenFirst, ServesThisLife
  <1>2. CASE ChangeAccounts \/ TurnGroup \/ LeaseExpires \/ LockExpires
    BY <1>2 DEF ChangeAccounts, TurnGroup, LeaseExpires, LockExpires, bucketVars, procVars,
       Fence, TokensAreOfThePast, LoadsAreOfThisLife, TokenFirst, ServesThisLife
  <1>3. ASSUME NEW p \in Procs, Return(p), UNCHANGED <<epoch, retired, lives, served>> PROVE Fence'
    <2>1. TokenFirst'
      BY <1>3 DEF Return, Goto, ProcTypes, TokenFirst
    <2>2. /\ \A q \in Procs : token'[q] \in {token[q], 0}
          /\ \A q \in Procs : loaded'[q] \in {loaded[q], NoSnapshot}
      BY <1>3 DEF Return, ProcTypes
    <2>3. QED
      BY <1>3, <2>1, <2>2, FenceKept
  <1>4. ASSUME NEW p \in Procs,
               \/ \E j \in Jobs : Start(p, j)
               \/ ListBuckets(p) \/ ListActiveIDs(p) \/ GetAccount(p) \/ SetAccount(p) \/ GetGroup(p)
               \/ GiveUp(p) \/ LoadForSibling(p) \/ Load(p) \/ AllocateVersion(p) \/ WriteSnapshot(p)
               \/ ActivateNothing(p) \/ LifecycleTimeout(p)
        PROVE  Fence'
    <2>1. UNCHANGED <<epoch, retired, lives, served, token>>
      BY <1>4 DEF Start, ListBuckets, ListActiveIDs, GetAccount, SetAccount, GetGroup, GiveUp,
         LoadForSibling, Load, AllocateVersion, WriteSnapshot, ActivateNothing, LifecycleTimeout,
         bucketVars, procVars
    <2>2. \/ loaded' = loaded
          \/ loaded' = [loaded EXCEPT ![p] = Accounts]
          \/ loaded' = [loaded EXCEPT ![p] = NoSnapshot]
      BY <1>4 DEF Start, ListBuckets, ListActiveIDs, GetAccount, SetAccount, GetGroup, GiveUp,
         LoadForSibling, Load, AllocateVersion, WriteSnapshot, ActivateNothing, LifecycleTimeout,
         procVars
    <2>3. \A q \in Procs : loaded'[q] \in {loaded[q], NoSnapshot} \/ loaded'[q] = Accounts
      BY <2>2 DEF ProcTypes
    <2>4. TokenFirst'
      <3>1. CASE \E j \in Jobs : Start(p, j)
        BY <3>1 DEF Start, procVars, Goto, ProcTypes, TokenFirst
      <3>2. CASE ListBuckets(p) \/ ListActiveIDs(p) \/ GetGroup(p) \/ GiveUp(p)
        BY <3>2 DEF ListBuckets, ListActiveIDs, GetGroup, GiveUp, Goto, ProcTypes, TokenFirst
      <3>3. CASE GetAccount(p) \/ LoadForSibling(p) \/ Load(p)
        BY <3>3 DEF GetAccount, LoadForSibling, Load, Goto, ProcTypes, TokenFirst
      <3>4. CASE SetAccount(p) \/ WriteSnapshot(p)
        BY <3>4 DEF SetAccount, WriteSnapshot, procVars, Goto, ProcTypes, TokenFirst
      <3>5. CASE AllocateVersion(p) \/ ActivateNothing(p) \/ LifecycleTimeout(p)
        BY <3>5 DEF AllocateVersion, ActivateNothing, LifecycleTimeout, procVars, Goto, ProcTypes,
           TokenFirst
      <3>6. QED
        BY <1>4, <3>1, <3>2, <3>3, <3>4, <3>5
    <2>5. QED
      BY <2>1, <2>3, <2>4, FenceKept
  <1>5. ASSUME NEW p \in Procs,
               CaptureRetired(p) \/ TryAcquireLease(p) \/ Release(p) \/ TryLockBucket(p) \/ Unlock(p)
               \/ Fail(p) \/ Crash(p)
        PROVE  Fence'
    <2>1. UNCHANGED <<epoch, retired, lives, served>>
      BY <1>5 DEF CaptureRetired, TryAcquireLease, Release, TryLockBucket, Unlock, Fail, Crash, bucketVars
    <2>2. CASE Return(p)
      BY <1>3, <2>1, <2>2
    <2>3. CASE ~Return(p)
      <3>1. UNCHANGED <<token, loaded>>
        BY <1>5, <2>3 DEF CaptureRetired, TryAcquireLease, Release, TryLockBucket, Unlock, Fail, Crash,
           procVars
      <3>2. \A q \in Procs : pc'[q] \in {"idle", "list", "groups", "account", "capture", "acquire",
                                       "decide", "apply", "release"} => loaded[q] = NoSnapshot
        BY <1>5, <2>3 DEF CaptureRetired, TryAcquireLease, Release, TryLockBucket, Unlock, Fail, Crash,
           Goto, ProcTypes, TokenFirst
      <3>3. TokenFirst'
        BY <3>1, <3>2 DEF TokenFirst
      <3>4. QED
        BY <2>1, <3>1, <3>3, FenceKept
    <2>4. QED
      BY <2>2, <2>3
  <1>6. ASSUME NEW p \in Procs, CaptureBucketWriteToken(p) PROVE Fence'
    <2>1. /\ epoch' >= epoch /\ epoch' # 0 /\ (epoch # 0 => epoch' = epoch)
          /\ ~retired /\ retired' = retired
          /\ token' = [token EXCEPT ![p] = epoch']
          /\ UNCHANGED <<served, lives, loaded>>
          /\ loaded[p] = NoSnapshot
      BY <1>6 DEF CaptureBucketWriteToken, BucketTypes, TokenFirst
    <2>2. TokensAreOfThePast'
      <3>1. ~retired'
        BY <2>1, Zenon
      <3>2. \A q \in Procs : token'[q] <= epoch'
        <4>1. epoch \in Nat /\ epoch' \in Nat /\ token \in [Procs -> Nat]
          BY <1>6 DEF CaptureBucketWriteToken, BucketTypes, ProcTypes
        <4>2. \A q \in Procs : token[q] <= epoch
          BY Zenon DEF Fence, TokensAreOfThePast
        <4>3. QED
          BY <2>1, <4>1, <4>2
      <3>3. QED
        BY <3>1, <3>2 DEF TokensAreOfThePast
    <2>3. LoadsAreOfThisLife'
      BY <2>1 DEF Fence, LoadsAreOfThisLife, TokensAreOfThePast, BucketTypes, ProcTypes
    <2>4. TokenFirst'
      BY <1>6, <2>1 DEF CaptureBucketWriteToken, Goto, ProcTypes, TokenFirst
    <2>5. ServesThisLife'
      BY <2>1 DEF Fence, ServesThisLife
    <2>6. QED
      BY <2>2, <2>3, <2>4, <2>5 DEF Fence
  <1>7. ASSUME NEW p \in Procs, Apply(p) PROVE Fence'
    <2>1. /\ loaded[p] = NoSnapshot /\ UNCHANGED loaded
          /\ token' = token \/ token' = [token EXCEPT ![p] = IF IsActive(read[p]) THEN epoch' ELSE 0]
      BY <1>7 DEF Apply, TokenFirst
    <2>2. TokenFirst'
      BY <1>7, <2>1 DEF Apply, Goto, ProcTypes, TokenFirst
    <2>3. CASE ~IsActive(read[p]) /\ RetireBucket
      <3>1. /\ served' = NoSnapshot /\ epoch' \in Nat /\ epoch' > 0
            /\ \A q \in Procs : token[q] < epoch'
        <4>1. CASE retired
          BY <2>3, <4>1 DEF RetireBucket, Fence, TokensAreOfThePast, BucketTypes, ProcTypes
        <4>2. CASE ~retired
          BY <2>3, <4>2 DEF RetireBucket, Fence, TokensAreOfThePast, BucketTypes, ProcTypes
        <4>3. QED
          BY <4>1, <4>2
      <3>2. \A q \in Procs : token'[q] \in {token[q], 0}
        <4>1. token \in [Procs -> Nat]
          BY DEF ProcTypes
        <4>2. QED
          BY <2>1, <2>3, <4>1
      <3>3. \A q \in Procs : token'[q] < epoch'
        BY <3>1, <3>2
      <3>4. TokensAreOfThePast' /\ LoadsAreOfThisLife'
        BY <3>1, <3>2, <3>3 DEF TokensAreOfThePast, LoadsAreOfThisLife, ProcTypes
      <3>5. ServesThisLife'
        BY <3>1 DEF ServesThisLife
      <3>6. QED
        BY <2>2, <3>4, <3>5 DEF Fence
    <2>4. CASE IsActive(read[p]) /\ ReopenBucket
      <3>1. ~retired' /\ lives' = lives /\ ((served' = served /\ ~retired) \/ served' = NoSnapshot)
        BY <2>4, Zenon DEF ReopenBucket
      <3>2. /\ epoch' \in Nat \ {0} /\ epoch' >= epoch
            /\ \A q \in Procs : token[q] <= epoch'
            /\ \A q \in Procs : token[q] = epoch' => ~retired /\ epoch = epoch'
        BY <2>4 DEF ReopenBucket, Fence, TokensAreOfThePast, BucketTypes, ProcTypes
      <3>3. \A q \in Procs : token'[q] = token[q] \/ (token'[q] = epoch' /\ q = p)
        <4>1. token \in [Procs -> Nat]
          BY DEF ProcTypes
        <4>2. token' = token \/ token' = [token EXCEPT ![p] = epoch']
          BY <2>1, <2>4
        <4>3. QED
          BY <4>1, <4>2, Zenon
      <3>4. TokensAreOfThePast'
        BY <3>1, <3>2, <3>3 DEF TokensAreOfThePast
      <3>5. LoadsAreOfThisLife'
        BY <2>1, <3>1, <3>2, <3>3 DEF Fence, LoadsAreOfThisLife
      <3>6. ServesThisLife'
        BY <3>1 DEF Fence, ServesThisLife
      <3>7. QED
        BY <2>2, <3>4, <3>5, <3>6 DEF Fence
    <2>5. QED
      BY <1>7, <2>3, <2>4 DEF Apply
  <1>8. ASSUME NEW p \in Procs, ActivateVersion(p) PROVE Fence'
    <2>1. /\ UNCHANGED <<epoch, retired, lives, token, loaded>>
          /\ served' = loaded[p] /\ ~retired /\ epoch = token[p] /\ token[p] # 0
      BY <1>8 DEF ActivateVersion, MayWrite, Controlled, procVars
    <2>2. TokenFirst'
      BY <1>8 DEF ActivateVersion, procVars, Goto, ProcTypes, TokenFirst
    <2>3. ServesThisLife'
      BY <2>1 DEF Fence, LoadsAreOfThisLife, ServesThisLife
    <2>4. QED
      BY <2>1, <2>2, <2>3 DEF Fence, TokensAreOfThePast, LoadsAreOfThisLife
  <1>9. QED
    BY <1>1, <1>2, <1>4, <1>5, <1>6, <1>7, <1>8 DEF Next, Step

-----------------------------------------------------------------------------
(* The lifecycle lease.                                                    *)

\* What was read and decided is not from the future.
StatusesArePast == decided <= turn /\ \A p \in Procs : read[p] <= turn

\* Until its context is done, a job that reads the status and applies it has the
\* lease, and nothing later than what it has read is decided meanwhile.
LeaseCoversDecision ==
  \A p \in Procs : pc[p] \in {"decide", "apply"} /\ ~done[p] =>
                     lease = p /\ (pc[p] = "apply" => decided <= read[p])

Section == StatusesArePast /\ LeaseCoversDecision

LEMMA InitSection == Init => Section
  BY DEF Init, Section, StatusesArePast, LeaseCoversDecision

\* A step that does not decide, and lets no job but p into the section or on.
LEMMA SectionKept ==
  ASSUME TypeOK, Section, NEW p \in Procs,
         UNCHANGED <<turn, decided>>,
         \A q \in Procs : read'[q] \in {read[q], 0, turn},
         \A q \in Procs \ {p} : /\ pc'[q] = pc[q] /\ done'[q] = done[q] /\ read'[q] = read[q]
                                /\ lease = q => lease' = q,
         pc'[p] \in {"decide", "apply"} /\ ~done'[p] =>
           lease' = p /\ (pc'[p] = "apply" => decided <= read'[p])
  PROVE  Section'
  <1>1. decided \in Nat /\ turn \in Nat /\ read \in [Procs -> Nat]
    BY TypeParts, SchedulerAssumption DEF SchedulerAssumption, DbTypes, BucketTypes, ProcTypes
  <1>2. StatusesArePast'
    BY <1>1 DEF Section, StatusesArePast
  <1>3. LeaseCoversDecision'
    BY <1>1 DEF Section, LeaseCoversDecision
  <1>4. QED
    BY <1>2, <1>3 DEF Section

LEMMA SectionStays == TypeOK /\ Section /\ [Next]_vars => Section' /\ decided' >= decided
  <1> SUFFICES ASSUME TypeOK, Section, [Next]_vars PROVE Section' /\ decided' >= decided
    OBVIOUS
  <1> DEFINE Goal == Section' /\ decided' >= decided
  <1>0. ProcTypes /\ decided \in Nat /\ turn \in Nat /\ NoProc \notin Procs /\ Unknown \notin Procs
    BY TypeParts, SchedulerAssumption DEF SchedulerAssumption, DbTypes, BucketTypes
  <1> USE <1>0, StepNames
  <1>1. CASE UNCHANGED vars
    BY <1>1 DEF vars, dbVars, bucketVars, procVars, Section, StatusesArePast, LeaseCoversDecision
  <1>2. CASE ChangeAccounts \/ TurnGroup \/ LeaseExpires \/ LockExpires
    <2>1. UNCHANGED <<decided, pc, done, read>> /\ turn' >= turn /\ turn' \in Nat
      BY <1>2 DEF ChangeAccounts, TurnGroup, LeaseExpires, LockExpires, dbVars, bucketVars, procVars
    <2>2. \A p \in Procs : lease = p => lease' = p \/ done[p]
      BY <1>2 DEF ChangeAccounts, TurnGroup, LeaseExpires, LockExpires
    <2>3. StatusesArePast'
      BY <2>1 DEF Section, StatusesArePast, ProcTypes
    <2>4. LeaseCoversDecision'
      BY <2>1, <2>2 DEF Section, LeaseCoversDecision
    <2>5. QED
      BY <2>1, <2>3, <2>4 DEF Section
  <1>3. ASSUME NEW p \in Procs, Return(p), UNCHANGED <<turn, decided>>,
               \A q \in Procs \ {p} : lease = q => lease' = q
        PROVE  Goal
    <2>1. pc'[p] = "idle" /\ \A q \in Procs : read'[q] \in {read[q], 0, turn}
      BY <1>3 DEF Return, Goto, ProcTypes
    <2>2. \A q \in Procs \ {p} : pc'[q] = pc[q] /\ done'[q] = done[q] /\ read'[q] = read[q]
      BY <1>3 DEF Return, Goto, ProcTypes
    <2>3. QED
      BY <1>3, <2>1, <2>2, SectionKept
  <1>4. ASSUME NEW p \in Procs,
               \/ \E j \in Jobs : Start(p, j)
               \/ ListBuckets(p) \/ ListActiveIDs(p) \/ GetAccount(p) \/ SetAccount(p)
               \/ CaptureBucketWriteToken(p) \/ LoadForSibling(p) \/ Load(p) \/ AllocateVersion(p)
               \/ WriteSnapshot(p) \/ ActivateVersion(p) \/ ActivateNothing(p)
        PROVE  Goal
    <2>1. UNCHANGED <<turn, decided, lease, read, done>>
      BY <1>4 DEF Start, ListBuckets, ListActiveIDs, GetAccount, SetAccount, CaptureBucketWriteToken,
         LoadForSibling, Load, AllocateVersion, WriteSnapshot, ActivateVersion, ActivateNothing,
         dbVars, bucketVars, procVars
    <2>2. /\ pc'[p] \notin {"decide", "apply"}
          /\ \A q \in Procs \ {p} : pc'[q] = pc[q]
      <3>1. CASE \E j \in Jobs : Start(p, j)
        BY <3>1 DEF Start, FirstStep, Jobs, Goto, ProcTypes
      <3>2. CASE ListBuckets(p) \/ ListActiveIDs(p) \/ GetAccount(p) \/ SetAccount(p)
        BY <3>2 DEF ListBuckets, ListActiveIDs, StaleGroup, GetAccount, SetAccount, Goto, ProcTypes
      <3>3. CASE CaptureBucketWriteToken(p) \/ LoadForSibling(p) \/ Load(p) \/ AllocateVersion(p)
        BY <3>3 DEF CaptureBucketWriteToken, LoadForSibling, Load, AllocateVersion, Goto, ProcTypes
      <3>4. CASE WriteSnapshot(p) \/ ActivateVersion(p) \/ ActivateNothing(p)
        BY <3>4 DEF WriteSnapshot, ActivateVersion, ActivateNothing, Goto, ProcTypes
      <3>5. QED
        BY <1>4, <3>1, <3>2, <3>3, <3>4
    <2>3. QED
      BY <2>1, <2>2, SectionKept
  <1>5. ASSUME NEW p \in Procs,
               CaptureRetired(p) \/ TryLockBucket(p) \/ Unlock(p) \/ Fail(p) \/ Crash(p) \/ Release(p)
        PROVE  Goal
    <2>1. UNCHANGED <<turn, decided>> /\ \A q \in Procs \ {p} : lease = q => lease' = q
      BY <1>5 DEF CaptureRetired, TryLockBucket, Unlock, Fail, Crash, Release, ReleaseLease, dbVars,
         bucketVars
    <2>2. CASE Return(p)
      BY <1>3, <2>1, <2>2
    <2>3. CASE ~Return(p)
      <3>1. /\ UNCHANGED read /\ pc'[p] \notin {"decide", "apply"}
            /\ \A q \in Procs \ {p} : pc'[q] = pc[q] /\ done'[q] = done[q]
        BY <1>5, <2>3 DEF CaptureRetired, TryLockBucket, Unlock, Fail, Crash, Release, Goto, procVars,
           ProcTypes
      <3>2. QED
        BY <2>1, <3>1, SectionKept
    <2>4. QED
      BY <2>2, <2>3
  <1>6. ASSUME NEW p \in Procs, TryAcquireLease(p) PROVE Goal
    <2>1. UNCHANGED <<turn, decided>> /\ \A q \in Procs \ {p} : lease = q => lease' = q
      BY <1>6 DEF TryAcquireLease, dbVars, bucketVars
    <2>2. CASE Return(p)
      BY <1>3, <2>1, <2>2
    <2>3. CASE ~Return(p)
      <3>1. /\ lease' = p /\ UNCHANGED <<read, done>> /\ pc'[p] = "decide"
            /\ \A q \in Procs \ {p} : pc'[q] = pc[q]
        BY <1>6, <2>3 DEF TryAcquireLease, Goto, procVars, ProcTypes
      <3>2. QED
        BY <2>1, <3>1, SectionKept
    <2>4. QED
      BY <2>2, <2>3
  <1>7. ASSUME NEW p \in Procs, GetGroup(p) PROVE Goal
    <2>1. /\ UNCHANGED <<turn, decided, lease, done>> /\ ~done[p] /\ pc[p] = "decide"
          /\ pc'[p] = "apply" /\ read'[p] = turn
          /\ \A q \in Procs \ {p} : pc'[q] = pc[q] /\ read'[q] = read[q]
      BY <1>7 DEF GetGroup, Goto, dbVars, bucketVars, ProcTypes
    <2>2. lease = p /\ decided <= turn
      BY <2>1 DEF Section, StatusesArePast, LeaseCoversDecision
    <2>3. QED
      BY <2>1, <2>2, SectionKept
  <1>8. ASSUME NEW p \in Procs, Apply(p) PROVE Goal
    <2>1. /\ UNCHANGED <<turn, lease, done>> /\ ~done[p] /\ pc[p] = "apply" /\ decided' = read[p]
          /\ pc'[p] = "release" /\ read'[p] = 0
          /\ \A q \in Procs \ {p} : pc'[q] = pc[q] /\ read'[q] = read[q]
      BY <1>8 DEF Apply, Goto, dbVars, ProcTypes
    <2>2. lease = p /\ decided <= read[p] /\ read[p] <= turn
      BY <2>1 DEF Section, StatusesArePast, LeaseCoversDecision
    <2>3. \A q \in Procs \ {p} : pc[q] \in {"decide", "apply"} => done[q]
      BY <2>2 DEF Section, LeaseCoversDecision
    <2>4. decided' >= decided
      BY <2>1, <2>2 DEF ProcTypes
    <2>5. StatusesArePast'
      BY <2>1, <2>2 DEF Section, StatusesArePast
    <2>6. LeaseCoversDecision'
      BY <2>1, <2>3 DEF LeaseCoversDecision
    <2>7. QED
      BY <2>4, <2>5, <2>6 DEF Section
  <1>9. ASSUME NEW p \in Procs, GiveUp(p) \/ LifecycleTimeout(p) PROVE Goal
    <2>1. CASE GiveUp(p)
      <3>1. /\ UNCHANGED <<turn, decided, lease, done>> /\ pc'[p] = "release"
            /\ \A q \in Procs : read'[q] \in {read[q], 0}
            /\ \A q \in Procs \ {p} : pc'[q] = pc[q] /\ read'[q] = read[q]
        BY <2>1 DEF GiveUp, Goto, dbVars, bucketVars, ProcTypes
      <3>2. QED
        BY <3>1, SectionKept
    <2>2. CASE LifecycleTimeout(p)
      <3>1. /\ UNCHANGED <<turn, decided, lease, pc, read>> /\ done'[p]
            /\ \A q \in Procs \ {p} : done'[q] = done[q]
        BY <2>2 DEF LifecycleTimeout, dbVars, bucketVars, ProcTypes
      <3>2. QED
        BY <3>1, SectionKept
    <2>3. QED
      BY <1>9, <2>1, <2>2
  <1>10. QED
    BY <1>1, <1>2, <1>4, <1>5, <1>6, <1>7, <1>8, <1>9 DEF Next, Step

-----------------------------------------------------------------------------
(* The bucket implements GroupBucket.                                      *)

\* The retired mark is set just when the newest decision is against the group.
MarkFollowsDecision == retired <=> ~IsActive(decided)

\* What the mapping shows of the accounts that jobs have loaded.
Drafts == {loaded[p] : p \in Procs} \ {NoSnapshot}

\* Everything that the steps of the bucket rest on.
BInv == TypeOK /\ Fence /\ Section /\ MarkFollowsDecision

LEMMA InitBucketInv == Init => BInv
  <1>1. Init => MarkFollowsDecision
    BY DEF Init, MarkFollowsDecision, IsActive
  <1>2. QED
    BY <1>1, InitTypes, InitFence, InitSection DEF BInv

LEMMA MarkStays ==
  ASSUME MarkFollowsDecision, [Next]_vars
  PROVE  MarkFollowsDecision'
  <1>1. ASSUME NEW p \in Procs, Apply(p) PROVE MarkFollowsDecision'
    <2>1. decided' = read[p] /\ (retired' <=> ~IsActive(read[p]))
      BY <1>1, Zenon DEF Apply, ReopenBucket, RetireBucket
    <2>2. QED
      BY <2>1 DEF MarkFollowsDecision, IsActive
  <1>2. CASE ~\E p \in Procs : Apply(p)
    <2>1. UNCHANGED <<retired, decided>>
      BY <1>2 DEF Next, Step, ChangeAccounts, TurnGroup, LeaseExpires, LockExpires, Start,
         ListBuckets, ListActiveIDs, GetAccount, SetAccount, CaptureBucketWriteToken,
         CaptureRetired, TryAcquireLease, GetGroup, GiveUp, Release, TryLockBucket,
         LoadForSibling, Load, AllocateVersion, WriteSnapshot, ActivateVersion,
         ActivateNothing, Unlock, Fail, Crash, LifecycleTimeout, vars, bucketVars
    <2>2. QED
      BY <2>1 DEF MarkFollowsDecision, IsActive
  <1>3. QED
    BY <1>1, <1>2

LEMMA BucketInvStays == BInv /\ [Next]_vars => BInv'
  BY TypesStay, FenceStays, SectionStays, MarkStays DEF BInv

\* What a step that neither decides nor publishes loads or drops is a draft.
LEMMA DraftRefines ==
  ASSUME UNCHANGED <<change, turn, decided, lives, served>>,
         \A p \in Procs : loaded'[p] \in {loaded[p], NoSnapshot, Accounts}
  PROVE  Bucket!Draft
  <1>1. Drafts' \subseteq Drafts \cup {[change |-> change, life |-> lives]}
    BY DEF Drafts, Accounts
  <1>2. QED
    BY <1>1 DEF Bucket!Draft, Drafts

\* A decision is applied under the lease: the bucket follows the status it was read from.
LEMMA ApplyRefines ==
  ASSUME BInv, NEW p \in Procs, Apply(p)
  PROVE  \E t \in decided..turn : Bucket!Follow(t)
  <1>1. /\ read[p] \in decided..turn
        /\ decided \in Nat /\ turn \in Nat
    <2>1. decided \in Nat /\ turn \in Nat /\ read[p] \in Nat
      BY TypeParts, SchedulerAssumption
      DEF SchedulerAssumption, BInv, DbTypes, BucketTypes, ProcTypes
    <2>2. decided <= read[p] /\ read[p] <= turn
      BY DEF Apply, BInv, Section, StatusesArePast, LeaseCoversDecision
    <2>3. QED
      BY <2>1, <2>2
  <1>2. PICK t \in decided..turn : t = read[p]
    BY <1>1
  <1>3. /\ decided' = t /\ UNCHANGED <<change, turn, loaded>>
        /\ IF IsActive(t) THEN ReopenBucket ELSE RetireBucket
    BY <1>2 DEF Apply, dbVars
  <1>4. retired <=> ~IsActive(decided)
    BY DEF BInv, MarkFollowsDecision
  <1>5. retired => served = NoSnapshot
    BY DEF BInv, Fence, ServesThisLife
  <1>6. lives' = IF IsActive(decided) /\ ~IsActive(t) THEN lives + 1 ELSE lives
    BY <1>3, <1>4, Zenon DEF ReopenBucket, RetireBucket
  <1>7. served' = IF IsActive(decided) /\ IsActive(t) THEN served ELSE NoSnapshot
    BY <1>3, <1>4, <1>5, Zenon DEF ReopenBucket, RetireBucket
  <1>8. QED
    BY <1>3, <1>6, <1>7 DEF Bucket!Follow, Bucket!IsActive, IsActive

\* An activated snapshot was loaded since the bucket was last retired.
LEMMA ActivateRefines ==
  ASSUME BInv, NEW p \in Procs, ActivateVersion(p)
  PROVE  Bucket!Publish
  <1>1. /\ UNCHANGED <<change, turn, decided, lives, loaded>> /\ served' = loaded[p]
        /\ ~retired /\ epoch = token[p] /\ token[p] # 0 /\ loaded[p] # NoSnapshot
    BY TypeParts, StepNames DEF ActivateVersion, MayWrite, BInv, Controlled, dbVars, procVars
  <1>2. loaded[p].life = lives
    BY <1>1 DEF BInv, Fence, LoadsAreOfThisLife
  <1>3. IsActive(decided)
    BY <1>1 DEF BInv, MarkFollowsDecision
  <1>4. loaded[p] \in Drafts
    BY <1>1 DEF Drafts
  <1>5. QED
    BY <1>1, <1>2, <1>3, <1>4 DEF Bucket!Publish, Bucket!IsActive, IsActive, Drafts

LEMMA InitRefines == Init => Bucket!Init
  BY DEF Init, Bucket!Init

LEMMA StepRefines == BInv /\ [Next]_vars => [Bucket!Next]_Bucket!vars
  <1> SUFFICES ASSUME BInv, [Next]_vars PROVE [Bucket!Next]_Bucket!vars
    OBVIOUS
  <1>0. ProcTypes
    BY TypeParts DEF BInv
  <1>1. CASE ChangeAccounts
    <2>1. Bucket!Change
      BY <1>1 DEF ChangeAccounts, bucketVars, procVars, Bucket!Change
    <2>2. QED
      BY <2>1 DEF Bucket!Next
  <1>2. CASE TurnGroup
    <2>1. Bucket!Turn
      BY <1>2 DEF TurnGroup, bucketVars, procVars, Bucket!Turn
    <2>2. QED
      BY <2>1 DEF Bucket!Next
  <1>3. CASE LeaseExpires \/ LockExpires \/ UNCHANGED vars
    BY <1>3 DEF LeaseExpires, LockExpires, vars, dbVars, bucketVars, procVars, Bucket!vars
  <1>4. ASSUME NEW p \in Procs, Apply(p) PROVE Bucket!Next
    BY <1>4, ApplyRefines DEF Bucket!Next
  <1>5. ASSUME NEW p \in Procs, ActivateVersion(p) PROVE Bucket!Next
    BY <1>5, ActivateRefines DEF Bucket!Next
  <1>6. ASSUME NEW p \in Procs,
               \/ \E j \in Jobs : Start(p, j)
               \/ ListBuckets(p) \/ ListActiveIDs(p) \/ GetAccount(p) \/ SetAccount(p)
               \/ CaptureBucketWriteToken(p) \/ CaptureRetired(p) \/ TryAcquireLease(p)
               \/ GetGroup(p) \/ GiveUp(p) \/ Release(p) \/ TryLockBucket(p) \/ LoadForSibling(p)
               \/ Load(p) \/ AllocateVersion(p) \/ WriteSnapshot(p) \/ ActivateNothing(p)
               \/ Unlock(p) \/ Fail(p) \/ Crash(p) \/ LifecycleTimeout(p)
        PROVE  Bucket!Next
    <2>1. UNCHANGED <<change, turn, decided, lives, served>>
      BY <1>6 DEF Start, ListBuckets, ListActiveIDs, GetAccount, SetAccount,
         CaptureBucketWriteToken, CaptureRetired, TryAcquireLease, GetGroup, GiveUp, Release,
         TryLockBucket, LoadForSibling, Load, AllocateVersion, WriteSnapshot, ActivateNothing,
         Unlock, Fail, Crash, LifecycleTimeout, dbVars, bucketVars
    <2>2. \/ loaded' = loaded
          \/ loaded' = [loaded EXCEPT ![p] = Accounts]
          \/ loaded' = [loaded EXCEPT ![p] = NoSnapshot]
      BY <1>6 DEF Start, ListBuckets, ListActiveIDs, GetAccount, SetAccount,
         CaptureBucketWriteToken, CaptureRetired, TryAcquireLease, GetGroup, GiveUp, Release,
         TryLockBucket, LoadForSibling, Load, AllocateVersion, WriteSnapshot, ActivateNothing,
         Unlock, Fail, Crash, LifecycleTimeout, Return, procVars
    <2>3. \A q \in Procs : loaded'[q] \in {loaded[q], NoSnapshot, Accounts}
      BY <1>0, <2>2 DEF ProcTypes
    <2>4. QED
      BY <2>1, <2>3, DraftRefines DEF Bucket!Next
  <1>7. QED
    BY <1>1, <1>2, <1>3, <1>4, <1>5, <1>6 DEF Next, Step

-----------------------------------------------------------------------------
(* Theorems.                                                               *)

\* Every reachable state has the types of the keys and of the jobs' variables: in
\* particular no job publishes without a write token, or before it has loaded.
THEOREM TypeCorrect == Spec => []TypeOK
  BY InitTypes, TypesStay, PTL DEF Spec

\* The epoch and the retired mark keep every writer that was under way when the
\* bucket was retired from publishing its snapshot, however late it allocates or
\* activates.
THEOREM RetirementFences == Spec => []ServesThisLife
  <1>1. Init => TypeOK /\ Fence
    BY InitTypes, InitFence
  <1>2. TypeOK /\ Fence /\ [Next]_vars => TypeOK' /\ Fence'
    BY TypesStay, FenceStays
  <1>3. Fence => ServesThisLife
    BY DEF Fence
  <1>4. QED
    BY <1>1, <1>2, <1>3, PTL DEF Spec

\* Retirements and reopenings follow the order of the statuses they are due to,
\* for any number of goroutines: the status is read under the lease, and the lease
\* outlasts the context that the decision is applied with.
THEOREM LeaseOrdersDecisions == Spec => DecisionsInOrder
  <1>1. Init => TypeOK /\ Section
    BY InitTypes, InitSection
  <1>2. TypeOK /\ Section /\ [Next]_vars => TypeOK' /\ Section'
    BY TypesStay, SectionStays
  <1>3. TypeOK /\ Section /\ [Next]_vars => [decided' >= decided]_decided
    BY SectionStays
  <1>4. QED
    BY <1>1, <1>2, <1>3, PTL DEF Spec, DecisionsInOrder

\* However jobs, decisions, failures and expiries interleave, the published snapshot
\* is what GroupBucket promises: none of an inactive group, once that is decided, and
\* of an active one only one that was loaded since the bucket was last retired.
THEOREM ImplementsBucket == Spec => KeepsBucket
  <1>1. Spec => []BInv
    BY InitBucketInv, BucketInvStays, PTL DEF Spec
  <1>2. QED
    BY <1>1, InitRefines, StepRefines, PTL DEF Spec, KeepsBucket, Bucket!Spec

=============================================================================
