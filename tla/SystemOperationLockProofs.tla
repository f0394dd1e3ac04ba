--------------------- MODULE SystemOperationLockProofs ---------------------
(***************************************************************************)
(* Proofs about SystemOperationLock for any set of operations and any      *)
(* lease, however long an operation, an Acquire or a renewal takes.        *)
(***************************************************************************)
EXTENDS SystemOperationLock, TLAPS

\* Acquire compares the row with a time that has passed.
Started == \A o \in Operations : pc[o] # "idle" => since[o] <= clock

\* A running operation has a row.
HasRow == ~lapsed /\ Running # {} => record.id # 0

IInv == TypeOK /\ Started /\ HasRow /\ OwnedUntilLapse /\ ExclusiveUntilLapse

LEMMA InitIInv == Init => IInv
  <1> SUFFICES ASSUME Init PROVE IInv
    OBVIOUS
  <1>1. TypeOK
    <2>1. RecordsTypeOK
      BY RecordsAssumption DEF Init, RecordsInit, RecordsTypeOK, Row, NoRecord, RecordStatus,
                               RecordsAssumption
    <2>2. renewing \in [Operations -> BOOLEAN] /\ lapsed \in BOOLEAN
      BY Zenon DEF Init
    <2>3. QED
      BY <2>1, <2>2, RecordsAssumption DEF Init, TypeOK, Nothing, RecordStatus, RecordsAssumption
  <1>a. Started
    BY DEF Init, Started
  <1>2. Running = {}
    BY DEF Init, Running
  <1>3. QED
    BY <1>1, <1>a, <1>2 DEF IInv, HasRow, OwnedUntilLapse, ExclusiveUntilLapse, OneOperation

LEMMA NoRecordType == NoRecord \in Row /\ Nothing \in [id : Nat, status : RecordStatus]
  BY RecordsAssumption DEF NoRecord, Nothing, Row, RecordStatus

OpType ==
  /\ pc \in [Operations -> {"idle", "holding"} \cup Claiming]
  /\ since \in [Operations -> 0..MaxTime]
  /\ seen \in [Operations -> [id : Nat, status : RecordStatus]]
  /\ held \in [Operations -> Nat]
  /\ renewing \in [Operations -> BOOLEAN]

\* Every step leaves a Boolean in the history.
LEMMA WatchType == Watch => lapsed' \in BOOLEAN
  BY Zenon DEF Watch

\* The next three: operations that end or start running keep the types of their
\* variables, and the statements on the table those of the row.
LEMMA ReturnType ==
  ASSUME OpType, NEW o \in Operations, Return(o)
  PROVE  OpType'
  BY NoRecordType, RecordsAssumption DEF OpType, Return, RecordsAssumption

LEMMA AcquiredType ==
  ASSUME OpType, NEW o \in Operations, NEW i \in Nat, Acquired(o, i)
  PROVE  OpType'
  BY NoRecordType DEF OpType, Acquired

LEMMA RowTypes ==
  ASSUME RecordsTypeOK, NEW f \in Fingerprints \cup {NoFingerprint}, NEW i, NEW l \in Nat, NEW e \in Nat,
         \/ CreateProcessing(f, l, e) \/ TryReclaim(l, e) \/ ExtendProcessingLock(l, e)
         \/ MarkSucceeded(i, f, e) \/ MarkFailedRetryable(i, l, e)
  PROVE  record' \in Row /\ lastId' \in Nat /\ UNCHANGED victim
  <1> USE DEF RecordsTypeOK, Row, RecordStatus
  <1>1. CASE CreateProcessing(f, l, e)
    BY <1>1 DEF CreateProcessing
  <1>2. CASE TryReclaim(l, e)
    BY <1>2 DEF TryReclaim
  <1>3. CASE ExtendProcessingLock(l, e)
    BY <1>3 DEF ExtendProcessingLock
  <1>4. CASE MarkSucceeded(i, f, e)
    BY <1>4 DEF MarkSucceeded
  <1>5. CASE MarkFailedRetryable(i, l, e)
    BY <1>5 DEF MarkFailedRetryable
  <1>6. QED
    BY <1>1, <1>2, <1>3, <1>4, <1>5

LEMMA StepTypeOK == TypeOK /\ [Next]_vars => TypeOK'
  <1> SUFFICES ASSUME TypeOK, [Next]_vars PROVE TypeOK'
    OBVIOUS
  <1>a. lapsed' \in BOOLEAN
    BY WatchType DEF Next, StartAcquire, Create, ReadBusy, ReadFree, Reclaim, Renew, Release,
                     Abandon, CleanUp, Tick, vars, TypeOK
  <1> USE RecordsAssumption, LockAssumption DEF RecordsAssumption, LockAssumption
  <1>0. OpType /\ RecordsTypeOK
    BY DEF TypeOK, OpType
  <1>1. SUFFICES RecordsTypeOK' /\ OpType'
    BY <1>a DEF TypeOK, OpType
  <1>2. /\ clock \in Nat /\ clock + Lease \in Nat /\ clock + TTL \in Nat
        /\ \A o \in Operations : /\ since[o] + Lease \in Nat /\ since[o] + TTL \in Nat
                                 /\ seen[o].id \in Nat
    BY <1>0 DEF OpType, RecordsTypeOK, Row
  <1>3. ASSUME NEW o \in Operations, StartAcquire(o) \/ ReadBusy(o) \/ ReadFree(o) \/ Abandon(o)
        PROVE  RecordsTypeOK' /\ OpType'
    <2>1. RecordsTypeOK'
      BY <1>0, <1>3 DEF StartAcquire, ReadBusy, ReadFree, Abandon, tableVars, RecordsTypeOK
    <2>2. CASE StartAcquire(o) \/ ReadFree(o)
      BY <1>0, <2>1, <2>2 DEF StartAcquire, ReadFree, OpType, RecordsTypeOK, Claiming, Row
    <2>3. CASE ReadBusy(o) \/ Abandon(o)
      BY <1>0, <2>1, <2>3, ReturnType DEF ReadBusy, Abandon
    <2>4. QED
      BY <1>3, <2>2, <2>3
  <1>4. ASSUME NEW o \in Operations, Create(o) PROVE RecordsTypeOK' /\ OpType'
    <2>1. CASE CreateProcessing(o, since[o] + Lease, since[o] + TTL) /\ Acquired(o, lastId')
      BY <1>0, <1>2, <1>4, <2>1, RowTypes, AcquiredType DEF Create, Operations, RecordsTypeOK
    <2>2. CASE pc' = [pc EXCEPT ![o] = "read"] /\ UNCHANGED <<tableVars, since, seen, held, renewing>>
      BY <1>0, <1>4, <2>2 DEF Create, RecordsTypeOK, OpType, tableVars, Claiming
    <2>3. QED
      BY <1>4, <2>1, <2>2 DEF Create
  <1>5. ASSUME NEW o \in Operations, Reclaim(o) PROVE RecordsTypeOK' /\ OpType'
    <2>1. CASE TryReclaim(since[o] + Lease, since[o] + TTL) /\ Acquired(o, seen[o].id)
      BY <1>0, <1>2, <1>5, <2>1, RowTypes, AcquiredType DEF Reclaim, Operations, RecordsTypeOK
    <2>2. CASE UNCHANGED tableVars /\ Return(o)
      BY <1>0, <1>5, <2>2, ReturnType DEF Reclaim, RecordsTypeOK, tableVars
    <2>3. QED
      BY <1>5, <2>1, <2>2 DEF Reclaim
  <1>6. ASSUME NEW o \in Operations, Renew(o) PROVE RecordsTypeOK' /\ OpType'
    <2>1. OpType'
      <3>1. renewing' \in [Operations -> BOOLEAN]
        BY <1>0, <1>6, Zenon DEF Renew, OpType
      <3>2. QED
        BY <1>0, <1>6, <3>1 DEF Renew, OpType, RecordsTypeOK
    <2>2. CASE ExtendProcessingLock(clock + Lease, clock + TTL)
      BY <1>0, <1>2, <1>6, <2>1, <2>2, RowTypes DEF Renew, Operations, RecordsTypeOK
    <2>3. CASE UNCHANGED tableVars
      BY <1>0, <1>6, <2>1, <2>3 DEF Renew, RecordsTypeOK, tableVars
    <2>4. QED
      BY <1>6, <2>2, <2>3 DEF Renew
  <1>7. ASSUME NEW o \in Operations, Release(o) PROVE RecordsTypeOK' /\ OpType'
    BY <1>0, <1>2, <1>7, RowTypes, ReturnType DEF Release, Operations, RecordsTypeOK
  <1>8. CASE CleanUp
    BY <1>0, <1>8, NoRecordType DEF CleanUp, DeleteExpired, DeleteAtOnce, FindExpired, DeleteFound,
                                    RecordsTypeOK, OpType, opVars, Row
  <1>9. CASE Tick \/ UNCHANGED vars
    BY <1>0, <1>9 DEF Tick, vars, tableVars, opVars, RecordsTypeOK, OpType
  <1>10. QED
    BY <1>3, <1>4, <1>5, <1>6, <1>7, <1>8, <1>9 DEF Next


LEMMA StepStarted == TypeOK /\ Started /\ [Next]_vars => Started'
  <1> SUFFICES ASSUME TypeOK, Started, [Next]_vars PROVE Started'
    OBVIOUS
  <1>0. /\ pc \in [Operations -> {"idle", "holding"} \cup Claiming]
        /\ since \in [Operations -> 0..MaxTime] /\ clock \in 0..MaxTime /\ MaxTime \in Nat
    BY RecordsAssumption DEF TypeOK, RecordsTypeOK, RecordsAssumption
  <1>1. ASSUME NEW o \in Operations, StartAcquire(o) PROVE Started'
    BY <1>0, <1>1 DEF StartAcquire, Started
  <1>2. ASSUME NEW o \in Operations,
               Create(o) \/ ReadBusy(o) \/ ReadFree(o) \/ Reclaim(o) \/ Release(o) \/ Abandon(o)
        PROVE  Started'
    <2>1. /\ UNCHANGED clock /\ pc[o] # "idle"
          /\ \A p \in Operations : pc'[p] # "idle" => pc[p] # "idle" /\ since'[p] = since[p]
      BY <1>0, <1>2 DEF Create, ReadBusy, ReadFree, Reclaim, Release, Abandon, Return, Acquired
    <2>2. QED
      BY <2>1 DEF Started
  <1>3. ASSUME NEW o \in Operations, Renew(o) PROVE Started'
    BY <1>0, <1>3 DEF Renew, Started
  <1>4. CASE CleanUp \/ Tick \/ UNCHANGED vars
    BY <1>0, <1>4 DEF CleanUp, Tick, vars, opVars, Started
  <1>5. QED
    BY <1>1, <1>2, <1>3, <1>4 DEF Next

-----------------------------------------------------------------------------
(* What a running operation has, and what a step has to show about it.     *)

Owns(o) ==
  /\ record.id = held[o] /\ record.status = "processing"
  /\ record.lockedUntil = since[o] + Lease /\ record.lockedUntil > clock

\* A step that leaves the row, and of the operations at most lets some end.
LEMMA LeavesTheRow ==
  ASSUME OneOperation, UNCHANGED record, clock \in Nat,
         clock' \in Nat, record.lockedUntil \in Nat,
         \A o \in Running : Owns(o),
         \A o \in Running' : o \in Running /\ since'[o] = since[o] /\ held'[o] = held[o]
                             /\ since'[o] + Lease > clock'
  PROVE  OneOperation' /\ \A o \in Running' : Owns(o)'
  <1>1. OneOperation'
    BY DEF OneOperation
  <1>2. ASSUME NEW o \in Running' PROVE Owns(o)'
    BY <1>2 DEF Owns
  <1>3. QED
    BY <1>1, <1>2

\* An operation that starts running when none does.
LEMMA RunsAlone ==
  ASSUME TypeOK, NEW o \in Operations, NEW i, Acquired(o, i), Running = {},
         record'.id = i, record'.status = "processing",
         record'.lockedUntil = since[o] + Lease, since[o] + Lease > clock, UNCHANGED clock
  PROVE  OneOperation' /\ \A p \in Running' : Owns(p)'
  <1>1. /\ pc' = [pc EXCEPT ![o] = "holding"] /\ held' = [held EXCEPT ![o] = i]
        /\ UNCHANGED since /\ DOMAIN pc = Operations /\ DOMAIN held = Operations
    BY DEF Acquired, TypeOK
  <1>2. Running' = {o}
    BY <1>1 DEF Running
  <1>3. QED
    BY <1>1, <1>2 DEF OneOperation, Owns

LEMMA StepOwned ==
  ASSUME IInv, [Next]_vars, ~lapsed'
  PROVE  OneOperation' /\ HasRow' /\ \A o \in Running' : Owns(o)'
  <1> USE LockAssumption, RecordsAssumption DEF LockAssumption, RecordsAssumption
  <1> DEFINE Goal == OneOperation' /\ \A o \in Running' : Owns(o)'
  <1>0. /\ pc \in [Operations -> {"idle", "holding"} \cup Claiming]
        /\ since \in [Operations -> 0..MaxTime] /\ held \in [Operations -> Nat]
        /\ clock \in 0..MaxTime /\ record \in Row /\ lastId \in Nat
        /\ seen \in [Operations -> [id : Nat, status : RecordStatus]] /\ record.lockedUntil \in Nat
    BY DEF IInv, TypeOK, RecordsTypeOK, Row
  <1>1. CASE UNCHANGED vars
    BY <1>1 DEF vars, tableVars, opVars, IInv, HasRow, ExclusiveUntilLapse, OwnedUntilLapse, OneOperation,
                Owns, Running
  <1>2. CASE Running' = {}
    BY <1>2 DEF OneOperation, HasRow
  <1>3. CASE Next /\ Running' # {}
    <2>1. ~lapsed /\ \A o \in Running' : since'[o] + Lease > clock' /\ record'.id # 0
      <3>1. Watch
        BY <1>3 DEF Next, StartAcquire, Create, ReadBusy, ReadFree, Reclaim, Renew, Release,
                    Abandon, CleanUp, Tick
      <3>2. ~lapsed /\ ~Lapses'
        BY <1>3, <3>1 DEF Watch
      <3>3. TypeOK'
        BY StepTypeOK DEF IInv
      <3>4. QED
        BY <3>2, <3>3 DEF Lapses, TypeOK, RecordsTypeOK, Running
    <2>2. OneOperation /\ \A o \in Running : Owns(o)
      BY <2>1 DEF IInv, ExclusiveUntilLapse, OwnedUntilLapse, Owns
    <2>3. clock' \in Nat
      BY StepTypeOK DEF IInv, TypeOK, RecordsTypeOK
    <2>4. ASSUME NEW o \in Operations, UNCHANGED tableVars, o \notin Running',
                 StartAcquire(o) \/ Create(o) \/ ReadBusy(o) \/ ReadFree(o) \/ Reclaim(o) \/ Abandon(o)
          PROVE  Goal
      <3>1. \A p \in Running' : p \in Running /\ since'[p] = since[p] /\ held'[p] = held[p]
        BY <1>0, <2>4 DEF StartAcquire, Create, ReadBusy, ReadFree, Reclaim, Abandon, Return,
                          Acquired, Running
      <3>2. QED
        BY <1>0, <2>1, <2>2, <2>3, <2>4, <3>1, LeavesTheRow DEF tableVars
    <2>5. ASSUME NEW o \in Operations, Create(o) PROVE Goal
      <3>1. CASE CreateProcessing(o, since[o] + Lease, since[o] + TTL) /\ Acquired(o, lastId')
        <4>1. Running = {}
          BY <2>1, <3>1 DEF CreateProcessing, IInv, HasRow
        <4>2. o \in Running' /\ UNCHANGED <<clock, since>>
          BY <1>0, <2>5, <3>1 DEF Create, Acquired, Running
        <4>3. since[o] + Lease > clock
          BY <2>1, <4>2
        <4>4. QED
          BY <1>0, <3>1, <4>1, <4>2, <4>3, RunsAlone DEF CreateProcessing, IInv
      <3>2. CASE pc' = [pc EXCEPT ![o] = "read"] /\ UNCHANGED <<tableVars, since, seen, held, renewing>>
        <4>1. o \notin Running'
          BY <1>0, <3>2 DEF Running
        <4>2. QED
          BY <2>4, <2>5, <3>2, <4>1
      <3>3. QED
        BY <2>5, <3>1, <3>2 DEF Create
    <2>6. ASSUME NEW o \in Operations, Reclaim(o) PROVE Goal
      <3>1. CASE /\ Reclaimable(seen[o].id, seen[o].status, since[o])
                 /\ TryReclaim(since[o] + Lease, since[o] + TTL) /\ Acquired(o, seen[o].id)
        <4>1. since[o] <= clock
          BY <2>6 DEF Reclaim, IInv, Started
        <4>2. Running = {}
          BY <1>0, <2>2, <3>1, <4>1 DEF Owns, Reclaimable
        <4>3. o \in Running' /\ UNCHANGED <<clock, since>>
          BY <1>0, <2>6, <3>1 DEF Reclaim, Acquired, Running
        <4>4. since[o] + Lease > clock
          BY <2>1, <4>3
        <4>5. /\ record'.id = seen[o].id /\ record'.status = "processing"
              /\ record'.lockedUntil = since[o] + Lease
          BY <1>0, <3>1 DEF Reclaimable, TryReclaim, Row
        <4>6. QED
          BY <3>1, <4>2, <4>3, <4>4, <4>5, RunsAlone DEF IInv
      <3>2. CASE Return(o) /\ UNCHANGED tableVars
        <4>1. o \notin Running'
          BY <1>0, <3>2 DEF Return, Running
        <4>2. QED
          BY <2>4, <2>6, <3>2, <4>1
      <3>3. QED
        BY <2>6, <3>1, <3>2 DEF Reclaim
    <2>7. ASSUME NEW o \in Operations, Renew(o) PROVE Goal
      <3>1. o \in Running /\ UNCHANGED <<clock, pc, held>> /\ Running' = Running
        BY <2>7 DEF Renew, Running
      <3>2. OneOperation' /\ \A p \in Running' : p = o
        BY <2>2, <3>1 DEF OneOperation
      <3>3. CASE ExtendProcessingLock(clock + Lease, clock + TTL) /\ since' = [since EXCEPT ![o] = clock]
        <4>1. /\ record'.id = record.id /\ record'.status = record.status
              /\ record'.lockedUntil = clock + Lease /\ since'[o] = clock
          BY <1>0, <3>3 DEF ExtendProcessingLock, Row
        <4>2. QED
          BY <1>0, <2>1, <2>2, <3>1, <3>2, <4>1 DEF Owns
      <3>4. CASE UNCHANGED <<tableVars, since>>
        BY <1>0, <2>1, <2>2, <2>3, <3>1, <3>4, LeavesTheRow DEF tableVars
      <3>5. QED
        BY <2>7, <3>3, <3>4 DEF Renew
    <2>8. ASSUME NEW o \in Operations, Release(o) PROVE FALSE
      <3>1. o \in Running /\ Running' = Running \ {o}
        BY <1>0, <2>8 DEF Release, Return, Running
      <3>2. QED
        BY <1>3, <2>2, <3>1 DEF OneOperation
    <2>9. ASSUME CleanUp PROVE Goal
      <3>1. /\ Running' = Running /\ UNCHANGED <<since, held>>
        BY <2>9 DEF CleanUp, opVars, Running
      <3>2. UNCHANGED record
        BY <1>3, <2>1, <2>9 DEF CleanUp, DeleteExpired, DeleteAtOnce, FindExpired, DeleteFound, NoRecord
      <3>3. \A p \in Running' : /\ p \in Running /\ since'[p] = since[p] /\ held'[p] = held[p]
                                /\ since'[p] + Lease > clock'
        BY <2>1, <3>1
      <3>4. QED
        BY <1>0, <2>2, <2>3, <3>2, <3>3, LeavesTheRow
    <2>10. ASSUME Tick PROVE Goal
      <3>1. /\ Running' = Running /\ UNCHANGED <<record, since, held>>
        BY <2>10 DEF Tick, opVars, tableVars, Running
      <3>2. \A p \in Running' : /\ p \in Running /\ since'[p] = since[p] /\ held'[p] = held[p]
                                /\ since'[p] + Lease > clock'
        BY <2>1, <3>1
      <3>3. QED
        BY <1>0, <2>2, <2>3, <3>1, <3>2, LeavesTheRow
    <2>11. ASSUME NEW o \in Operations, StartAcquire(o) \/ ReadBusy(o) \/ ReadFree(o) \/ Abandon(o)
           PROVE  Goal
      <3>1. o \notin Running' /\ UNCHANGED tableVars
        BY <1>0, <2>11 DEF StartAcquire, ReadBusy, ReadFree, Abandon, Return, Running
      <3>2. QED
        BY <2>4, <2>11, <3>1
    <2>12. HasRow'
      BY <1>3, <2>1 DEF HasRow
    <2>13. QED
      BY <1>3, <2>5, <2>6, <2>7, <2>8, <2>9, <2>10, <2>11, <2>12 DEF Next
  <1>4. QED
    BY <1>1, <1>2, <1>3

LEMMA StepIInv == IInv /\ [Next]_vars => IInv'
  <1> SUFFICES ASSUME IInv, [Next]_vars PROVE IInv'
    OBVIOUS
  <1>1. TypeOK' /\ Started'
    BY StepTypeOK, StepStarted DEF IInv
  <1>2. HasRow' /\ OwnedUntilLapse' /\ ExclusiveUntilLapse'
    BY StepOwned DEF HasRow, OwnedUntilLapse, ExclusiveUntilLapse, Owns
  <1>3. QED
    BY <1>1, <1>2 DEF IInv

LEMMA IInvHolds == Spec => []IInv
  BY InitIInv, StepIInv, PTL DEF Spec

\* The state of the lock keeps its types.
THEOREM TypeCorrect == Spec => []TypeOK
  BY IInvHolds, PTL DEF IInv

\* Whatever the lease and however long operations take, a second one gets in only
\* after a running one has outlived the lease it wrote last, or lost its row.
THEOREM OperationsExcludeUntilLapse == Spec => []ExclusiveUntilLapse
  BY IInvHolds, PTL DEF IInv

\* Until then the row is the running operation's own, and locked as it believes.
THEOREM HolderOwnsTheRow == Spec => []OwnedUntilLapse
  BY IInvHolds, PTL DEF IInv

=============================================================================
