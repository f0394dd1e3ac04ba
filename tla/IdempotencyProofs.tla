------------------------- MODULE IdempotencyProofs -------------------------
(***************************************************************************)
(* Proofs about Idempotency for any set of requests, any durations and any *)
(* number of rows, as long as a request claims its row well within the     *)
(* lock it writes, returns before the row expires, and no row is reclaimed *)
(* while a clean-up deletes it.  Without renewals, the lock of a claim     *)
(* says little: what keeps a second request out while the first one        *)
(* executes is that the row has not expired.  What a replay answers does   *)
(* not depend on any of that.                                              *)
(***************************************************************************)
EXTENDS Idempotency, TLAPS

Timely == /\ MaxClaim < ProcessingTimeout
          /\ MaxClaim < TTL
          /\ MaxRequest < TTL
          /\ DeleteIsAtomic

Reclaiming == {"reclaim_expired", "reclaim_failed"}

\* The age of a request that has not claimed is bounded by Tick.
Aging ==
  \A r \in Requests :
    /\ pc[r] # "idle" => now[r] <= clock /\ asked[r] \in Fingerprints
    /\ pc[r] \in Claiming => clock <= now[r] + MaxClaim

\* The row of a request that executes is as the request claimed it.
Owning ==
  \A r \in Requests : pc[r] \in Executing =>
    /\ held[r] = record.id /\ record.id # 0
    /\ record.status = "processing"
    /\ record.fingerprint = asked[r]
    /\ record.lockedUntil = Locked(r)
    /\ record.expiresAt = Expires(r)
    /\ clock < Expires(r)

\* Who is about to reclaim an expired row is too old to pass the lock of a claim
\* that was made meanwhile.
Late ==
  \A r, s \in Requests :
    pc[r] = "reclaim_expired" /\ pc[s] \in Executing => now[r] < Locked(s)

\* What a request has read is still true of that row, if it is still there.
Snapshots ==
  \A r \in Requests :
    /\ pc[r] \in Reclaiming =>
         /\ seen[r].id # 0 /\ seen[r].id <= lastId
         /\ record.id = seen[r].id => record.fingerprint = asked[r]
    /\ pc[r] = "reclaim_expired" => seen[r].expiresAt <= now[r]

\* The row of a claim, if it is still there, is a row of the claimed payload.
Holdings ==
  \A r \in Requests : pc[r] \in Executing =>
    /\ held[r] # 0 /\ held[r] <= lastId
    /\ record.id = held[r] => record.fingerprint = asked[r]

\* Ids are not used again, and a stored answer is the answer to its request.
RowConsistent ==
  /\ record.id <= lastId
  /\ record.id = 0 => record = NoRecord
  /\ record.id # 0 => record.fingerprint \in Fingerprints
  /\ record.status = "succeeded" => record.response = record.fingerprint

Ownership == Aging /\ Owning /\ OneExecutor /\ Late
Answers == Snapshots /\ Holdings /\ RowConsistent /\ ReplayAnswersTheRequest

\* A request that is under way asks for something.
Asking == \A r \in Requests : pc[r] # "idle" => asked[r] \in Fingerprints

\* What is true without any bound on the age of requests, and what needs one.
AInv == TypeOK /\ Asking /\ Answers
IInv == TypeOK /\ Ownership /\ Answers

\* The empty table satisfies the invariant.
LEMMA InitIInv == Init => IInv
  <1> SUFFICES ASSUME Init PROVE IInv
    OBVIOUS
  <1> USE RecordsAssumption DEF Init, RecordsInit
  <1>1. TypeOK
    BY DEF TypeOK, RecordsTypeOK, Row, NoRecord, RecordStatus
  <1>2. Ownership
    BY DEF Ownership, Aging, Owning, OneExecutor, Late, Claiming, Executing
  <1>3. Answers
    BY DEF Answers, Snapshots, Holdings, RowConsistent, ReplayAnswersTheRequest, NoRecord,
       Reclaiming, Executing
  <1>4. QED
    BY <1>1, <1>2, <1>3 DEF IInv

LEMMA IInvGivesAInv == IInv => AInv
  BY DEF IInv, AInv, Ownership, Aging, Asking

\* The statements on the table keep the types of the row.
LEMMA NoRecordType == NoRecord \in Row
  BY RecordsAssumption DEF NoRecord, Row, RecordStatus

LEMMA CreateType ==
  ASSUME RecordsTypeOK, NEW f \in Fingerprints, NEW l \in Nat, NEW e \in Nat,
         CreateProcessing(f, l, e)
  PROVE  record' \in Row /\ lastId' \in Nat /\ UNCHANGED victim
  BY DEF RecordsTypeOK, CreateProcessing, Row, RecordStatus

LEMMA ReclaimType ==
  ASSUME RecordsTypeOK, NEW l \in Nat, NEW e \in Nat, TryReclaim(l, e)
  PROVE  record' \in Row /\ lastId' \in Nat /\ UNCHANGED victim
  BY DEF RecordsTypeOK, TryReclaim, Row, RecordStatus

LEMMA SucceededType ==
  ASSUME RecordsTypeOK, NEW i, NEW f \in Fingerprints, NEW e \in Nat, MarkSucceeded(i, f, e)
  PROVE  record' \in Row /\ lastId' \in Nat /\ UNCHANGED victim
  BY DEF RecordsTypeOK, MarkSucceeded, Row, RecordStatus

LEMMA FailedType ==
  ASSUME RecordsTypeOK, NEW i, NEW l \in Nat, NEW e \in Nat, MarkFailedRetryable(i, l, e)
  PROVE  record' \in Row /\ lastId' \in Nat /\ UNCHANGED victim
  BY DEF RecordsTypeOK, MarkFailedRetryable, Row, RecordStatus

\* A clean-up takes the row or leaves it; when nothing comes between what it finds
\* and what it deletes, it takes an expired one.
LEMMA DeletedRow ==
  ASSUME DeleteExpired
  PROVE  UNCHANGED lastId /\ (record' = NoRecord \/ record' = record)
  BY DEF DeleteExpired, DeleteAtOnce, FindExpired, DeleteFound

LEMMA DeletedAtOnce ==
  ASSUME RecordsTypeOK, DeleteIsAtomic, DeleteExpired
  PROVE  record.id # 0 /\ record.expiresAt <= clock /\ record' = NoRecord
  BY DEF DeleteExpired, DeleteAtOnce, FindExpired, DeleteFound, RecordsTypeOK

\* How a request goes on keeps the types of its own state.
RequestType ==
  /\ pc \in [Requests -> {"idle"} \cup Claiming \cup Executing]
  /\ now \in [Requests -> 0..MaxTime]
  /\ asked \in [Requests -> Fingerprints \cup {NoFingerprint}]
  /\ seen \in [Requests -> Row]
  /\ held \in [Requests -> Nat]

LEMMA GotoType ==
  ASSUME RequestType, NEW r \in Requests, NEW l \in Claiming \cup Executing, Goto(r, l)
  PROVE  RequestType'
  BY DEF RequestType, Goto

LEMMA ReturnType ==
  ASSUME RequestType, NEW r \in Requests, Return(r)
  PROVE  RequestType'
  BY NoRecordType, RecordsAssumption DEF RequestType, Return

LEMMA ClaimType ==
  ASSUME RequestType, NEW r \in Requests, NEW i \in Nat, Claim(r, i)
  PROVE  RequestType'
  BY NoRecordType DEF RequestType, Claim, Executing

LEMMA AnswerType ==
  ASSUME TypeOK, Answers, NEW r \in Requests, asked[r] \in Fingerprints,
         record.fingerprint = asked[r], Answer(r, record)
  PROVE  /\ RequestType'
         /\ replays' \subseteq [asked : Fingerprints, answer : Fingerprints]
         /\ ReplayAnswersTheRequest'
  <1>1. RequestType /\ record \in Row
    BY DEF TypeOK, RecordsTypeOK, RequestType
  <1>2. CASE /\ record.status = "succeeded"
             /\ replays' = replays \cup {[asked |-> asked[r], answer |-> record.response]}
             /\ Return(r)
    BY <1>1, <1>2, ReturnType DEF TypeOK, Answers, RowConsistent, ReplayAnswersTheRequest
  <1>3. CASE UNCHANGED replays /\ Return(r)
    BY <1>1, <1>3, ReturnType DEF TypeOK, Answers, ReplayAnswersTheRequest
  <1>4. CASE /\ seen' = [seen EXCEPT ![r] = record]
             /\ pc' = [pc EXCEPT ![r] = "reclaim_failed"]
             /\ UNCHANGED <<now, asked, held, replays>>
    BY <1>1, <1>4 DEF TypeOK, RequestType, Answers, ReplayAnswersTheRequest, Claiming
  <1>5. QED
    BY <1>2, <1>3, <1>4 DEF Answer

LEMMA DurationTypes ==
  ASSUME TypeOK, NEW r \in Requests
  PROVE  Locked(r) \in Nat /\ Expires(r) \in Nat
  BY TimingAssumption, RecordsAssumption DEF TimingAssumption, RecordsAssumption, TypeOK, Locked, Expires

\* A step of any request, a deletion or the passing of time keeps the types.
LEMMA StepTypeOK == AInv /\ [Next]_vars => TypeOK'
  <1> SUFFICES ASSUME AInv, [Next]_vars PROVE TypeOK'
    OBVIOUS
  <1> DEFINE ReplayType == replays \subseteq [asked : Fingerprints, answer : Fingerprints]
  <1>0. TypeOK /\ RecordsTypeOK /\ RequestType /\ Answers /\ ReplayType
    BY DEF AInv, TypeOK, RequestType
  <1>1. SUFFICES RecordsTypeOK' /\ RequestType' /\ ReplayType'
    BY DEF TypeOK, RequestType
  <1>2. ASSUME NEW r \in Requests, pc[r] # "idle" PROVE asked[r] \in Fingerprints
    BY <1>2 DEF AInv, Asking
  <1>3. ASSUME NEW r \in Requests, Start(r) PROVE RecordsTypeOK' /\ RequestType' /\ ReplayType'
    BY <1>0, <1>3 DEF Start, RecordsTypeOK, RequestType, tableVars, Claiming
  <1>4. ASSUME NEW r \in Requests, Continue(r) PROVE RecordsTypeOK' /\ RequestType' /\ ReplayType'
    <2>1. CASE Create(r)
      BY <1>0, <1>2, <2>1, DurationTypes, CreateType, ClaimType, GotoType
         DEF Create, RecordsTypeOK, tableVars, Claiming
    <2>2. CASE ReadExisting(r)
      <3>1. RecordsTypeOK'
        BY <1>0, <2>2 DEF ReadExisting, RecordsTypeOK, tableVars
      <3>2. CASE Return(r) /\ UNCHANGED replays
        BY <1>0, <3>1, <3>2, ReturnType
      <3>3. CASE /\ seen' = [seen EXCEPT ![r] = record]
                 /\ pc' = [pc EXCEPT ![r] = "reclaim_expired"]
                 /\ UNCHANGED <<now, asked, held, replays>>
        BY <1>0, <3>1, <3>3 DEF RequestType, RecordsTypeOK, Claiming
      <3>4. CASE record.fingerprint = asked[r] /\ Answer(r, record)
        <4>1. asked[r] \in Fingerprints
          BY <1>2, <2>2 DEF ReadExisting
        <4>2. QED
          BY <1>0, <3>1, <3>4, <4>1, AnswerType
      <3>5. QED
        BY <2>2, <3>2, <3>3, <3>4 DEF ReadExisting
    <2>3. CASE ReclaimExpired(r)
      <3>1. seen[r].id \in Nat
        BY <1>0 DEF RequestType, Row
      <3>2. QED
        BY <1>0, <2>3, <3>1, DurationTypes, ReclaimType, ClaimType, GotoType
           DEF ReclaimExpired, RecordsTypeOK, tableVars, Claiming
    <2>4. CASE Reread(r)
      <3>1. RecordsTypeOK'
        BY <1>0, <2>4 DEF Reread, RecordsTypeOK, tableVars
      <3>2. CASE Return(r) /\ UNCHANGED replays
        BY <1>0, <3>1, <3>2, ReturnType
      <3>3. CASE record.fingerprint = asked[r] /\ Answer(r, record)
        <4>1. asked[r] \in Fingerprints
          BY <1>2, <2>4 DEF Reread
        <4>2. QED
          BY <1>0, <3>1, <3>3, <4>1, AnswerType
      <3>4. QED
        BY <2>4, <3>2, <3>3 DEF Reread
    <2>5. CASE ReclaimFailed(r)
      <3>1. seen[r].id \in Nat
        BY <1>0 DEF RequestType, Row
      <3>2. QED
        BY <1>0, <2>5, <3>1, DurationTypes, ReclaimType, ClaimType, ReturnType
           DEF ReclaimFailed, RecordsTypeOK, tableVars
    <2>6. CASE ExecuteCallback(r)
      BY <1>0, <2>6, GotoType DEF ExecuteCallback, RecordsTypeOK, tableVars, Executing
    <2>7. CASE FinishSucceeded(r)
      BY <1>0, <1>2, <2>7, DurationTypes, SucceededType, ReturnType DEF FinishSucceeded, RecordsTypeOK
    <2>8. CASE FinishFailed(r)
      <3>1. clock + Backoff \in Nat
        BY <1>0, TimingAssumption, RecordsAssumption DEF TimingAssumption, RecordsAssumption, RecordsTypeOK
      <3>2. QED
        BY <1>0, <2>8, <3>1, DurationTypes, FailedType, ReturnType DEF FinishFailed, RecordsTypeOK
    <2>9. QED
      BY <1>4, <2>1, <2>2, <2>3, <2>4, <2>5, <2>6, <2>7, <2>8 DEF Continue
  <1>5. ASSUME NEW r \in Requests, Abandon(r) PROVE RecordsTypeOK' /\ RequestType' /\ ReplayType'
    BY <1>0, <1>5, ReturnType DEF Abandon, StoreFails, RecordsTypeOK, tableVars
  <1>6. CASE CleanUp
    <2>1. RequestType' /\ ReplayType'
      BY <1>0, <1>6 DEF CleanUp, RequestType, requestVars
    <2>2. RecordsTypeOK'
      BY <1>0, <1>6, NoRecordType DEF CleanUp, DeleteExpired, DeleteAtOnce, FindExpired, DeleteFound,
                                      RecordsTypeOK, Row
    <2>3. QED
      BY <2>1, <2>2
  <1>7. CASE Tick
    BY <1>0, <1>7, RecordsAssumption DEF Tick, RecordsAssumption, RecordsTypeOK, RequestType, requestVars, tableVars
  <1>8. CASE UNCHANGED vars
    BY <1>0, <1>8 DEF vars, tableVars, requestVars, RecordsTypeOK, RequestType
  <1>9. QED
    BY <1>3, <1>4, <1>5, <1>6, <1>7, <1>8 DEF Next

-----------------------------------------------------------------------------
\* A claim happens only when nobody executes; it is the one step of a request
\* that makes it execute.
ClaimIsExclusive(r) == \A s \in Requests : pc[s] \notin Executing

LEMMA CreateIsExclusive ==
  ASSUME IInv, NEW r \in Requests, record.id = 0
  PROVE  ClaimIsExclusive(r)
  BY DEF IInv, Ownership, Owning, ClaimIsExclusive

LEMMA ExpiredIsExclusive ==
  ASSUME IInv, NEW r \in Requests, pc[r] = "reclaim_expired",
         Reclaimable(seen[r].id, seen[r].status, now[r])
  PROVE  ClaimIsExclusive(r)
  <1> SUFFICES ASSUME NEW s \in Requests, pc[s] \in Executing PROVE FALSE
    BY DEF ClaimIsExclusive
  <1>1. record.lockedUntil = Locked(s) /\ now[r] < Locked(s)
    BY DEF IInv, Ownership, Owning, Late
  <1>2. record.lockedUntil <= now[r]
    BY DEF Reclaimable
  <1>3. now[r] \in Nat /\ Locked(s) \in Nat
    BY DurationTypes, RecordsAssumption DEF IInv, TypeOK, RecordsAssumption
  <1>4. QED
    BY <1>1, <1>2, <1>3

LEMMA FailedIsExclusive ==
  ASSUME IInv, NEW r \in Requests, Reclaimable(seen[r].id, "failed_retryable", now[r])
  PROVE  ClaimIsExclusive(r)
  BY DEF IInv, Ownership, Owning, ClaimIsExclusive, Reclaimable

\* A claim made when nobody executes establishes the ownership of the claimer.
LEMMA ClaimKeepsOwnership ==
  ASSUME Timely, IInv, NEW r \in Requests, pc[r] \in Claiming, ClaimIsExclusive(r),
         NEW i \in Nat, Claim(r, i), UNCHANGED clock,
         i # 0, record'.id = i, record'.status = "processing", record'.fingerprint = asked[r],
         record'.lockedUntil = Locked(r), record'.expiresAt = Expires(r)
  PROVE  Ownership'
  <1> USE TimingAssumption, RecordsAssumption DEF TimingAssumption, RecordsAssumption
  <1>1. /\ now \in [Requests -> Nat] /\ clock \in Nat
        /\ pc \in [Requests -> {"idle"} \cup Claiming \cup Executing]
        /\ held \in [Requests -> Nat]
    BY DEF IInv, TypeOK, RecordsTypeOK
  <1>2. \A s \in Requests : pc'[s] \in Executing => s = r
    BY <1>1 DEF Claim, ClaimIsExclusive
  <1>3. now[r] <= clock /\ clock <= now[r] + MaxClaim /\ asked[r] \in Fingerprints
    BY DEF IInv, Ownership, Aging, Claiming
  <1>4. Aging'
    BY <1>1, <1>3 DEF IInv, Ownership, Aging, Claim, Claiming
  <1>5. Owning'
    <2>1. held'[r] = i /\ UNCHANGED <<now, asked>>
      BY <1>1 DEF Claim
    <2>2. clock < now[r] + TTL
      BY <1>1, <1>3 DEF Timely
    <2>3. QED
      BY <1>2, <2>1, <2>2 DEF Owning, Locked, Expires
  <1>6. OneExecutor'
    BY <1>2 DEF OneExecutor
  <1>7. Late'
    <2> SUFFICES ASSUME NEW s \in Requests, pc'[s] = "reclaim_expired" PROVE now'[s] < Locked(r)'
      BY <1>2 DEF Late
    <2>1. pc[s] # "idle" /\ UNCHANGED now
      BY <1>1 DEF Claim
    <2>2. now[s] <= clock
      BY <2>1 DEF IInv, Ownership, Aging
    <2>3. QED
      BY <1>1, <1>3, <2>1, <2>2 DEF Timely, Locked
  <1>8. QED
    BY <1>4, <1>5, <1>6, <1>7 DEF Ownership

\* A request that ends owns nothing; the others are not disturbed as long as the
\* row of an executing one stays.
LEMMA ReturnKeepsOwnership ==
  ASSUME IInv, NEW r \in Requests, Return(r), UNCHANGED clock,
         UNCHANGED record \/ pc[r] \in Executing
  PROVE  Ownership'
  <1>1. /\ pc \in [Requests -> {"idle"} \cup Claiming \cup Executing]
        /\ now \in [Requests -> 0..MaxTime]
        /\ asked \in [Requests -> Fingerprints \cup {NoFingerprint}]
        /\ held \in [Requests -> Nat]
    BY DEF IInv, TypeOK
  <1>2. pc'[r] = "idle" /\ \A s \in Requests \ {r} :
          pc'[s] = pc[s] /\ now'[s] = now[s] /\ asked'[s] = asked[s] /\ held'[s] = held[s]
    BY <1>1 DEF Return
  <1>3. Aging'
    BY <1>2 DEF IInv, Ownership, Aging, Claiming
  <1>4. Owning'
    <2> SUFFICES ASSUME NEW s \in Requests, pc'[s] \in Executing PROVE s # r /\ UNCHANGED record
      BY <1>2 DEF IInv, Ownership, Owning, Locked, Expires, Executing
    <2>1. QED
      BY <1>2 DEF IInv, Ownership, OneExecutor, Executing
  <1>5. OneExecutor' /\ Late'
    BY <1>2 DEF IInv, Ownership, OneExecutor, Late, Locked, Executing
  <1>6. QED
    BY <1>3, <1>4, <1>5 DEF Ownership

\* A request that goes on to a label of the same phase, without a claim.
LEMMA GoingOnKeepsOwnership ==
  ASSUME IInv, NEW r \in Requests, NEW l, pc' = [pc EXCEPT ![r] = l],
         UNCHANGED <<clock, record, now, asked, held>>,
         \/ pc[r] \in Claiming /\ l \in Claiming \ {"reclaim_expired"}
         \/ pc[r] \in Claiming /\ l = "reclaim_expired" /\ record.expiresAt <= now[r]
         \/ pc[r] \in Executing /\ l \in Executing
  PROVE  Ownership'
  <1>1. /\ pc \in [Requests -> {"idle"} \cup Claiming \cup Executing]
        /\ now \in [Requests -> 0..MaxTime] /\ clock \in 0..MaxTime
    BY DEF IInv, TypeOK, RecordsTypeOK
  <1>2. pc'[r] = l /\ \A s \in Requests \ {r} : pc'[s] = pc[s]
    BY <1>1
  <1>3. \A s \in Requests : pc'[s] \in Executing <=> pc[s] \in Executing
    BY <1>2 DEF Claiming, Executing
  <1>4. Aging'
    BY <1>2 DEF IInv, Ownership, Aging, Claiming, Executing
  <1>5. Owning'
    BY <1>3 DEF IInv, Ownership, Owning, Locked, Expires
  <1>6. OneExecutor'
    BY <1>3 DEF IInv, Ownership, OneExecutor
  <1>7. Late'
    <2> SUFFICES ASSUME NEW s \in Requests, pc[s] \in Executing,
                        l = "reclaim_expired", record.expiresAt <= now[r]
                 PROVE  FALSE
      BY <1>2, <1>3 DEF IInv, Ownership, Late, Locked, Claiming, Executing
    <2>1. record.expiresAt = Expires(s) /\ clock < Expires(s) /\ now[r] <= clock
      BY DEF IInv, Ownership, Owning, Aging, Claiming, Executing
    <2>2. Expires(s) \in Nat /\ now[r] \in Nat /\ clock \in Nat
      BY <1>1, DurationTypes, RecordsAssumption DEF IInv, RecordsAssumption
    <2>3. QED
      BY <2>1, <2>2
  <1>8. QED
    BY <1>4, <1>5, <1>6, <1>7 DEF Ownership

LEMMA AnswerKeepsOwnership ==
  ASSUME IInv, NEW r \in Requests, pc[r] \in Claiming, Answer(r, record),
         UNCHANGED <<clock, tableVars>>
  PROVE  Ownership'
  <1>1. CASE Return(r)
    BY <1>1, ReturnKeepsOwnership DEF tableVars
  <1>2. CASE /\ pc' = [pc EXCEPT ![r] = "reclaim_failed"]
             /\ UNCHANGED <<now, asked, held, replays>>
    BY <1>2, GoingOnKeepsOwnership DEF tableVars, Claiming
  <1>3. QED
    BY <1>1, <1>2 DEF Answer

LEMMA ReclaimKeepsOwnership ==
  ASSUME Timely, IInv, NEW r \in Requests, pc[r] \in Reclaiming, ClaimIsExclusive(r),
         record.id = seen[r].id, TryReclaim(Locked(r), Expires(r)), Claim(r, seen[r].id),
         UNCHANGED clock
  PROVE  Ownership'
  <1>1. record \in Row /\ seen[r] \in Row /\ pc[r] \in Claiming
    BY DEF IInv, TypeOK, RecordsTypeOK, Claiming, Reclaiming
  <1>2. seen[r].id \in Nat /\ seen[r].id # 0 /\ record.fingerprint = asked[r]
    BY <1>1 DEF IInv, Answers, Snapshots, Row
  <1>3. /\ record'.id = record.id /\ record'.fingerprint = record.fingerprint
        /\ record'.status = "processing"
        /\ record'.lockedUntil = Locked(r) /\ record'.expiresAt = Expires(r)
    BY <1>1 DEF TryReclaim, Row
  <1>4. QED
    BY <1>1, <1>2, <1>3, ClaimKeepsOwnership

\* Every step keeps the ownership part of the invariant.
LEMMA StepOwnership == Timely /\ IInv /\ [Next]_vars => Ownership'
  <1> SUFFICES ASSUME Timely, IInv, [Next]_vars PROVE Ownership'
    OBVIOUS
  <1> USE RecordsAssumption, TimingAssumption DEF RecordsAssumption, TimingAssumption
  <1>0. /\ pc \in [Requests -> {"idle"} \cup Claiming \cup Executing]
        /\ now \in [Requests -> 0..MaxTime] /\ clock \in 0..MaxTime
        /\ asked \in [Requests -> Fingerprints \cup {NoFingerprint}]
        /\ record \in Row /\ lastId \in Nat
    BY DEF IInv, TypeOK, RecordsTypeOK
  <1>1. ASSUME NEW r \in Requests, Start(r) PROVE Ownership'
    <2>1. /\ \A s \in Requests \ {r} : pc'[s] = pc[s] /\ now'[s] = now[s] /\ asked'[s] = asked[s]
          /\ pc'[r] = "create" /\ now'[r] = clock /\ asked'[r] \in Fingerprints
          /\ UNCHANGED <<clock, record, held>>
      BY <1>0, <1>1 DEF Start, tableVars
    <2>2. Aging'
      BY <1>0, <2>1 DEF IInv, Ownership, Aging, Claiming
    <2>3. Owning' /\ OneExecutor' /\ Late'
      BY <2>1 DEF IInv, Ownership, Owning, OneExecutor, Late, Locked, Expires, Executing
    <2>4. QED
      BY <2>2, <2>3 DEF Ownership
  <1>2. ASSUME NEW r \in Requests, Continue(r) PROVE Ownership'
    <2>1. CASE Create(r)
      <3>1. CASE CreateProcessing(asked[r], Locked(r), Expires(r)) /\ Claim(r, lastId')
        <4>1. /\ lastId' \in Nat /\ lastId' # 0 /\ record'.id = lastId'
              /\ record'.status = "processing" /\ record'.fingerprint = asked[r]
              /\ record'.lockedUntil = Locked(r) /\ record'.expiresAt = Expires(r)
          BY <1>0, <3>1 DEF CreateProcessing
        <4>2. ClaimIsExclusive(r)
          BY <3>1, CreateIsExclusive DEF CreateProcessing
        <4>3. QED
          BY <2>1, <3>1, <4>1, <4>2, ClaimKeepsOwnership DEF Create, Claiming
      <3>2. CASE Goto(r, "read") /\ UNCHANGED tableVars
        BY <2>1, <3>2, GoingOnKeepsOwnership DEF Create, Goto, tableVars, Claiming
      <3>3. QED
        BY <2>1, <3>1, <3>2 DEF Create
    <2>2. CASE ReadExisting(r)
      <3>1. CASE Return(r)
        BY <2>2, <3>1, ReturnKeepsOwnership DEF ReadExisting, tableVars
      <3>2. CASE /\ record.expiresAt <= now[r]
                 /\ pc' = [pc EXCEPT ![r] = "reclaim_expired"]
                 /\ UNCHANGED <<now, asked, held, replays>>
        BY <2>2, <3>2, GoingOnKeepsOwnership DEF ReadExisting, tableVars, Claiming
      <3>3. CASE Answer(r, record)
        BY <2>2, <3>3, AnswerKeepsOwnership DEF ReadExisting, Claiming
      <3>4. QED
        BY <2>2, <3>1, <3>2, <3>3 DEF ReadExisting
    <2>3. CASE ReclaimExpired(r)
      <3>1. CASE Reclaimable(seen[r].id, seen[r].status, now[r])
        <4>1. ClaimIsExclusive(r) /\ record.id = seen[r].id
          BY <2>3, <3>1, ExpiredIsExclusive DEF ReclaimExpired, Reclaimable
        <4>2. QED
          BY <2>3, <3>1, <4>1, ReclaimKeepsOwnership DEF ReclaimExpired, Reclaiming
      <3>2. CASE Goto(r, "reread") /\ UNCHANGED tableVars
        BY <2>3, <3>2, GoingOnKeepsOwnership DEF ReclaimExpired, Goto, tableVars, Claiming
      <3>3. QED
        BY <2>3, <3>1, <3>2 DEF ReclaimExpired
    <2>4. CASE Reread(r)
      <3>1. CASE Return(r)
        BY <2>4, <3>1, ReturnKeepsOwnership DEF Reread, tableVars
      <3>2. CASE Answer(r, record)
        BY <2>4, <3>2, AnswerKeepsOwnership DEF Reread, Claiming
      <3>3. QED
        BY <2>4, <3>1, <3>2 DEF Reread
    <2>5. CASE ReclaimFailed(r)
      <3>1. CASE Reclaimable(seen[r].id, "failed_retryable", now[r])
        <4>1. ClaimIsExclusive(r) /\ record.id = seen[r].id
          BY <3>1, FailedIsExclusive DEF Reclaimable
        <4>2. QED
          BY <2>5, <3>1, <4>1, ReclaimKeepsOwnership DEF ReclaimFailed, Reclaiming
      <3>2. CASE Return(r) /\ UNCHANGED tableVars
        BY <2>5, <3>2, ReturnKeepsOwnership DEF ReclaimFailed, tableVars
      <3>3. QED
        BY <2>5, <3>1, <3>2 DEF ReclaimFailed
    <2>6. CASE ExecuteCallback(r)
      BY <2>6, GoingOnKeepsOwnership DEF ExecuteCallback, Goto, tableVars, Executing
    <2>7. CASE FinishSucceeded(r)
      BY <2>7, ReturnKeepsOwnership DEF FinishSucceeded, Executing
    <2>8. CASE FinishFailed(r)
      BY <2>8, ReturnKeepsOwnership DEF FinishFailed, Executing
    <2>9. QED
      BY <1>2, <2>1, <2>2, <2>3, <2>4, <2>5, <2>6, <2>7, <2>8 DEF Continue
  <1>3. ASSUME NEW r \in Requests, Abandon(r) PROVE Ownership'
    BY <1>3, ReturnKeepsOwnership DEF Abandon, StoreFails, tableVars
  <1>4. CASE CleanUp
    <2>1. ASSUME NEW r \in Requests PROVE pc[r] \notin Executing
      <3> SUFFICES ASSUME pc[r] \in Executing PROVE FALSE
        OBVIOUS
      <3>1. record.expiresAt = Expires(r) /\ clock < Expires(r) /\ record.expiresAt <= clock
        BY <1>4, DeletedAtOnce DEF IInv, Ownership, Owning, CleanUp, Timely, TypeOK
      <3>2. Expires(r) \in Nat
        BY DurationTypes DEF IInv
      <3>3. QED
        BY <1>0, <3>1, <3>2
    <2>2. QED
      BY <1>4, <2>1 DEF CleanUp, requestVars, IInv, Ownership, Aging, Owning, OneExecutor, Late
  <1>5. CASE Tick
    <2>1. UNCHANGED <<record, pc, now, asked, held>> /\ clock' = clock + 1
      BY <1>5 DEF Tick, requestVars, tableVars
    <2>2. \A r \in Requests : /\ pc[r] \in Claiming => clock - now[r] < MaxClaim
                              /\ pc[r] \in Executing => clock - now[r] < MaxRequest
      BY <1>5 DEF Tick
    <2>3. Aging'
      BY <1>0, <2>1, <2>2 DEF IInv, Ownership, Aging
    <2>4. Owning'
      BY <1>0, <2>1, <2>2 DEF IInv, Ownership, Owning, Locked, Expires, Timely
    <2>5. OneExecutor' /\ Late'
      BY <2>1 DEF IInv, Ownership, OneExecutor, Late, Locked
    <2>6. QED
      BY <2>3, <2>4, <2>5 DEF Ownership
  <1>6. CASE UNCHANGED vars
    BY <1>6 DEF vars, tableVars, requestVars, IInv, Ownership, Aging, Owning, OneExecutor, Late, Locked, Expires
  <1>7. QED
    BY <1>1, <1>2, <1>3, <1>4, <1>5, <1>6 DEF Next

-----------------------------------------------------------------------------
\* A request reads only a row that is there.
LEMMA ReadsARow ==
  ASSUME AInv, NEW r \in Requests, pc[r] # "idle", record.fingerprint = asked[r]
  PROVE  record.id # 0
  BY RecordsAssumption DEF RecordsAssumption, AInv, Asking, Answers, RowConsistent, NoRecord

\* Snapshots are not disturbed by a statement that keeps the row's fingerprint,
\* replaces it by a newer row, or deletes it.
LEMMA KeepsSnapshots ==
  ASSUME AInv, NEW r \in Requests, lastId' \in Nat, lastId <= lastId',
         \/ record'.id = record.id /\ record'.fingerprint = record.fingerprint
         \/ record'.id = 0
         \/ record'.id > lastId,
         \A s \in Requests \ {r} : /\ pc'[s] = pc[s] /\ seen'[s] = seen[s]
                                   /\ now'[s] = now[s] /\ asked'[s] = asked[s],
         \/ pc'[r] \notin Reclaiming
         \/ /\ pc'[r] \in Reclaiming /\ seen'[r] = record /\ UNCHANGED <<record, lastId>>
            /\ record.fingerprint = asked[r] /\ now'[r] = now[r] /\ asked'[r] = asked[r]
            /\ record.id # 0
            /\ pc'[r] = "reclaim_expired" => record.expiresAt <= now[r]
  PROVE  Snapshots'
  <1>1. lastId \in Nat /\ record.id \in Nat /\ \A s \in Requests : seen[s].id \in Nat
    BY DEF AInv, TypeOK, RecordsTypeOK, Row
  <1> SUFFICES ASSUME NEW s \in Requests
               PROVE  /\ pc'[s] \in Reclaiming =>
                           /\ seen'[s].id # 0 /\ seen'[s].id <= lastId'
                           /\ record'.id = seen'[s].id => record'.fingerprint = asked'[s]
                      /\ pc'[s] = "reclaim_expired" => seen'[s].expiresAt <= now'[s]
    BY DEF Snapshots
  <1>2. CASE s = r
    BY <1>1, <1>2 DEF AInv, Answers, RowConsistent, Reclaiming
  <1>3. CASE s # r
    BY <1>1, <1>3 DEF AInv, Answers, Snapshots
  <1>4. QED
    BY <1>2, <1>3

LEMMA ReturnKeepsSnapshots ==
  ASSUME AInv, NEW r \in Requests, Return(r), UNCHANGED lastId,
         record'.id = record.id /\ record'.fingerprint = record.fingerprint
  PROVE  Snapshots'
  <1>1. /\ pc'[r] \notin Reclaiming
        /\ \A s \in Requests \ {r} : /\ pc'[s] = pc[s] /\ seen'[s] = seen[s]
                                     /\ now'[s] = now[s] /\ asked'[s] = asked[s]
    BY DEF AInv, TypeOK, Return, Reclaiming
  <1>2. lastId \in Nat
    BY DEF AInv, TypeOK, RecordsTypeOK
  <1>3. QED
    BY <1>1, <1>2, KeepsSnapshots

\* The same for claims.
LEMMA KeepsHoldings ==
  ASSUME AInv, NEW r \in Requests, lastId' \in Nat, lastId <= lastId',
         \/ record'.id = record.id /\ record'.fingerprint = record.fingerprint
         \/ record'.id = 0
         \/ record'.id > lastId,
         \A s \in Requests \ {r} : pc'[s] = pc[s] /\ held'[s] = held[s] /\ asked'[s] = asked[s],
         \/ pc'[r] \notin Executing
         \/ pc[r] \in Executing /\ held'[r] = held[r] /\ asked'[r] = asked[r]
         \/ /\ held'[r] \in Nat \ {0} /\ held'[r] <= lastId'
            /\ record'.id = held'[r] => record'.fingerprint = asked'[r]
  PROVE  Holdings'
  <1>1. lastId \in Nat /\ record.id \in Nat /\ \A s \in Requests : held[s] \in Nat
    BY DEF AInv, TypeOK, RecordsTypeOK, Row
  <1>2. \A s \in Requests : pc[s] \in Executing =>
          /\ held[s] # 0 /\ held[s] <= lastId
          /\ record.id = held[s] => record.fingerprint = asked[s]
    BY DEF AInv, Answers, Holdings
  <1>3. QED
    BY <1>1, <1>2 DEF Holdings

LEMMA ReturnKeepsHoldings ==
  ASSUME AInv, NEW r \in Requests, Return(r), UNCHANGED lastId,
         record'.id = record.id /\ record'.fingerprint = record.fingerprint
  PROVE  Holdings'
  <1>1. /\ pc'[r] \notin Executing
        /\ \A s \in Requests \ {r} : pc'[s] = pc[s] /\ held'[s] = held[s] /\ asked'[s] = asked[s]
    BY DEF AInv, TypeOK, Return, Executing
  <1>2. lastId \in Nat
    BY DEF AInv, TypeOK, RecordsTypeOK
  <1>3. QED
    BY <1>1, <1>2, KeepsHoldings

LEMMA AnswerKeepsAnswers ==
  ASSUME AInv, NEW r \in Requests, pc[r] # "idle", record.fingerprint = asked[r],
         Answer(r, record), UNCHANGED <<clock, tableVars>>
  PROVE  Answers'
  <1>1. ReplayAnswersTheRequest'
    BY AnswerType DEF AInv, Asking
  <1>2. RowConsistent'
    BY DEF AInv, Answers, RowConsistent, tableVars
  <1>3. Snapshots'
    <2>1. CASE Return(r)
      BY <2>1, ReturnKeepsSnapshots DEF tableVars
    <2>2. CASE /\ seen' = [seen EXCEPT ![r] = record]
               /\ pc' = [pc EXCEPT ![r] = "reclaim_failed"]
               /\ UNCHANGED <<now, asked, held, replays>>
      <3>1. /\ pc'[r] = "reclaim_failed" /\ seen'[r] = record
            /\ \A s \in Requests \ {r} : /\ pc'[s] = pc[s] /\ seen'[s] = seen[s]
        BY <2>2 DEF AInv, TypeOK
      <3>2. lastId \in Nat /\ record.id # 0
        BY ReadsARow DEF AInv, TypeOK, RecordsTypeOK
      <3>3. QED
        BY <2>2, <3>1, <3>2, KeepsSnapshots DEF tableVars, Reclaiming
    <2>3. QED
      BY <2>1, <2>2 DEF Answer
  <1>4. Holdings'
    <2>1. CASE Return(r)
      BY <2>1, ReturnKeepsHoldings DEF tableVars
    <2>2. CASE pc' = [pc EXCEPT ![r] = "reclaim_failed"] /\ UNCHANGED <<asked, held>>
      <3>1. /\ pc'[r] \notin Executing /\ lastId \in Nat
            /\ \A s \in Requests \ {r} : pc'[s] = pc[s]
        BY <2>2 DEF AInv, TypeOK, RecordsTypeOK, Executing
      <3>2. QED
        BY <2>2, <3>1, KeepsHoldings DEF tableVars
    <2>3. QED
      BY <2>1, <2>2 DEF Answer
  <1>5. QED
    BY <1>1, <1>2, <1>3, <1>4 DEF Answers

LEMMA ReclaimKeepsAnswers ==
  ASSUME AInv, NEW r \in Requests, record.id = seen[r].id, pc[r] \in Reclaiming,
         TryReclaim(Locked(r), Expires(r)), Claim(r, seen[r].id), UNCHANGED replays
  PROVE  Answers'
  <1>1. /\ record'.id = record.id /\ record'.fingerprint = record.fingerprint
        /\ record'.status = "processing" /\ UNCHANGED lastId
    BY DEF AInv, TypeOK, RecordsTypeOK, TryReclaim, Row
  <1>2. /\ pc'[r] \notin Reclaiming
        /\ \A s \in Requests \ {r} : /\ pc'[s] = pc[s] /\ seen'[s] = seen[s]
                                     /\ now'[s] = now[s] /\ asked'[s] = asked[s]
    BY DEF AInv, TypeOK, Claim, Reclaiming
  <1>3. lastId \in Nat /\ record.id # 0
    BY DEF AInv, TypeOK, RecordsTypeOK, Answers, Snapshots
  <1>4. Snapshots'
    BY <1>1, <1>2, <1>3, KeepsSnapshots
  <1>5. RowConsistent' /\ ReplayAnswersTheRequest'
    BY <1>1, <1>3 DEF AInv, Answers, RowConsistent, ReplayAnswersTheRequest
  <1>6. Holdings'
    <2>1. /\ held'[r] = record.id /\ record.fingerprint = asked[r] /\ asked'[r] = asked[r]
          /\ record.id \in Nat /\ record.id <= lastId
          /\ \A s \in Requests \ {r} : held'[s] = held[s]
      BY DEF AInv, TypeOK, RecordsTypeOK, Row, Claim, Answers, Snapshots
    <2>2. QED
      BY <1>1, <1>2, <1>3, <2>1, KeepsHoldings
  <1>7. QED
    BY <1>4, <1>5, <1>6 DEF Answers

\* Every step keeps what is known about stored and replayed answers.
LEMMA StepAnswers == AInv /\ [Next]_vars => Answers'
  <1> SUFFICES ASSUME AInv, [Next]_vars PROVE Answers'
    OBVIOUS
  <1>0. /\ pc \in [Requests -> {"idle"} \cup Claiming \cup Executing]
        /\ now \in [Requests -> 0..MaxTime]
        /\ asked \in [Requests -> Fingerprints \cup {NoFingerprint}]
        /\ seen \in [Requests -> Row] /\ held \in [Requests -> Nat]
        /\ record \in Row /\ lastId \in Nat
    BY DEF AInv, TypeOK, RecordsTypeOK
  <1>a. Snapshots /\ Holdings /\ RowConsistent /\ ReplayAnswersTheRequest
    BY DEF AInv, Answers
  \* A request that goes on, without the row or the history.
  <1>b. ASSUME NEW r \in Requests, NEW l, l \notin Reclaiming, Goto(r, l),
               l \in Executing => pc[r] \in Executing, UNCHANGED <<tableVars, replays>>
        PROVE  Answers'
    <2>1. pc'[r] = l /\ \A s \in Requests \ {r} : pc'[s] = pc[s]
      BY <1>0, <1>b DEF Goto
    <2>2. Snapshots'
      BY <1>0, <1>b, <2>1, KeepsSnapshots DEF Goto, tableVars
    <2>3. Holdings'
      BY <1>0, <1>b, <2>1, KeepsHoldings DEF Goto, tableVars
    <2>4. QED
      BY <1>a, <1>b, <2>2, <2>3 DEF Answers, RowConsistent, ReplayAnswersTheRequest, tableVars
  \* A request that returns and leaves the row and the history alone.
  <1>c. ASSUME NEW r \in Requests, Return(r), UNCHANGED <<tableVars, replays>>
        PROVE  Answers'
    <2>1. Snapshots' /\ Holdings'
      BY <1>c, ReturnKeepsSnapshots, ReturnKeepsHoldings DEF tableVars
    <2>2. QED
      BY <1>a, <1>c, <2>1 DEF Answers, RowConsistent, ReplayAnswersTheRequest, tableVars
  <1>1. ASSUME NEW r \in Requests, Start(r) PROVE Answers'
    <2>1. /\ pc'[r] \notin Reclaiming \cup Executing
          /\ UNCHANGED <<seen, held, record, lastId, replays>>
          /\ \A s \in Requests \ {r} : pc'[s] = pc[s] /\ now'[s] = now[s] /\ asked'[s] = asked[s]
      BY <1>0, <1>1 DEF Start, tableVars, Reclaiming, Executing
    <2>2. Snapshots' /\ Holdings'
      BY <1>0, <2>1, KeepsSnapshots, KeepsHoldings
    <2>3. QED
      BY <1>a, <2>1, <2>2 DEF Answers, RowConsistent, ReplayAnswersTheRequest
  <1>2. ASSUME NEW r \in Requests, Continue(r) PROVE Answers'
    <2>1. CASE Create(r)
      <3>1. CASE CreateProcessing(asked[r], Locked(r), Expires(r)) /\ Claim(r, lastId') /\ UNCHANGED replays
        <4>1. /\ lastId' = lastId + 1 /\ record'.id = lastId + 1
              /\ record'.status = "processing" /\ record'.fingerprint = asked[r]
          BY <3>1 DEF CreateProcessing
        <4>2. /\ pc'[r] \notin Reclaiming
              /\ held'[r] = lastId' /\ asked'[r] = asked[r]
              /\ \A s \in Requests \ {r} : /\ pc'[s] = pc[s] /\ seen'[s] = seen[s]
                                           /\ now'[s] = now[s] /\ asked'[s] = asked[s]
                                           /\ held'[s] = held[s]
          BY <1>0, <3>1 DEF Claim, Reclaiming
        <4>3. Snapshots' /\ Holdings'
          BY <1>0, <4>1, <4>2, KeepsSnapshots, KeepsHoldings
        <4>4. asked[r] \in Fingerprints
          BY <2>1 DEF Create, AInv, Asking
        <4>5. RowConsistent' /\ ReplayAnswersTheRequest'
          BY <1>0, <1>a, <3>1, <4>1, <4>4 DEF RowConsistent, ReplayAnswersTheRequest
        <4>6. QED
          BY <4>3, <4>5 DEF Answers
      <3>2. CASE Goto(r, "read") /\ UNCHANGED <<tableVars, replays>>
        BY <1>b, <3>2 DEF Reclaiming, Executing
      <3>3. QED
        BY <2>1, <3>1, <3>2 DEF Create
    <2>2. CASE ReadExisting(r)
      <3>1. CASE Return(r) /\ UNCHANGED replays
        BY <1>c, <2>2, <3>1 DEF ReadExisting
      <3>2. CASE /\ record.fingerprint = asked[r] /\ record.expiresAt <= now[r]
                 /\ seen' = [seen EXCEPT ![r] = record]
                 /\ pc' = [pc EXCEPT ![r] = "reclaim_expired"]
                 /\ UNCHANGED <<now, asked, held, replays>>
        <4>1. /\ pc'[r] = "reclaim_expired" /\ seen'[r] = record
              /\ \A s \in Requests \ {r} : pc'[s] = pc[s] /\ seen'[s] = seen[s]
          BY <1>0, <3>2
        <4>2. record.id # 0
          BY <2>2, <3>2, ReadsARow DEF ReadExisting
        <4>3. Snapshots'
          BY <1>0, <2>2, <3>2, <4>1, <4>2, KeepsSnapshots DEF ReadExisting, tableVars, Reclaiming
        <4>4. Holdings'
          BY <1>0, <2>2, <3>2, <4>1, KeepsHoldings DEF ReadExisting, tableVars, Executing
        <4>5. QED
          BY <1>a, <2>2, <3>2, <4>3, <4>4 DEF ReadExisting, Answers, RowConsistent, ReplayAnswersTheRequest, tableVars
      <3>3. CASE record.fingerprint = asked[r] /\ Answer(r, record)
        BY <2>2, <3>3, AnswerKeepsAnswers DEF ReadExisting
      <3>4. QED
        BY <2>2, <3>1, <3>2, <3>3 DEF ReadExisting
    <2>3. CASE ReclaimExpired(r)
      <3>1. CASE Reclaimable(seen[r].id, seen[r].status, now[r])
        BY <2>3, <3>1, ReclaimKeepsAnswers DEF ReclaimExpired, Reclaimable, Reclaiming
      <3>2. CASE Goto(r, "reread") /\ UNCHANGED tableVars
        BY <1>b, <2>3, <3>2 DEF ReclaimExpired, Reclaiming, Executing
      <3>3. QED
        BY <2>3, <3>1, <3>2 DEF ReclaimExpired
    <2>4. CASE Reread(r)
      <3>1. CASE Return(r) /\ UNCHANGED replays
        BY <1>c, <2>4, <3>1 DEF Reread
      <3>2. CASE record.fingerprint = asked[r] /\ Answer(r, record)
        BY <2>4, <3>2, AnswerKeepsAnswers DEF Reread
      <3>3. QED
        BY <2>4, <3>1, <3>2 DEF Reread
    <2>5. CASE ReclaimFailed(r)
      <3>1. CASE Reclaimable(seen[r].id, "failed_retryable", now[r])
        BY <2>5, <3>1, ReclaimKeepsAnswers DEF ReclaimFailed, Reclaimable, Reclaiming
      <3>2. CASE Return(r) /\ UNCHANGED tableVars
        BY <1>c, <2>5, <3>2 DEF ReclaimFailed
      <3>3. QED
        BY <2>5, <3>1, <3>2 DEF ReclaimFailed
    <2>6. CASE ExecuteCallback(r)
      BY <1>b, <2>6 DEF ExecuteCallback, Reclaiming, Executing
    <2>7. CASE FinishSucceeded(r)
      <3>1. record.id = held[r] => record.id # 0 /\ record.fingerprint = asked[r]
        BY <2>7 DEF FinishSucceeded, AInv, Answers, Holdings, Executing
      <3>2. /\ record'.id = record.id /\ record'.fingerprint = record.fingerprint
            /\ record' = record \/ (record.id # 0 /\ record'.response = record'.fingerprint)
            /\ UNCHANGED <<lastId, replays>>
        BY <1>0, <2>7, <3>1 DEF FinishSucceeded, MarkSucceeded, Row
      <3>3. Snapshots' /\ Holdings'
        BY <2>7, <3>2, ReturnKeepsSnapshots, ReturnKeepsHoldings DEF FinishSucceeded
      <3>4. QED
        BY <1>a, <3>2, <3>3 DEF Answers, RowConsistent, ReplayAnswersTheRequest
    <2>8. CASE FinishFailed(r)
      <3>1. held[r] # 0
        BY <2>8 DEF FinishFailed, AInv, Answers, Holdings, Executing
      <3>2. /\ record'.id = record.id /\ record'.fingerprint = record.fingerprint
            /\ record' = record \/ (record.id # 0 /\ record'.status = "failed_retryable")
            /\ UNCHANGED <<lastId, replays>>
        BY <1>0, <2>8, <3>1 DEF FinishFailed, MarkFailedRetryable, Row
      <3>3. Snapshots' /\ Holdings'
        BY <2>8, <3>2, ReturnKeepsSnapshots, ReturnKeepsHoldings DEF FinishFailed
      <3>4. QED
        BY <1>a, <3>2, <3>3 DEF Answers, RowConsistent, ReplayAnswersTheRequest
    <2>9. QED
      BY <1>2, <2>1, <2>2, <2>3, <2>4, <2>5, <2>6, <2>7, <2>8 DEF Continue
  <1>3. ASSUME NEW r \in Requests, Abandon(r) PROVE Answers'
    BY <1>c, <1>3 DEF Abandon, StoreFails
  <1>4. CASE CleanUp
    <2>1. UNCHANGED <<lastId, requestVars, replays>>
      BY <1>4, DeletedRow DEF CleanUp
    <2>2. CASE record' = NoRecord
      <3>1. record'.id = 0 /\ record'.status = "absent"
        BY <2>2 DEF NoRecord
      <3>2. Snapshots'
        BY <1>0, <1>a, <2>1, <3>1 DEF requestVars, Snapshots
      <3>3. Holdings'
        BY <1>0, <1>a, <2>1, <3>1 DEF requestVars, Holdings
      <3>4. QED
        BY <1>0, <1>a, <2>1, <2>2, <3>1, <3>2, <3>3 DEF Answers, RowConsistent, ReplayAnswersTheRequest
    <2>3. CASE record' = record
      BY <1>a, <2>1, <2>3 DEF requestVars, Answers, Snapshots, Holdings, RowConsistent,
                              ReplayAnswersTheRequest
    <2>4. QED
      BY <1>4, <2>2, <2>3, DeletedRow DEF CleanUp
  <1>5. CASE Tick \/ UNCHANGED vars
    BY <1>5, <1>a DEF Tick, vars, requestVars, tableVars, Answers, Snapshots, Holdings,
       RowConsistent, ReplayAnswersTheRequest
  <1>6. QED
    BY <1>1, <1>2, <1>3, <1>4, <1>5 DEF Next

\* A request asks for the same until it returns.
LEMMA StepAsking == AInv /\ [Next]_vars => Asking'
  <1> SUFFICES ASSUME AInv, [Next]_vars PROVE Asking'
    OBVIOUS
  <1>0. /\ pc \in [Requests -> {"idle"} \cup Claiming \cup Executing]
        /\ asked \in [Requests -> Fingerprints \cup {NoFingerprint}]
    BY DEF AInv, TypeOK
  <1>1. ASSUME NEW r \in Requests, pc[r] # "idle",
               \A s \in Requests \ {r} : pc'[s] = pc[s] /\ asked'[s] = asked[s],
               pc'[r] = "idle" \/ asked'[r] = asked[r]
        PROVE  Asking'
    BY <1>1 DEF AInv, Asking
  <1>2. ASSUME NEW r \in Requests, Start(r) PROVE Asking'
    BY <1>0, <1>2 DEF Start, AInv, Asking
  <1>3. ASSUME NEW r \in Requests, Continue(r) \/ Abandon(r) PROVE Asking'
    <2>1. pc[r] # "idle"
      BY <1>3 DEF Continue, Abandon, Create, ReadExisting, ReclaimExpired, Reread, ReclaimFailed,
         ExecuteCallback, FinishSucceeded, FinishFailed
    <2>2. \/ Return(r)
          \/ asked' = asked /\ \E l \in Claiming \cup Executing : pc' = [pc EXCEPT ![r] = l]
      BY <1>3 DEF Continue, Abandon, Create, ReadExisting, ReclaimExpired, Reread, ReclaimFailed,
         ExecuteCallback, FinishSucceeded, FinishFailed, Answer, StoreFails, Goto, Claim, Claiming,
         Executing
    <2>3. QED
      BY <1>0, <1>1, <2>1, <2>2 DEF Return
  <1>4. CASE CleanUp \/ Tick \/ UNCHANGED vars
    BY <1>4 DEF CleanUp, Tick, vars, requestVars, AInv, Asking
  <1>5. QED
    BY <1>2, <1>3, <1>4 DEF Next

-----------------------------------------------------------------------------
\* Every step keeps the invariant, and so every reachable state satisfies it.
LEMMA StepIInv == Timely /\ IInv /\ [Next]_vars => IInv'
  BY IInvGivesAInv, StepTypeOK, StepOwnership, StepAnswers DEF IInv

LEMMA IInvHolds == ASSUME Timely PROVE Spec => []IInv
  <1>1. Init => IInv
    BY InitIInv
  <1>2. IInv /\ [Next]_vars => IInv'
    BY StepIInv
  <1>3. QED
    BY <1>1, <1>2, PTL DEF Spec

\* Without a bound on how long requests take.
LEMMA AInvHolds == Spec => []AInv
  <1>1. Init => AInv
    BY InitIInv, IInvGivesAInv
  <1>2. AInv /\ [Next]_vars => AInv'
    BY StepTypeOK, StepAsking, StepAnswers DEF AInv
  <1>3. QED
    BY <1>1, <1>2, PTL DEF Spec

\* The state stays within its types, however long requests take.
THEOREM TypeCorrect == Spec => []TypeOK
  BY AInvHolds, PTL DEF AInv

\* For any number of concurrent requests, at most one executes (Execute).
THEOREM ExecutionIsExclusive == ASSUME Timely PROVE Spec => []OneExecutor
  <1>1. IInv => OneExecutor
    BY DEF IInv, Ownership
  <1>2. QED
    BY <1>1, IInvHolds, PTL

\* The row is still the executing request's when it writes its result
\* (MarkSucceeded and MarkFailedRetryable ask only for the id).
THEOREM ExecutionOwnsItsRow == ASSUME Timely PROVE Spec => []ExecutorOwnsRow
  <1>1. IInv => ExecutorOwnsRow
    <2> SUFFICES ASSUME IInv, NEW r \in Requests, pc[r] \in Executing
                 PROVE  record.id = held[r] /\ record.status = "processing" /\ Live
      BY DEF ExecutorOwnsRow
    <2>1. /\ held[r] = record.id /\ record.id # 0 /\ record.status = "processing"
          /\ record.expiresAt = Expires(r) /\ clock < Expires(r)
      BY DEF IInv, Ownership, Owning
    <2>2. QED
      BY <2>1 DEF Live
  <1>2. QED
    BY <1>1, IInvHolds, PTL

\* No request is ever answered with the answer to another one, however long the
\* requests take: also when two execute at once, or one's row is gone.
THEOREM ReplaysMatch == Spec => []ReplayAnswersTheRequest
  <1>1. AInv => ReplayAnswersTheRequest
    BY DEF AInv, Answers
  <1>2. QED
    BY <1>1, AInvHolds, PTL

\* A stored answer outlives everything but its expiry and one stale reclaim.
THEOREM StoredAnswersStay == ASSUME Timely PROVE Spec => LiveSuccessIsKept
  <1> DEFINE StaleReclaim == \E r \in Requests :
               /\ pc[r] = "reclaim_expired" /\ pc'[r] = "execute"
               /\ seen[r].expiresAt <= now[r]
  <1>1. ASSUME Timely, IInv, [Next]_vars, record.status = "succeeded", Live
        PROVE  record' = record \/ StaleReclaim
    <2>0. /\ \A r \in Requests : pc[r] \notin Executing
          /\ record.id # 0 /\ ~(record.expiresAt <= clock)
          /\ pc \in [Requests -> {"idle"} \cup Claiming \cup Executing]
      BY <1>1, RecordsAssumption DEF RecordsAssumption, IInv, Ownership, Owning, Live, TypeOK, RecordsTypeOK, Row
    <2>1. ASSUME NEW r \in Requests, Continue(r) PROVE record' = record \/ StaleReclaim
      <3>1. CASE Create(r)
        BY <2>0, <3>1 DEF Create, CreateProcessing, tableVars
      <3>2. CASE ReadExisting(r) \/ Reread(r)
        BY <3>2 DEF ReadExisting, Reread, tableVars
      <3>3. CASE ReclaimExpired(r)
        <4>1. CASE UNCHANGED tableVars
          BY <4>1 DEF tableVars
        <4>2. CASE Claim(r, seen[r].id)
          <5>1. pc[r] = "reclaim_expired" /\ pc'[r] = "execute"
            BY <2>0, <3>3, <4>2 DEF ReclaimExpired, Claim
          <5>2. seen[r].expiresAt <= now[r]
            BY <1>1, <5>1 DEF IInv, Answers, Snapshots
          <5>3. QED
            BY <5>1, <5>2
        <4>3. QED
          BY <3>3, <4>1, <4>2 DEF ReclaimExpired
      <3>4. CASE ReclaimFailed(r)
        BY <1>1, <3>4 DEF ReclaimFailed, Reclaimable, tableVars
      <3>5. CASE ExecuteCallback(r) \/ FinishSucceeded(r) \/ FinishFailed(r)
        BY <2>0, <3>5 DEF ExecuteCallback, FinishSucceeded, FinishFailed, Executing
      <3>6. QED
        BY <2>1, <3>1, <3>2, <3>3, <3>4, <3>5 DEF Continue
    <2>2. ASSUME NEW r \in Requests, Start(r) \/ Abandon(r) PROVE record' = record
      BY <2>2 DEF Start, Abandon, StoreFails, tableVars
    <2>3. CASE CleanUp \/ Tick \/ UNCHANGED vars
      BY <1>1, <2>0, <2>3, DeletedAtOnce DEF CleanUp, Tick, vars, tableVars, Timely, IInv, TypeOK
    <2>4. QED
      BY <1>1, <2>1, <2>2, <2>3 DEF Next
  <1>2. IInv /\ [Next]_vars =>
          [(record.status = "succeeded" /\ Live) => record' = record \/ StaleReclaim]_vars
    BY <1>1
  <1>3. QED
    BY <1>2, IInvHolds, PTL DEF Spec, LiveSuccessIsKept

-----------------------------------------------------------------------------
(* The row implements the key of IdempotentKey.                            *)

\* What the mapping shows of the requests and of the row.
Running == {[who |-> r, asks |-> asked[r]] : r \in {x \in Requests : pc[x] \in Executing}}
Kept == IF record.status = "succeeded" THEN record.response ELSE NoFingerprint

\* A claim starts the only execution.
LEMMA ClaimRuns ==
  ASSUME IInv, NEW r \in Requests, NEW i, ClaimIsExclusive(r), Claim(r, i)
  PROVE  Running = {} /\ Running' = {[who |-> r, asks |-> asked[r]]}
  <1>1. \A s \in Requests : pc[s] \notin Executing
    BY DEF ClaimIsExclusive
  <1>2. \A s \in Requests : pc'[s] \in Executing <=> s = r
    BY <1>1 DEF IInv, TypeOK, Claim, Executing
  <1>3. asked'[r] = asked[r]
    BY DEF Claim
  <1>4. QED
    BY <1>1, <1>2, <1>3 DEF Running

\* The only execution ends with the request.
LEMMA ReturnEnds ==
  ASSUME IInv, NEW r \in Requests, pc[r] \in Executing, Return(r)
  PROVE  Running = {[who |-> r, asks |-> asked[r]]} /\ Running' = {}
  <1>1. \A s \in Requests : pc[s] \in Executing <=> s = r
    BY DEF IInv, Ownership, OneExecutor
  <1>2. \A s \in Requests : pc'[s] \notin Executing
    BY <1>1 DEF IInv, TypeOK, Return, Executing
  <1>3. QED
    BY <1>1, <1>2 DEF Running

\* The executions stay as they are when the executing requests do.
LEMMA RunningStays ==
  ASSUME \A s \in Requests : /\ pc'[s] \in Executing <=> pc[s] \in Executing
                             /\ pc[s] \in Executing => asked'[s] = asked[s]
  PROVE  Running' = Running
  BY DEF Running

\* A request that does not execute returns.
LEMMA OtherReturns ==
  ASSUME IInv, NEW r \in Requests, pc[r] \notin Executing, Return(r)
  PROVE  Running' = Running
  <1>1. /\ pc'[r] \notin Executing
        /\ \A s \in Requests \ {r} : pc'[s] = pc[s] /\ asked'[s] = asked[s]
    BY DEF IInv, TypeOK, Return, Executing
  <1>2. QED
    BY <1>1, RunningStays

\* The row a request may reclaim keeps the answer to the same payload, or none.
LEMMA ReclaimRefines ==
  ASSUME IInv, NEW r \in Requests, pc[r] \in Reclaiming, record.id = seen[r].id,
         ClaimIsExclusive(r), TryReclaim(Locked(r), Expires(r)), Claim(r, seen[r].id),
         UNCHANGED replays
  PROVE  \E p \in Fingerprints : Key!Begin(r, p) \/ Key!End(r, p)
  <1>1. record.fingerprint = asked[r] /\ asked[r] \in Fingerprints
    BY DEF IInv, Ownership, Aging, Answers, Snapshots, Reclaiming
  <1>2. Kept \in {asked[r], NoFingerprint}
    BY <1>1 DEF Kept, IInv, Answers, RowConsistent
  <1>3. Kept' = NoFingerprint
    BY DEF Kept, TryReclaim, IInv, TypeOK, RecordsTypeOK, Row
  <1>4. PICK p \in Fingerprints : p = asked[r]
    BY <1>1
  <1>5. Key!Begin(r, p)
    BY <1>2, <1>3, <1>4, ClaimRuns DEF Key!Begin, Running, Kept
  <1>6. QED
    BY <1>5

\* Who is answered from the row gets the answer that is kept.
LEMMA AnswerRefines ==
  ASSUME IInv, NEW r \in Requests, pc[r] \in Claiming, record.fingerprint = asked[r],
         Answer(r, record), UNCHANGED record
  PROVE  Key!Replay \/ UNCHANGED Key!vars
  <1>1. pc[r] \notin Executing /\ asked[r] \in Fingerprints
    BY DEF Claiming, Executing, IInv, Ownership, Aging
  <1>2. UNCHANGED Kept
    BY DEF Kept
  <1>3. CASE /\ record.status = "succeeded"
             /\ replays' = replays \cup {[asked |-> asked[r], answer |-> record.response]}
             /\ Return(r)
    <2>1. Kept = asked[r] /\ record.response = asked[r]
      BY <1>3 DEF Kept, IInv, Answers, RowConsistent
    <2>2. Kept # NoFingerprint
      BY <1>1, <2>1, RecordsAssumption DEF RecordsAssumption
    <2>3. Running' = Running
      BY <1>1, <1>3, OtherReturns
    <2>4. QED
      BY <1>2, <1>3, <2>1, <2>2, <2>3 DEF Key!Replay, Running, Kept
  <1>4. CASE Return(r) /\ UNCHANGED replays
    BY <1>1, <1>2, <1>4, OtherReturns DEF Key!vars, Running, Kept
  <1>5. CASE pc' = [pc EXCEPT ![r] = "reclaim_failed"] /\ UNCHANGED <<asked, replays>>
    <2>1. Running' = Running
      BY <1>1, <1>5, RunningStays DEF Executing, IInv, TypeOK
    <2>2. QED
      BY <1>2, <1>5, <2>1 DEF Key!vars, Running, Kept
  <1>6. QED
    BY <1>3, <1>4, <1>5 DEF Answer

\* A request that goes on to a step of the same phase.
LEMMA GoingOnRefines ==
  ASSUME IInv, NEW r \in Requests, NEW l, pc' = [pc EXCEPT ![r] = l],
         UNCHANGED <<record, asked, replays>>, pc[r] \in Executing <=> l \in Executing
  PROVE  UNCHANGED Key!vars
  <1>1. Running' = Running
    BY RunningStays DEF IInv, TypeOK
  <1>2. QED
    BY <1>1 DEF Key!vars, Running, Kept

\* What a step of a request shows is a step of the key.
LEMMA IsStep ==
  ASSUME NEW r \in Requests, \E p \in Fingerprints : Key!Begin(r, p) \/ Key!End(r, p)
  PROVE  Key!Next
  BY DEF Key!Next

LEMMA ReplayIsStep == ASSUME Key!Replay PROVE Key!Next
  BY DEF Key!Next

LEMMA ContinueRefines ==
  ASSUME IInv, NEW r \in Requests, Continue(r)
  PROVE  [Key!Next]_Key!vars
  <1>1. CASE Create(r)
    <2>1. CASE Goto(r, "read") /\ UNCHANGED tableVars
      BY <1>1, <2>1, GoingOnRefines DEF Create, Goto, tableVars, Executing
    <2>2. CASE CreateProcessing(asked[r], Locked(r), Expires(r)) /\ Claim(r, lastId')
      <3>1. ClaimIsExclusive(r)
        BY <2>2, CreateIsExclusive DEF CreateProcessing
      <3>2. Kept = NoFingerprint /\ Kept' = NoFingerprint
        BY <2>2 DEF CreateProcessing, Kept, IInv, Answers, RowConsistent, NoRecord
      <3>3. PICK p \in Fingerprints : p = asked[r]
        BY <1>1 DEF Create, IInv, Ownership, Aging
      <3>4. Key!Begin(r, p)
        BY <1>1, <2>2, <3>1, <3>2, <3>3, ClaimRuns DEF Create, Key!Begin, Running, Kept
      <3>5. QED
        BY <3>4, IsStep
    <2>3. QED
      BY <1>1, <2>1, <2>2 DEF Create
  <1>2. CASE ReadExisting(r)
    <2>1. pc[r] \in Claiming /\ pc[r] \notin Executing /\ UNCHANGED record
      BY <1>2 DEF ReadExisting, Claiming, Executing, tableVars
    <2>2. CASE Return(r) /\ UNCHANGED replays
      BY <2>1, <2>2, OtherReturns DEF Key!vars, Running, Kept
    <2>3. CASE pc' = [pc EXCEPT ![r] = "reclaim_expired"] /\ UNCHANGED <<asked, replays>>
      BY <2>1, <2>3, GoingOnRefines DEF Executing
    <2>4. CASE record.fingerprint = asked[r] /\ Answer(r, record)
      BY <2>1, <2>4, AnswerRefines, ReplayIsStep
    <2>5. QED
      BY <1>2, <2>2, <2>3, <2>4 DEF ReadExisting
  <1>3. CASE ReclaimExpired(r)
    <2>1. CASE Reclaimable(seen[r].id, seen[r].status, now[r])
      <3>1. ClaimIsExclusive(r) /\ record.id = seen[r].id /\ pc[r] \in Reclaiming
        BY <1>3, <2>1, ExpiredIsExclusive DEF ReclaimExpired, Reclaimable, Reclaiming
      <3>2. QED
        BY <1>3, <2>1, <3>1, ReclaimRefines, IsStep DEF ReclaimExpired
    <2>2. CASE Goto(r, "reread") /\ UNCHANGED tableVars
      BY <1>3, <2>2, GoingOnRefines DEF ReclaimExpired, Goto, tableVars, Executing
    <2>3. QED
      BY <1>3, <2>1, <2>2 DEF ReclaimExpired
  <1>4. CASE Reread(r)
    <2>1. pc[r] \in Claiming /\ pc[r] \notin Executing /\ UNCHANGED record
      BY <1>4 DEF Reread, Claiming, Executing, tableVars
    <2>2. CASE Return(r) /\ UNCHANGED replays
      BY <2>1, <2>2, OtherReturns DEF Key!vars, Running, Kept
    <2>3. CASE record.fingerprint = asked[r] /\ Answer(r, record)
      BY <2>1, <2>3, AnswerRefines, ReplayIsStep
    <2>4. QED
      BY <1>4, <2>2, <2>3 DEF Reread
  <1>5. CASE ReclaimFailed(r)
    <2>1. CASE Reclaimable(seen[r].id, "failed_retryable", now[r])
      <3>1. ClaimIsExclusive(r) /\ record.id = seen[r].id /\ pc[r] \in Reclaiming
        BY <1>5, <2>1, FailedIsExclusive DEF ReclaimFailed, Reclaimable, Reclaiming
      <3>2. QED
        BY <1>5, <2>1, <3>1, ReclaimRefines, IsStep DEF ReclaimFailed
    <2>2. CASE Return(r) /\ UNCHANGED tableVars
      <3>1. pc[r] \notin Executing /\ UNCHANGED <<record, replays>>
        BY <1>5, <2>2 DEF ReclaimFailed, Executing, tableVars
      <3>2. QED
        BY <2>2, <3>1, OtherReturns DEF Key!vars, Running, Kept
    <2>3. QED
      BY <1>5, <2>1, <2>2 DEF ReclaimFailed
  <1>6. CASE ExecuteCallback(r)
    BY <1>6, GoingOnRefines DEF ExecuteCallback, Goto, tableVars, Executing
  <1>7. CASE FinishSucceeded(r) \/ FinishFailed(r)
    <2>1. /\ pc[r] \in Executing /\ Return(r) /\ UNCHANGED replays
          /\ asked[r] \in Fingerprints /\ record.id = held[r] /\ record \in Row
      BY <1>7 DEF FinishSucceeded, FinishFailed, Executing, IInv, Ownership, Owning, Aging,
                  TypeOK, RecordsTypeOK
    <2>2. Kept' \in {asked[r], NoFingerprint}
      BY <1>7, <2>1 DEF FinishSucceeded, FinishFailed, MarkSucceeded, MarkFailedRetryable,
                        Kept, Row
    <2>3. PICK p \in Fingerprints : p = asked[r]
      BY <2>1
    <2>4. Key!End(r, p)
      BY <2>1, <2>2, <2>3, ReturnEnds DEF Key!End, Running, Kept
    <2>5. QED
      BY <2>4, IsStep
  <1>8. QED
    BY <1>1, <1>2, <1>3, <1>4, <1>5, <1>6, <1>7 DEF Continue

LEMMA StepRefines == Timely /\ IInv /\ [Next]_vars => [Key!Next]_Key!vars
  <1> SUFFICES ASSUME Timely, IInv, [Next]_vars PROVE [Key!Next]_Key!vars
    OBVIOUS
  <1>1. ASSUME NEW r \in Requests, Start(r) PROVE UNCHANGED Key!vars
    <2>1. Running' = Running
      BY <1>1, RunningStays DEF Start, Executing, IInv, TypeOK
    <2>2. QED
      BY <1>1, <2>1 DEF Start, tableVars, Key!vars, Running, Kept
  <1>2. ASSUME NEW r \in Requests, Abandon(r) PROVE [Key!Next]_Key!vars
    <2>1. Return(r) /\ UNCHANGED <<record, replays>>
      BY <1>2 DEF Abandon, StoreFails, tableVars
    <2>2. CASE pc[r] \in Executing
      <3>1. asked[r] \in Fingerprints /\ Kept' = NoFingerprint
        BY <2>1, <2>2 DEF Kept, Executing, IInv, Ownership, Owning, Aging
      <3>2. PICK p \in Fingerprints : p = asked[r]
        BY <3>1
      <3>3. Key!End(r, p)
        BY <2>1, <2>2, <3>1, <3>2, ReturnEnds DEF Key!End, Running, Kept
      <3>4. QED
        BY <3>3, IsStep
    <2>3. CASE pc[r] \notin Executing
      BY <2>1, <2>3, OtherReturns DEF Key!vars, Running, Kept
    <2>4. QED
      BY <2>2, <2>3
  <1>3. CASE CleanUp
    <2>0. /\ record.expiresAt <= clock /\ record' = NoRecord
      BY <1>3, DeletedAtOnce DEF CleanUp, Timely, IInv, TypeOK
    <2>1. \A r \in Requests : pc[r] \notin Executing
      BY <2>0 DEF IInv, Ownership, Owning, TypeOK, RecordsTypeOK, Row
    <2>2. Kept' = NoFingerprint /\ UNCHANGED <<pc, asked, replays>>
      BY <1>3, <2>0 DEF CleanUp, Kept, NoRecord, requestVars
    <2>3. Running = {} /\ Running' = {}
      BY <2>1, <2>2 DEF Running
    <2>4. QED
      BY <2>2, <2>3 DEF Key!Next, Key!Forget, Running, Kept
  <1>4. CASE Tick \/ UNCHANGED vars
    <2>1. UNCHANGED <<record, pc, asked, replays>>
      BY <1>4 DEF Tick, vars, tableVars, requestVars
    <2>2. Running' = Running
      BY <2>1, RunningStays
    <2>3. QED
      BY <2>1, <2>2 DEF Key!vars, Running, Kept
  <1>5. QED
    BY <1>1, <1>2, <1>3, <1>4, ContinueRefines DEF Next

LEMMA InitRefines == Init => Key!Init
  BY DEF Init, RecordsInit, NoRecord, Executing, Key!Init

\* However requests, retries, expiries and deletions interleave, the row implements
\* a key that runs one execution at a time and answers from nothing but its result.
THEOREM ImplementsIdempotentKey == ASSUME Timely PROVE Spec => KeepsKey
  BY InitRefines, StepRefines, IInvHolds, PTL DEF Spec, KeepsKey, Key!Spec

=============================================================================
