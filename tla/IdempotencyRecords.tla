------------------------ MODULE IdempotencyRecords ------------------------
(***************************************************************************)
(* The idempotency_records table as its two users see it: the row of one   *)
(* (scope, key), and the statements of the repository on it.  Each         *)
(* operator that primes the row is one SQL statement, hence atomic, except *)
(* DeleteExpired: it deletes by id what it has found expired before.       *)
(*                                                                         *)
(* Time is one clock of whole units, as all instances read synchronised    *)
(* clocks; a caller passes the time it took, which may be older.           *)
(***************************************************************************)
EXTENDS Integers

CONSTANTS
  Fingerprints,  \* the values of request_fingerprint
  NoFingerprint, \* none of them
  MaxTime,       \* the clock stops here
  MaxRecords,    \* how often the row may be inserted
  DeleteIsAtomic \* whether nobody reclaims a row while DeleteExpired runs

ASSUME RecordsAssumption ==
  /\ MaxTime \in Nat /\ MaxRecords \in Nat /\ NoFingerprint \notin Fingerprints
  /\ DeleteIsAtomic \in BOOLEAN

VARIABLES
  clock,
  record,   \* the row, NoRecord when there is none
  lastId,   \* the sequence behind idempotency_records.id
  victim    \* what a running DeleteExpired has found, 0 for nothing

tableVars == <<record, lastId, victim>>

\* response stands for response_body, as the fingerprint it answers;
\* lockedUntil is 0 for NULL: both let anyone pass.
NoRecord == [id |-> 0, fingerprint |-> NoFingerprint, status |-> "absent",
             response |-> NoFingerprint, lockedUntil |-> 0, expiresAt |-> 0]

RecordStatus == {"absent", "processing", "succeeded", "failed_retryable"}

Row == [id : Nat, fingerprint : Fingerprints \cup {NoFingerprint},
        status : RecordStatus, response : Fingerprints \cup {NoFingerprint},
        lockedUntil : Nat, expiresAt : Nat]

RecordsTypeOK ==
  /\ clock \in 0..MaxTime
  /\ record \in Row
  /\ lastId \in Nat
  /\ victim \in Nat
  /\ DeleteIsAtomic => victim = 0

RecordsInit ==
  /\ clock = 0
  /\ record = NoRecord
  /\ lastId = 0
  /\ victim = 0

Live == record.id # 0 /\ record.expiresAt > clock

-----------------------------------------------------------------------------
\* CreateProcessing: INSERT ... ON CONFLICT DO NOTHING, when it inserts.
CreateProcessing(fingerprint, locked, expires) ==
  /\ record.id = 0
  /\ lastId < MaxRecords
  /\ lastId' = lastId + 1
  /\ record' = [id |-> lastId + 1, fingerprint |-> fingerprint,
                status |-> "processing", response |-> NoFingerprint,
                lockedUntil |-> locked, expiresAt |-> expires]
  /\ UNCHANGED victim

\* Mutant: the clause on locked_until is missing.
ReclaimableLocked(id, from, now) ==
  /\ record.id = id
  /\ record.status = from

\* The WHERE clause of TryReclaim.  expires_at is not in it.
Reclaimable(id, from, now) ==
  /\ record.id = id
  /\ record.status = from
  /\ record.lockedUntil <= now

\* The SET clause: neither the fingerprint nor the response is touched.
TryReclaim(locked, expires) ==
  /\ record' = [record EXCEPT !.status = "processing",
                              !.lockedUntil = locked, !.expiresAt = expires]
  /\ UNCHANGED <<lastId, victim>>

\* The WHERE clause of ExtendProcessingLock.
ExtendsProcessingLock(id, fingerprint) ==
  /\ record.id = id
  /\ record.status = "processing"
  /\ record.fingerprint = fingerprint

ExtendProcessingLock(locked, expires) ==
  /\ record' = [record EXCEPT !.lockedUntil = locked, !.expiresAt = expires]
  /\ UNCHANGED <<lastId, victim>>

\* Mutant: the response body is not stored.
MarkSucceededEmpty(id, response, expires) ==
  /\ record' = IF record.id = id
               THEN [record EXCEPT !.status = "succeeded",
                                   !.lockedUntil = 0, !.expiresAt = expires]
               ELSE record
  /\ UNCHANGED <<lastId, victim>>

\* MarkSucceeded and MarkFailedRetryable ask only for the id.
MarkSucceeded(id, response, expires) ==
  /\ record' = IF record.id = id
               THEN [record EXCEPT !.status = "succeeded", !.response = response,
                                   !.lockedUntil = 0, !.expiresAt = expires]
               ELSE record
  /\ UNCHANGED <<lastId, victim>>

MarkFailedRetryable(id, locked, expires) ==
  /\ record' = IF record.id = id
               THEN [record EXCEPT !.status = "failed_retryable",
                                   !.lockedUntil = locked, !.expiresAt = expires]
               ELSE record
  /\ UNCHANGED <<lastId, victim>>

\* Mutant: deletes what is not locked rather than what has expired.
DeleteUnlocked ==
  /\ record.id # 0
  /\ record.lockedUntil <= clock
  /\ record' = NoRecord
  /\ UNCHANGED <<lastId, victim>>

DeleteAtOnce ==
  /\ record.id # 0
  /\ record.expiresAt <= clock
  /\ record' = NoRecord
  /\ UNCHANGED <<lastId, victim>>

\* The CTE finds the row expired, under the snapshot of the statement.
FindExpired ==
  /\ ~DeleteIsAtomic
  /\ victim = 0
  /\ record.id # 0
  /\ record.expiresAt <= clock
  /\ victim' = record.id
  /\ UNCHANGED <<record, lastId>>

\* The DELETE asks only for the id: a row reclaimed since is deleted as well.
DeleteFound ==
  /\ victim # 0
  /\ record' = IF record.id = victim THEN NoRecord ELSE record
  /\ victim' = 0
  /\ UNCHANGED lastId

DeleteExpired == DeleteAtOnce \/ FindExpired \/ DeleteFound

=============================================================================
