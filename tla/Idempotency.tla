---------------------------- MODULE Idempotency ----------------------------
(***************************************************************************)
(* IdempotencyCoordinator.Execute: concurrent requests with one key, whose *)
(* record lets one of them execute and answers the others.  Each step of a *)
(* request is one statement against the table, or the execution itself; a  *)
(* request takes the time once, when it starts, and uses it to the end.    *)
(***************************************************************************)
EXTENDS IdempotencyRecords

CONSTANTS
  Requests,           \* request goroutines; a client may use one repeatedly
  TTL,                \* expiry of a record
  ProcessingTimeout,  \* ProcessingTimeout, the lock of a claim
  Backoff,            \* FailedRetryBackoff
  MaxClaim,           \* bound: age at which a request has claimed or returned
  MaxRequest          \* bound: age at which a request has returned

ASSUME TimingAssumption ==
  /\ TTL \in Nat /\ ProcessingTimeout \in Nat /\ Backoff \in Nat
  /\ MaxClaim \in Nat /\ MaxRequest \in Nat

VARIABLES
  pc,        \* per request: its next step
  now,       \* per request: the time it took when it started
  asked,     \* per request: its fingerprint
  seen,      \* per request: the row as it last read it
  held,      \* per request: record.ID in Execute, 0 before a claim
  replays    \* history: for every replayed answer, who asked and what it got

requestVars == <<pc, now, asked, seen, held>>
vars == <<clock, tableVars, requestVars, replays>>

Claiming == {"create", "read", "reclaim_expired", "reread", "reclaim_failed"}
Executing == {"execute", "mark_succeeded", "mark_failed"}

TypeOK ==
  /\ RecordsTypeOK
  /\ pc \in [Requests -> {"idle"} \cup Claiming \cup Executing]
  /\ now \in [Requests -> 0..MaxTime]
  /\ asked \in [Requests -> Fingerprints \cup {NoFingerprint}]
  /\ seen \in [Requests -> Row]
  /\ held \in [Requests -> Nat]
  /\ replays \subseteq [asked : Fingerprints, answer : Fingerprints]

Init ==
  /\ RecordsInit
  /\ pc = [r \in Requests |-> "idle"]
  /\ now = [r \in Requests |-> 0]
  /\ asked = [r \in Requests |-> NoFingerprint]
  /\ seen = [r \in Requests |-> NoRecord]
  /\ held = [r \in Requests |-> 0]
  /\ replays = {}

-----------------------------------------------------------------------------
Goto(r, l) ==
  /\ pc' = [pc EXCEPT ![r] = l]
  /\ UNCHANGED <<now, asked, seen, held>>

Return(r) ==
  /\ pc' = [pc EXCEPT ![r] = "idle"]
  /\ now' = [now EXCEPT ![r] = 0]
  /\ asked' = [asked EXCEPT ![r] = NoFingerprint]
  /\ seen' = [seen EXCEPT ![r] = NoRecord]
  /\ held' = [held EXCEPT ![r] = 0]

\* The claim: from here on the request owns the row with this id.
Claim(r, id) ==
  /\ pc' = [pc EXCEPT ![r] = "execute"]
  /\ held' = [held EXCEPT ![r] = id]
  /\ seen' = [seen EXCEPT ![r] = NoRecord]
  /\ UNCHANGED <<now, asked>>

Locked(r) == now[r] + ProcessingTimeout
Expires(r) == now[r] + TTL

\* An error of the store: ErrIdempotencyStoreUnavail.
StoreFails(r) == Return(r) /\ UNCHANGED <<tableVars, replays>>

-----------------------------------------------------------------------------
Start(r) ==
  /\ pc[r] = "idle"
  /\ \E f \in Fingerprints : asked' = [asked EXCEPT ![r] = f]
  /\ now' = [now EXCEPT ![r] = clock]
  /\ pc' = [pc EXCEPT ![r] = "create"]
  /\ UNCHANGED <<clock, tableVars, seen, held, replays>>

Create(r) ==
  /\ pc[r] = "create"
  /\ \/ /\ CreateProcessing(asked[r], Locked(r), Expires(r))
        /\ Claim(r, lastId')
     \/ record.id # 0 /\ Goto(r, "read") /\ UNCHANGED tableVars
  /\ UNCHANGED <<clock, replays>>

\* What the row says to a request that may not, or need not, reclaim it as
\* expired: replay, conflict, or a claim of a failed one after its backoff.
Answer(r, row) ==
  \/ /\ row.status = "succeeded"
     /\ replays' = replays \cup {[asked |-> asked[r], answer |-> row.response]}
     /\ Return(r)
  \/ /\ row.status = "processing" \/ (row.status = "failed_retryable" /\ row.lockedUntil > now[r])
     /\ Return(r)
     /\ UNCHANGED replays
  \/ /\ row.status = "failed_retryable" /\ row.lockedUntil <= now[r]
     /\ seen' = [seen EXCEPT ![r] = row]
     /\ pc' = [pc EXCEPT ![r] = "reclaim_failed"]
     /\ UNCHANGED <<now, asked, held, replays>>

\* Mutant: an expired claim is not taken over.
ReadExistingStrict(r) ==
  /\ pc[r] = "read"
  /\ \/ record.fingerprint # asked[r] /\ Return(r) /\ UNCHANGED replays
     \/ /\ record.fingerprint = asked[r]
        /\ record.expiresAt <= now[r] /\ record.status # "processing"
        /\ seen' = [seen EXCEPT ![r] = record]
        /\ pc' = [pc EXCEPT ![r] = "reclaim_expired"]
        /\ UNCHANGED <<now, asked, held, replays>>
     \/ /\ record.fingerprint = asked[r]
        /\ ~(record.expiresAt <= now[r] /\ record.status # "processing")
        /\ Answer(r, record)
  /\ UNCHANGED <<clock, tableVars>>

ReadExisting(r) ==
  /\ pc[r] = "read"
  /\ \/ record.fingerprint # asked[r] /\ Return(r) /\ UNCHANGED replays
     \/ /\ record.fingerprint = asked[r]
        /\ record.expiresAt <= now[r]
        /\ seen' = [seen EXCEPT ![r] = record]
        /\ pc' = [pc EXCEPT ![r] = "reclaim_expired"]
        /\ UNCHANGED <<now, asked, held, replays>>
     \/ /\ record.fingerprint = asked[r]
        /\ record.expiresAt > now[r]
        /\ Answer(r, record)
  /\ UNCHANGED <<clock, tableVars>>

\* The CAS asks for the status that was read, not for the expiry.
ReclaimExpired(r) ==
  /\ pc[r] = "reclaim_expired"
  /\ IF Reclaimable(seen[r].id, seen[r].status, now[r])
     THEN TryReclaim(Locked(r), Expires(r)) /\ Claim(r, seen[r].id)
     ELSE Goto(r, "reread") /\ UNCHANGED tableVars
  /\ UNCHANGED <<clock, replays>>

\* Mutant: the row that is read again is not compared with the request.
RereadUnchecked(r) ==
  /\ pc[r] = "reread"
  /\ \/ record.id = 0 /\ Return(r) /\ UNCHANGED replays
     \/ record.id # 0 /\ Answer(r, record)
  /\ UNCHANGED <<clock, tableVars>>

Reread(r) ==
  /\ pc[r] = "reread"
  /\ \/ record.fingerprint # asked[r] /\ Return(r) /\ UNCHANGED replays
     \/ record.fingerprint = asked[r] /\ Answer(r, record)
  /\ UNCHANGED <<clock, tableVars>>

\* Mutant: the CAS takes the status the row has now, not the one that was read.
ReclaimFailedAny(r) ==
  /\ pc[r] = "reclaim_failed"
  /\ IF Reclaimable(seen[r].id, record.status, now[r])
     THEN TryReclaim(Locked(r), Expires(r)) /\ Claim(r, seen[r].id)
     ELSE Return(r) /\ UNCHANGED tableVars
  /\ UNCHANGED <<clock, replays>>

\* The CAS of a failed record after its backoff.
ReclaimFailed(r) ==
  /\ pc[r] = "reclaim_failed"
  /\ IF Reclaimable(seen[r].id, "failed_retryable", now[r])
     THEN TryReclaim(Locked(r), Expires(r)) /\ Claim(r, seen[r].id)
     ELSE Return(r) /\ UNCHANGED tableVars
  /\ UNCHANGED <<clock, replays>>

\* The business callback ends, with an answer or an error.
ExecuteCallback(r) ==
  /\ pc[r] = "execute"
  /\ \E l \in {"mark_succeeded", "mark_failed"} : Goto(r, l)
  /\ UNCHANGED <<clock, tableVars, replays>>

FinishSucceeded(r) ==
  /\ pc[r] = "mark_succeeded"
  /\ MarkSucceeded(held[r], asked[r], Expires(r))
  /\ Return(r)
  /\ UNCHANGED <<clock, replays>>

\* The backoff counts from the end of the execution.
FinishFailed(r) ==
  /\ pc[r] = "mark_failed"
  /\ MarkFailedRetryable(held[r], clock + Backoff, Expires(r))
  /\ Return(r)
  /\ UNCHANGED <<clock, replays>>

\* The process dies, the store answers a statement with an error, or the answer
\* is too large to be stored: the row stays as it is.
Abandon(r) ==
  /\ pc[r] # "idle"
  /\ StoreFails(r)
  /\ UNCHANGED clock

CleanUp ==
  /\ DeleteExpired
  /\ UNCHANGED <<clock, requestVars, replays>>

\* Time passes, but no request grows older than the bounds say.
Tick ==
  /\ clock < MaxTime
  /\ \A r \in Requests :
       /\ pc[r] \in Claiming => clock - now[r] < MaxClaim
       /\ pc[r] \in Executing => clock - now[r] < MaxRequest
  /\ clock' = clock + 1
  /\ UNCHANGED <<tableVars, requestVars, replays>>

Continue(r) ==
  \/ Create(r) \/ ReadExisting(r) \/ ReclaimExpired(r) \/ Reread(r) \/ ReclaimFailed(r)
  \/ ExecuteCallback(r) \/ FinishSucceeded(r) \/ FinishFailed(r)

Next ==
  \/ \E r \in Requests : Start(r) \/ Continue(r) \/ Abandon(r)
  \/ CleanUp
  \/ Tick

Spec == Init /\ [][Next]_vars

\* Time passes, requests move on, clients keep asking, and a statement that is
\* tried again and again does not fail every time.  Nothing is asked of CleanUp.
LiveSpec ==
  /\ Spec
  /\ SF_vars(Tick)
  /\ \A r \in Requests : WF_vars(Continue(r))
  /\ SF_vars(\E r \in Requests : Start(r))
  /\ SF_vars(\E r \in Requests : Create(r))
  /\ SF_vars(\E r \in Requests : ReadExisting(r))
  /\ SF_vars(\E r \in Requests : ReclaimExpired(r))

-----------------------------------------------------------------------------
(* What the record promises.                                               *)

\* At most one request is between its claim and the end of its execution,
\* however long the execution outlives its lock (idempotency.go, Execute).
OneExecutor ==
  \A r, s \in Requests : pc[r] \in Executing /\ pc[s] \in Executing => r = s

\* The row of a request that executes is still its own, claimed and not expired,
\* so its MarkSucceeded or MarkFailedRetryable writes its own result.
ExecutorOwnsRow ==
  \A r \in Requests : pc[r] \in Executing =>
    record.id = held[r] /\ record.status = "processing" /\ Live

\* A replayed answer is the answer to the same request (request_fingerprint),
\* even when the row was deleted and inserted for another one in between.
ReplayAnswersTheRequest == \A p \in replays : p.asked = p.answer

\* A stored answer stays until it expires; the one exception is a request that
\* read the row when it had expired and reclaims it after another one has.
LiveSuccessIsKept ==
  [][(record.status = "succeeded" /\ Live) =>
        \/ record' = record
        \/ \E r \in Requests :
             /\ pc[r] = "reclaim_expired" /\ pc'[r] = "execute"
             /\ seen[r].expiresAt <= now[r]]_vars

\* Without the exception: a stored answer is never executed over while it lives.
\* The code does not keep this; give it as PROPERTY of MCIdempotency_safety.cfg.
SucceededIsNotReexecuted ==
  [][(record.status = "succeeded" /\ Live) => record' = record]_vars

\* The row with its locks, expiries, takeovers and deletions implements the key of
\* IdempotentKey, step by step.
Key == INSTANCE IdempotentKey WITH
  Payloads <- Fingerprints, Nothing <- NoFingerprint,
  running <- {[who |-> r, asks |-> asked[r]] : r \in {x \in Requests : pc[x] \in Executing}},
  kept <- IF record.status = "succeeded" THEN record.response ELSE NoFingerprint,
  given <- replays

KeepsKey == Key!Spec

\* A claim nobody works on any more (crash, failed MarkSucceeded) does not block
\* its key for ever: after the expiry somebody claims it or it is deleted.
AbandonedKeyIsFreed ==
  \A i \in 1..MaxRecords :
    (record.id = i /\ record.status = "processing" /\ record.expiresAt <= MaxTime)
      ~> \/ record.id # i \/ record.status # "processing"
         \/ \E r \in Requests : pc[r] \in Executing

=============================================================================
