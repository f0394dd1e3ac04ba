---------------------------- MODULE UsageBilling ----------------------------
(***************************************************************************)
(* RecordUsage and usageBillingRepository.Apply: what a request has used   *)
(* is charged in one transaction, which first claims the event's key.      *)
(* Media and search events keep their key when they are polled or called   *)
(* back, so an event may be delivered any number of times, at once or much *)
(* later, and with another content.  Old keys are moved to an archive,     *)
(* commits may be lost, usage logs are written late, and are cleaned up.   *)
(***************************************************************************)
EXTENDS BalanceCache

CONSTANTS
  Events,      \* request_id and api_key_id
  Usages,      \* what may be delivered: one per request_fingerprint
  Event,       \* per usage: its event
  Account,     \* per usage: the account that served it
  Cost,        \* per usage: what it takes from the balance
  WithPoints,  \* usages that are paid with points, too
  Shared,      \* usages with an account-share settlement
  Calls,       \* bound: requests at a time
  NoCall,
  MaxAttempts, \* usageBillingMaxAttempts
  MaxFaults    \* bound: errors, lost commits, crashes

\* The charge is the log's, unless it has a billing_error; then it is zero.
Logs == [account : {Account[u] : u \in Usages}, error : BOOLEAN]

ASSUME BillingAssumption ==
  /\ NoValue \notin Usages \cup Logs /\ NoCall \notin Calls
  /\ Event \in [Usages -> Events]
  /\ Cost \in [Usages -> Int]
  /\ MaxAttempts \in Nat \ {0} /\ MaxFaults \in Nat

VARIABLES
  dedup,      \* per event: the fingerprint in usage_billing_dedup
  archive,    \* per event: the fingerprint in usage_billing_dedup_archive
  claimer,    \* per event: the call whose INSERT of the key is not committed
  log,        \* per event: the usage log
  late,       \* usage logs that are still to be inserted
  charged,    \* history: events with a committed charge
  forgotten,  \* history: events whose log was deleted after the charge
  settled,    \* history: events that RecordUsage has reported as charged
  pc,         \* per call: next step
  usage,      \* per call: what it delivers
  attempt,    \* per call: attempt in Apply
  faults

keyVars == <<dedup, archive, claimer>>
logVars == <<log, late>>
history == <<charged, forgotten, settled>>
callVars == <<pc, usage, attempt>>
vars == <<cacheVars, keyVars, logVars, history, callVars, faults>>

Steps == {"idle", "claim", "compare", "archive", "effects", "charged", "duplicate",
          "log", "log_error"}

TypeOK ==
  /\ CacheTypeOK
  /\ dedup \in [Events -> Usages \cup {NoValue}]
  /\ archive \in [Events -> Usages \cup {NoValue}]
  /\ claimer \in [Events -> Calls \cup {NoCall}]
  /\ log \in [Events -> Logs \cup {NoValue}]
  /\ late \subseteq Events \X Logs
  /\ charged \subseteq Events /\ forgotten \subseteq Events /\ settled \subseteq Events
  /\ pc \in [Calls -> Steps]
  /\ usage \in [Calls -> Usages \cup {NoValue}]
  /\ attempt \in [Calls -> 0..MaxAttempts]
  /\ faults \in 0..MaxFaults
  /\ \A c \in Calls : pc[c] # "idle" <=> usage[c] # NoValue
  /\ \A c \in Calls, e \in Events :
       claimer[e] = c => pc[c] \in {"archive", "effects"} /\ Event[usage[c]] = e

Init ==
  /\ CacheInit
  /\ dedup = [e \in Events |-> NoValue]
  /\ archive = [e \in Events |-> NoValue]
  /\ claimer = [e \in Events |-> NoCall]
  /\ log = [e \in Events |-> NoValue]
  /\ late = {} /\ charged = {} /\ forgotten = {} /\ settled = {}
  /\ pc = [c \in Calls |-> "idle"]
  /\ usage = [c \in Calls |-> NoValue]
  /\ attempt = [c \in Calls |-> 0]
  /\ faults = 0

-----------------------------------------------------------------------------
(* Apply: claim the key, then charge.                                      *)

Fault == faults < MaxFaults /\ faults' = faults + 1

Goto(c, step) == pc' = [pc EXCEPT ![c] = step] /\ UNCHANGED usage

EventOf(c) == Event[usage[c]]

\* A usage is delivered: RecordUsage, up to BeginTx.
RecordUsage(c) ==
  /\ pc[c] = "idle"
  /\ \E u \in Usages : usage' = [usage EXCEPT ![c] = u]
  /\ pc' = [pc EXCEPT ![c] = "claim"]
  /\ attempt' = [attempt EXCEPT ![c] = 1]
  /\ UNCHANGED <<cacheVars, keyVars, logVars, history, faults>>

\* Mutant: the claim outlives its transaction.
RollbackKeepsClaim(c) == UNCHANGED claimer

Rollback(c) == claimer' = [e \in Events |-> IF claimer[e] = c THEN NoCall ELSE claimer[e]]

\* INSERT ... ON CONFLICT DO NOTHING, which waits for an uncommitted claim.
ClaimKey(c) ==
  /\ pc[c] = "claim"
  /\ claimer[EventOf(c)] = NoCall
  /\ IF dedup[EventOf(c)] = NoValue
     THEN claimer' = [claimer EXCEPT ![EventOf(c)] = c] /\ Goto(c, "archive")
     ELSE Goto(c, "compare") /\ UNCHANGED claimer
  /\ UNCHANGED <<cacheVars, dedup, archive, logVars, history, attempt, faults>>

\* The same usage has been charged; another one, or none any more, is an error.
Compare(c, fingerprint) == Goto(c, IF fingerprint = usage[c] THEN "duplicate" ELSE "log_error")

CompareKey(c) ==
  /\ pc[c] = "compare"
  /\ Compare(c, dedup[EventOf(c)])
  /\ UNCHANGED <<cacheVars, keyVars, logVars, history, attempt, faults>>

\* The key is new; but the archive may have it, and the claim is rolled back.
CheckArchive(c) ==
  /\ pc[c] = "archive"
  /\ IF archive[EventOf(c)] = NoValue THEN Goto(c, "effects") /\ UNCHANGED claimer
     ELSE Compare(c, archive[EventOf(c)]) /\ Rollback(c)
  /\ UNCHANGED <<cacheVars, dedup, archive, logVars, history, attempt, faults>>

Entry(u, error) == [account |-> Account[u], error |-> error]

\* DO UPDATE ... WHERE billing_error IS NOT NULL AND the user and account match.
LogReplaced(e, u) == log[e] = NoValue \/ log[e] = Entry(u, TRUE)

\* ensureUsageBillingLog
EnsureLog(c) ==
  LET e == EventOf(c) IN
  IF LogReplaced(e, usage[c]) THEN log' = [log EXCEPT ![e] = Entry(usage[c], FALSE)]
  ELSE log[e] = Entry(usage[c], FALSE) /\ UNCHANGED log

\* The transaction commits: key, log and wallet.
Charge(c) ==
  /\ EnsureLog(c)
  /\ balance' = balance - Cost[usage[c]]
  /\ dedup' = [dedup EXCEPT ![EventOf(c)] = usage[c]]
  /\ charged' = charged \cup {EventOf(c)}
  /\ Rollback(c)
  /\ UNCHANGED <<archive, cache, ttl, queue, loadVars, late, forgotten, settled>>

ApplyEffects(c) ==
  /\ pc[c] = "effects"
  /\ Charge(c)
  /\ Goto(c, "charged")
  /\ UNCHANGED <<attempt, faults>>

\* The log is another account's: ErrUsageBillingRequestConflict.
LogConflict(c) ==
  /\ pc[c] = "effects"
  /\ log[EventOf(c)] # NoValue /\ log[EventOf(c)].account # Account[usage[c]]
  /\ Rollback(c)
  /\ Goto(c, "log_error")
  /\ UNCHANGED <<cacheVars, dedup, archive, logVars, history, attempt, faults>>

\* Deadlocks are retried; connection errors only for shared accounts; other
\* errors, also of the context, are not.
AfterError(c) ==
  \/ /\ attempt[c] < MaxAttempts
     /\ Goto(c, "claim")
     /\ attempt' = [attempt EXCEPT ![c] = @ + 1]
  \/ Goto(c, "log_error") /\ UNCHANGED attempt

\* A statement fails, and the transaction is rolled back.
AttemptFails(c) ==
  /\ pc[c] \in {"claim", "compare", "archive", "effects"}
  /\ Fault
  /\ Rollback(c)
  /\ AfterError(c)
  /\ UNCHANGED <<cacheVars, dedup, archive, logVars, history>>

\* The commit's answer is lost.
CommitLost(c) ==
  /\ pc[c] = "effects"
  /\ Fault
  /\ Charge(c)
  /\ IF usage[c] \in Shared THEN AfterError(c) ELSE Goto(c, "log_error") /\ UNCHANGED attempt

-----------------------------------------------------------------------------
(* After Apply: the cache and the usage log.                               *)

\* finalizePostUsageBilling
Finalize(c) ==
  /\ pc[c] = "charged"
  /\ IF usage[c] \in WithPoints
     THEN UNCHANGED queue /\ (InvalidateUserBalance \/ UNCHANGED <<cache, ttl>>)
     ELSE QueueDeductBalance(Cost[usage[c]])
  /\ Goto(c, "log")
  /\ UNCHANGED <<balance, loadVars, keyVars, logVars, history, attempt, faults>>

\* Not applied: an earlier attempt may have been, so the cache is dropped.
NotApplied(c) ==
  /\ pc[c] = "duplicate"
  /\ IF usage[c] \in Shared
     THEN InvalidateUserBalance \/ UNCHANGED <<cache, ttl>>
     ELSE UNCHANGED <<cache, ttl>>
  /\ Goto(c, "log")
  /\ UNCHANGED <<balance, queue, loadVars, keyVars, logVars, history, attempt, faults>>

\* Mutant: the last writer wins.
InsertLogAnyway(e, entry) == log' = [log EXCEPT ![e] = entry]

\* INSERT ... ON CONFLICT DO NOTHING
InsertLog(e, entry) == log' = IF log[e] = NoValue THEN [log EXCEPT ![e] = entry] ELSE log

Return(c) ==
  /\ pc' = [pc EXCEPT ![c] = "idle"]
  /\ usage' = [usage EXCEPT ![c] = NoValue]
  /\ attempt' = [attempt EXCEPT ![c] = 0]

\* writeUsageLogBestEffort, with ActualCost zero after an error.
WriteUsageLog(c) ==
  /\ pc[c] \in {"log", "log_error"}
  /\ late' = late \cup {<<EventOf(c), Entry(usage[c], pc[c] = "log_error")>>}
  /\ settled' = IF pc[c] = "log" THEN settled \cup {EventOf(c)} ELSE settled
  /\ Return(c)
  /\ UNCHANGED <<cacheVars, keyVars, log, charged, forgotten, faults>>

\* The batch writer or the fallback inserts the log at some time, or in vain.
FlushLog(e, entry) ==
  /\ <<e, entry>> \in late
  /\ late' = late \ {<<e, entry>>}
  /\ InsertLog(e, entry) \/ UNCHANGED log
  /\ UNCHANGED <<cacheVars, keyVars, history, callVars, faults>>

CallStep(c) ==
  \/ ClaimKey(c) \/ CompareKey(c) \/ CheckArchive(c) \/ ApplyEffects(c) \/ LogConflict(c)
  \/ AttemptFails(c) \/ CommitLost(c) \/ Finalize(c) \/ NotApplied(c) \/ WriteUsageLog(c)

\* The process dies, with the commit that is under way done or not.
Crash(c) ==
  /\ pc[c] # "idle"
  /\ Fault
  /\ \/ pc[c] = "effects" /\ Charge(c)
     \/ Rollback(c) /\ UNCHANGED <<cacheVars, dedup, archive, logVars, history>>
  /\ Return(c)

-----------------------------------------------------------------------------
(* Periodic work, and the cache.                                           *)

\* Mutant: old keys are deleted without a trace.
ForgetKey(e) == dedup' = [dedup EXCEPT ![e] = NoValue] /\ UNCHANGED archive

\* One statement of CleanupUsageBillingDedup.
ArchiveKey(e) ==
  /\ archive' = [archive EXCEPT ![e] = IF @ = NoValue THEN dedup[e] ELSE @]
  /\ dedup' = [dedup EXCEPT ![e] = NoValue]

CleanupUsageBillingDedup(e) ==
  /\ dedup[e] # NoValue
  /\ ArchiveKey(e)
  /\ UNCHANGED <<cacheVars, claimer, logVars, history, callVars, faults>>

\* A cleanup task or the retention deletes the log (module UsageCleanup).
DeleteUsageLog(e) ==
  /\ log[e] # NoValue
  /\ log' = [log EXCEPT ![e] = NoValue]
  /\ forgotten' = IF e \in charged THEN forgotten \cup {e} ELSE forgotten
  /\ UNCHANGED <<cacheVars, keyVars, late, charged, settled, callVars, faults>>

billingVars == <<keyVars, logVars, history, callVars>>

GetUserBalance(l) ==
  \/ (CacheMiss(l) \/ ReadBalance(l) \/ FillCache(l)) /\ UNCHANGED <<billingVars, faults>>
  \/ LoadFails(l) /\ Fault /\ UNCHANGED billingVars

CacheWorker ==
  \E i \in 1..QueueSize : \/ CacheWrite(i) /\ UNCHANGED <<billingVars, faults>>
                          \/ CacheWriteFails(i) /\ Fault /\ UNCHANGED billingVars

Expire == CacheExpires /\ UNCHANGED <<billingVars, faults>>

Next ==
  \/ \E c \in Calls : RecordUsage(c) \/ CallStep(c) \/ Crash(c)
  \/ \E e \in Events : CleanupUsageBillingDedup(e) \/ DeleteUsageLog(e)
  \/ \E e \in Events, entry \in Logs : FlushLog(e, entry)
  \/ \E l \in Loaders : GetUserBalance(l)
  \/ CacheWorker \/ Expire

Spec == Init /\ [][Next]_vars

\* The queue's workers go on, and the key's time runs out once charges no longer
\* renew it: each event is charged at most once, so they do end.
LiveSpec == Spec /\ WF_vars(CacheWorker) /\ WF_vars(Expire)

-----------------------------------------------------------------------------
(* Properties.                                                             *)

Costs == [e \in Events |-> {Cost[u] : u \in {v \in Usages : Event[v] = e}}]

Billing == INSTANCE BilledOnce WITH billed <- charged, Bills <- Costs

\* However often an event is delivered, retried after a lost commit, or archived
\* in between, it is charged once, and RecordUsage returns without an error only
\* for events that are charged.
KeepsBilling == Billing!Spec

\* A usage log with a billing error and no charge ("这条用量未产生扣费") is of an
\* event that was not charged, and one without error of an event that was, as
\* long as the charge's own log is kept: also when the error is written after
\* another delivery has been charged, and when the commit's answer was lost.
LogTellsCharge ==
  \A e \in Events \ forgotten : log[e] # NoValue => (log[e].error <=> e \notin charged)

\* Whatever order the cache's writes take, and whichever are lost: when charging
\* ends the cached balance becomes the true one.
CacheHeals == <>[](cache \in {NoValue, balance})

=============================================================================
