------------------------- MODULE UsageBillingProofs -------------------------
(***************************************************************************)
(* Proofs about UsageBilling and BalanceCache for any numbers of events,   *)
(* usages, calls, loaders, attempts and faults.                            *)
(***************************************************************************)
EXTENDS UsageBilling, SequenceTheorems, TLAPS

KeyTypes ==
  /\ dedup \in [Events -> Usages \cup {NoValue}]
  /\ archive \in [Events -> Usages \cup {NoValue}]
  /\ claimer \in [Events -> Calls \cup {NoCall}]

LogTypes ==
  /\ log \in [Events -> Logs \cup {NoValue}]
  /\ late \subseteq Events \X Logs

HistoryTypes == charged \subseteq Events /\ forgotten \subseteq Events /\ settled \subseteq Events

CallTypes ==
  /\ pc \in [Calls -> Steps]
  /\ usage \in [Calls -> Usages \cup {NoValue}]
  /\ attempt \in [Calls -> 0..MaxAttempts]
  /\ faults \in 0..MaxFaults

\* A call that is at work delivers a usage.
Busy == \A c \in Calls : pc[c] # "idle" <=> usage[c] # NoValue

\* An uncommitted claim is one of a call that is about to charge.
Claims ==
  \A c \in Calls, e \in Events :
    claimer[e] = c => pc[c] \in {"archive", "effects"} /\ Event[usage[c]] = e

LEMMA TypeParts ==
  TypeOK <=> CacheTypeOK /\ KeyTypes /\ LogTypes /\ HistoryTypes /\ CallTypes /\ Busy /\ Claims
  BY DEF TypeOK, KeyTypes, LogTypes, HistoryTypes, CallTypes, Busy, Claims

LEMMA UsageType ==
  ASSUME CallTypes, Busy, NEW c \in Calls, pc[c] # "idle"
  PROVE  /\ usage[c] \in Usages
         /\ EventOf(c) \in Events
         /\ Cost[usage[c]] \in Int
         /\ \A error \in BOOLEAN : Entry(usage[c], error) \in Logs
  <1>1. usage[c] \in Usages
    BY DEF CallTypes, Busy
  <1>2. QED
    BY <1>1, BillingAssumption DEF BillingAssumption, EventOf, Entry, Logs

-----------------------------------------------------------------------------
(* Types.                                                                  *)

LEMMA RemoveAtType ==
  ASSUME queue \in Seq(Tasks), NEW i \in DOMAIN queue
  PROVE  RemoveAt(queue, i) \in Seq(Tasks) /\ Len(RemoveAt(queue, i)) = Len(queue) - 1
  <1>1. i \in 1..Len(queue)
    OBVIOUS
  <1>2. SubSeq(queue, 1, i-1) \in Seq(Tasks) /\ Len(SubSeq(queue, 1, i-1)) = i - 1
    BY <1>1
  <1>3. SubSeq(queue, i+1, Len(queue)) \in Seq(Tasks) /\ Len(SubSeq(queue, i+1, Len(queue))) = Len(queue) - i
    BY <1>1
  <1> DEFINE front == SubSeq(queue, 1, i-1)  back == SubSeq(queue, i+1, Len(queue))
  <1>4. RemoveAt(queue, i) = front \o back
    BY DEF RemoveAt
  <1>5. front \in Seq(Tasks) /\ Len(front) = i - 1 /\ back \in Seq(Tasks) /\ Len(back) = Len(queue) - i
    BY <1>2, <1>3
  <1> HIDE DEF front, back
  <1>6. front \o back \in Seq(Tasks) /\ Len(front \o back) = Len(front) + Len(back)
    BY <1>5, ConcatProperties
  <1>7. QED
    BY <1>1, <1>4, <1>5, <1>6

LEMMA DeductTypes ==
  ASSUME CacheTypeOK, NEW amount \in Int, DeductUserBalance(amount)
  PROVE  cache' \in Int \cup {NoValue} /\ ttl' \in BOOLEAN
  <1>1. CASE cache = NoValue
    BY <1>1 DEF CacheTypeOK, DeductUserBalance
  <1>2. CASE cache # NoValue
    <2>1. cache \in Int
      BY <1>2 DEF CacheTypeOK
    <2>2. cache' = cache - amount /\ ttl' = TRUE
      BY <1>2 DEF DeductUserBalance
    <2>3. QED
      BY <2>1, <2>2
  <1>3. QED
    BY <1>1, <1>2

LEMMA EnqueueTypes ==
  ASSUME CacheTypeOK, NEW kind \in {"set_balance", "deduct_balance"}, NEW amount \in Int,
         ~Full, Enqueue(kind, amount)
  PROVE  queue' \in Seq(Tasks) /\ Len(queue') <= QueueSize
  <1>1. [kind |-> kind, amount |-> amount] \in Tasks
    BY DEF Tasks
  <1>2. queue' \in Seq(Tasks) /\ Len(queue') = Len(queue) + 1
    BY <1>1 DEF Enqueue, CacheTypeOK
  <1>3. Len(queue) \in Int /\ QueueSize \in Int /\ Len(queue) < QueueSize
    BY CacheAssumption DEF CacheAssumption, Full, CacheTypeOK
  <1>4. QED
    BY <1>2, <1>3

\* No step of the cache's own changes anything else, nor the balance.
LEMMA CacheStepTypes ==
  ASSUME CacheTypeOK,
         \/ \E l \in Loaders : CacheMiss(l) \/ ReadBalance(l) \/ FillCache(l) \/ LoadFails(l)
         \/ \E i \in 1..QueueSize : CacheWrite(i) \/ CacheWriteFails(i)
         \/ CacheExpires
  PROVE  CacheTypeOK' /\ balance' = balance
  <1>1. ASSUME NEW l \in Loaders, CacheMiss(l) \/ ReadBalance(l) \/ LoadFails(l)
        PROVE  CacheTypeOK' /\ balance' = balance
    BY <1>1 DEF CacheMiss, ReadBalance, LoadFails, LoadEnds, CacheTypeOK
  <1>2. ASSUME NEW l \in Loaders, FillCache(l) PROVE CacheTypeOK' /\ balance' = balance
    <2>1. read[l] \in Int
      BY DEF CacheTypeOK
    <2>2. queue' \in Seq(Tasks) /\ Len(queue') <= QueueSize
      BY <1>2, <2>1, EnqueueTypes DEF FillCache, CacheTypeOK
    <2>3. QED
      BY <1>2, <2>2 DEF FillCache, LoadEnds, CacheTypeOK
  <1>3. ASSUME NEW i \in 1..QueueSize, CacheWrite(i) \/ CacheWriteFails(i)
        PROVE  CacheTypeOK' /\ balance' = balance
    <2>1. i \in DOMAIN queue /\ queue' = RemoveAt(queue, i) /\ UNCHANGED <<balance, loadVars>>
      BY <1>3 DEF CacheWrite, CacheWriteFails
    <2>2. queue' \in Seq(Tasks) /\ Len(queue') = Len(queue) - 1
      BY <2>1, RemoveAtType DEF CacheTypeOK
    <2>3. Len(queue') <= QueueSize
      BY <2>2, CacheAssumption DEF CacheAssumption, CacheTypeOK
    <2>4. queue[i].amount \in Int
      <3>1. queue[i] \in Tasks
        BY <2>1 DEF CacheTypeOK
      <3>2. QED
        BY <3>1 DEF Tasks
    <2>5. cache' \in Int \cup {NoValue} /\ ttl' \in BOOLEAN
      BY <1>3, <2>4, DeductTypes DEF CacheWrite, CacheWriteFails, SetUserBalance, CacheTypeOK
    <2>6. QED
      BY <2>1, <2>2, <2>3, <2>5 DEF CacheTypeOK, loadVars
  <1>4. CASE CacheExpires
    BY <1>4 DEF CacheExpires, InvalidateUserBalance, CacheTypeOK, loadVars
  <1>5. QED
    BY <1>1, <1>2, <1>3, <1>4

\* What a committed charge changes.
LEMMA ChargeTypes ==
  ASSUME TypeOK, NEW c \in Calls, pc[c] # "idle", Charge(c)
  PROVE  CacheTypeOK' /\ KeyTypes' /\ LogTypes' /\ HistoryTypes'
  <1>1. /\ usage[c] \in Usages /\ EventOf(c) \in Events /\ Cost[usage[c]] \in Int
        /\ Entry(usage[c], FALSE) \in Logs
    BY TypeParts, UsageType
  <1>2. CacheTypeOK'
    BY <1>1, TypeParts DEF Charge, CacheTypeOK, loadVars
  <1>3. KeyTypes'
    BY <1>1, TypeParts DEF Charge, Rollback, KeyTypes
  <1>4. LogTypes'
    BY <1>1, TypeParts DEF Charge, EnsureLog, LogTypes
  <1>5. HistoryTypes'
    BY <1>1, TypeParts DEF Charge, HistoryTypes
  <1>6. QED
    BY <1>2, <1>3, <1>4, <1>5

LEMMA RollbackClaims ==
  ASSUME KeyTypes, Claims, NEW c \in Calls, Rollback(c),
         \A d \in Calls \ {c} : pc'[d] = pc[d] /\ usage'[d] = usage[d]
  PROVE  Claims'
  BY BillingAssumption DEF BillingAssumption, Claims, Rollback, KeyTypes

LEMMA InitTypeOK == Init => TypeOK
  <1> SUFFICES ASSUME Init PROVE TypeOK
    OBVIOUS
  <1>1. CacheTypeOK
    <2>1. <<>> \in Seq(Tasks) /\ Len(<<>>) <= QueueSize
      BY CacheAssumption DEF CacheAssumption
    <2>2. load \in [Loaders -> {"idle", "missed", "read"}] /\ read \in [Loaders -> Int]
      BY DEF Init, CacheInit
    <2>3. balance \in Int /\ cache \in Int \cup {NoValue} /\ ttl \in BOOLEAN /\ queue = <<>>
      BY CacheAssumption DEF Init, CacheInit, CacheAssumption
    <2>4. QED
      BY <2>1, <2>2, <2>3 DEF CacheTypeOK
  <1>2. KeyTypes /\ LogTypes /\ HistoryTypes
    BY DEF Init, KeyTypes, LogTypes, HistoryTypes
  <1>3. CallTypes /\ Busy /\ Claims
    BY BillingAssumption DEF Init, BillingAssumption, CallTypes, Busy, Claims, Steps
  <1>4. QED
    BY <1>1, <1>2, <1>3, TypeParts

LEMMA StepTypeOK == TypeOK /\ [Next]_vars => TypeOK'
  <1> SUFFICES ASSUME TypeOK, [Next]_vars PROVE TypeOK'
    OBVIOUS
  <1> DEFINE Goal == TypeOK'
  <1>a. CacheTypeOK /\ KeyTypes /\ LogTypes /\ HistoryTypes /\ CallTypes /\ Busy /\ Claims
    BY TypeParts
  <1>b. TypeOK' <=> CacheTypeOK' /\ KeyTypes' /\ LogTypes' /\ HistoryTypes' /\ CallTypes' /\ Busy' /\ Claims'
    BY DEF TypeOK, KeyTypes, LogTypes, HistoryTypes, CallTypes, Busy, Claims
  <1>c. (UNCHANGED cacheVars => CacheTypeOK') /\ (UNCHANGED keyVars => KeyTypes')
        /\ (UNCHANGED logVars => LogTypes') /\ (UNCHANGED history => HistoryTypes')
        /\ (UNCHANGED <<callVars, faults>> => CallTypes' /\ Busy')
        /\ (UNCHANGED <<callVars, claimer>> => Claims')
    BY <1>a DEF cacheVars, loadVars, keyVars, logVars, history, callVars, CacheTypeOK, KeyTypes,
       LogTypes, HistoryTypes, CallTypes, Busy, Claims
  <1> USE BillingAssumption DEF BillingAssumption
  <1>1. ASSUME NEW c \in Calls, RecordUsage(c) PROVE Goal
    <2>1. CallTypes' /\ Busy' /\ Claims'
      BY <1>1, <1>a DEF RecordUsage, keyVars, CallTypes, Busy, Claims, Steps
    <2>2. QED
      BY <1>1, <1>b, <1>c, <2>1 DEF RecordUsage
  <1>2. ASSUME NEW c \in Calls, ClaimKey(c) PROVE Goal
    <2>1. EventOf(c) \in Events
      BY <1>2, <1>a, UsageType DEF ClaimKey
    <2>2. KeyTypes'
      BY <1>2, <1>a, <2>1 DEF ClaimKey, KeyTypes
    <2>3. CallTypes' /\ Busy'
      BY <1>2, <1>a DEF ClaimKey, Goto, CallTypes, Busy, Steps
    <2>4. Claims'
      BY <1>2, <1>a, <2>1 DEF ClaimKey, Goto, Claims, KeyTypes, CallTypes, EventOf
    <2>5. QED
      BY <1>2, <1>b, <1>c, <2>2, <2>3, <2>4 DEF ClaimKey
  <1>3. ASSUME NEW c \in Calls, CompareKey(c) PROVE Goal
    <2>1. CallTypes' /\ Busy' /\ Claims'
      BY <1>3, <1>a DEF CompareKey, Compare, Goto, keyVars, CallTypes, Busy, Claims, Steps
    <2>2. QED
      BY <1>3, <1>b, <1>c, <2>1 DEF CompareKey
  <1>4. ASSUME NEW c \in Calls, CheckArchive(c) PROVE Goal
    <2>1. KeyTypes'
      BY <1>4, <1>a DEF CheckArchive, Rollback, KeyTypes
    <2>2. CallTypes' /\ Busy'
      BY <1>4, <1>a DEF CheckArchive, Compare, Goto, CallTypes, Busy, Steps
    <2>3. Claims'
      BY <1>4, <1>a DEF CheckArchive, Compare, Goto, Rollback, Claims, KeyTypes, CallTypes
    <2>4. QED
      BY <1>4, <1>b, <1>c, <2>1, <2>2, <2>3 DEF CheckArchive
  <1>5. ASSUME NEW c \in Calls, ApplyEffects(c) \/ CommitLost(c) PROVE Goal
    <2>1. /\ pc[c] = "effects" /\ Charge(c)
          /\ \E s \in {"charged", "claim", "log_error"} : Goto(c, s)
          /\ \/ UNCHANGED attempt
             \/ attempt[c] < MaxAttempts /\ attempt' = [attempt EXCEPT ![c] = @ + 1]
          /\ UNCHANGED faults \/ Fault
      <3>1. CASE ApplyEffects(c)
        BY <3>1 DEF ApplyEffects
      <3>2. CASE CommitLost(c)
        BY <3>2 DEF CommitLost, AfterError
      <3>3. QED
        BY <1>5, <3>1, <3>2
    <2>2. CacheTypeOK' /\ KeyTypes' /\ LogTypes' /\ HistoryTypes'
      BY <2>1, ChargeTypes
    <2>3. CallTypes' /\ Busy'
      BY <2>1, <1>a DEF Goto, Fault, CallTypes, Busy, Steps
    <2>4. Claims'
      BY <2>1, <1>a, RollbackClaims DEF Charge, Goto, CallTypes
    <2>5. QED
      BY <1>b, <2>2, <2>3, <2>4
  <1>6. ASSUME NEW c \in Calls, LogConflict(c) \/ AttemptFails(c) PROVE Goal
    <2>1. /\ pc[c] # "idle" /\ Rollback(c)
          /\ \E s \in {"claim", "log_error"} : Goto(c, s)
          /\ \/ UNCHANGED attempt
             \/ attempt[c] < MaxAttempts /\ attempt' = [attempt EXCEPT ![c] = @ + 1]
          /\ UNCHANGED faults \/ Fault
          /\ UNCHANGED <<cacheVars, dedup, archive, logVars, history>>
      <3>1. CASE LogConflict(c)
        BY <3>1 DEF LogConflict
      <3>2. CASE AttemptFails(c)
        BY <3>2 DEF AttemptFails, AfterError
      <3>3. QED
        BY <1>6, <3>1, <3>2
    <2>2. KeyTypes'
      BY <2>1, <1>a DEF Rollback, KeyTypes
    <2>3. CallTypes' /\ Busy'
      BY <2>1, <1>a DEF Goto, Fault, CallTypes, Busy, Steps
    <2>4. Claims'
      BY <2>1, <1>a, RollbackClaims DEF Goto, CallTypes
    <2>5. QED
      BY <2>1, <1>b, <1>c, <2>2, <2>3, <2>4
  <1>7. ASSUME NEW c \in Calls, Finalize(c) \/ NotApplied(c) PROVE Goal
    <2>1. Cost[usage[c]] \in Int
      BY <1>7, <1>a, UsageType DEF Finalize, NotApplied
    <2>2. /\ pc[c] \in {"charged", "duplicate"} /\ Goto(c, "log")
          /\ UNCHANGED <<balance, loadVars, keyVars, logVars, history, attempt, faults>>
          /\ \/ UNCHANGED queue /\ (InvalidateUserBalance \/ UNCHANGED <<cache, ttl>>)
             \/ QueueDeductBalance(Cost[usage[c]])
      BY <1>7 DEF Finalize, NotApplied
    <2>3. /\ queue' \in Seq(Tasks) /\ Len(queue') <= QueueSize
          /\ cache' \in Int \cup {NoValue} /\ ttl' \in BOOLEAN
      <3>1. CASE UNCHANGED queue /\ (InvalidateUserBalance \/ UNCHANGED <<cache, ttl>>)
        BY <3>1, <1>a DEF InvalidateUserBalance, CacheTypeOK
      <3>2. CASE QueueDeductBalance(Cost[usage[c]])
        BY <3>2, <1>a, <2>1, DeductTypes, EnqueueTypes DEF QueueDeductBalance, CacheTypeOK
      <3>3. QED
        BY <2>2, <3>1, <3>2
    <2>4. CacheTypeOK'
      BY <2>2, <2>3, <1>a DEF CacheTypeOK, loadVars
    <2>5. CallTypes' /\ Busy' /\ Claims'
      BY <2>2, <1>a DEF Goto, keyVars, CallTypes, Busy, Claims, Steps
    <2>6. QED
      BY <2>2, <2>4, <2>5, <1>b, <1>c
  <1>8. ASSUME NEW c \in Calls, WriteUsageLog(c) PROVE Goal
    <2>1. EventOf(c) \in Events /\ Entry(usage[c], pc[c] = "log_error") \in Logs
      BY <1>8, <1>a, UsageType DEF WriteUsageLog
    <2>2. LogTypes' /\ HistoryTypes'
      BY <1>8, <1>a, <2>1 DEF WriteUsageLog, LogTypes, HistoryTypes
    <2>3. CallTypes' /\ Busy' /\ Claims'
      BY <1>8, <1>a DEF WriteUsageLog, Return, keyVars, CallTypes, Busy, Claims, Steps
    <2>4. QED
      BY <1>8, <1>b, <1>c, <2>2, <2>3 DEF WriteUsageLog
  <1>9. ASSUME NEW c \in Calls, Crash(c) PROVE Goal
    <2>1. CacheTypeOK' /\ KeyTypes' /\ LogTypes' /\ HistoryTypes' /\ Rollback(c)
      <3>1. CASE Charge(c)
        BY <3>1, <1>9, ChargeTypes DEF Crash, Charge
      <3>2. CASE Rollback(c) /\ UNCHANGED <<cacheVars, dedup, archive, logVars, history>>
        BY <3>2, <1>a, <1>c DEF Rollback, KeyTypes
      <3>3. QED
        BY <1>9, <3>1, <3>2 DEF Crash
    <2>2. CallTypes' /\ Busy'
      BY <1>9, <1>a DEF Crash, Return, Fault, CallTypes, Busy, Steps
    <2>3. Claims'
      BY <1>9, <2>1, <1>a, RollbackClaims DEF Crash, Return, CallTypes
    <2>4. QED
      BY <2>1, <2>2, <2>3, <1>b
  <1>10. ASSUME NEW e \in Events, CleanupUsageBillingDedup(e) PROVE Goal
    <2>1. KeyTypes'
      BY <1>10, <1>a DEF CleanupUsageBillingDedup, ArchiveKey, KeyTypes
    <2>2. QED
      BY <1>10, <1>b, <1>c, <2>1 DEF CleanupUsageBillingDedup
  <1>11. ASSUME NEW e \in Events, DeleteUsageLog(e) PROVE Goal
    <2>1. LogTypes' /\ HistoryTypes'
      BY <1>11, <1>a DEF DeleteUsageLog, LogTypes, HistoryTypes
    <2>2. QED
      BY <1>11, <1>b, <1>c, <2>1 DEF DeleteUsageLog, keyVars
  <1>12. ASSUME NEW e \in Events, NEW entry \in Logs, FlushLog(e, entry) PROVE Goal
    <2>1. LogTypes'
      BY <1>12, <1>a DEF FlushLog, InsertLog, LogTypes
    <2>2. QED
      BY <1>12, <1>b, <1>c, <2>1 DEF FlushLog, keyVars
  <1>13. CASE (\E l \in Loaders : GetUserBalance(l)) \/ CacheWorker \/ Expire
    <2>1. UNCHANGED billingVars /\ (UNCHANGED faults \/ Fault)
      BY <1>13 DEF GetUserBalance, CacheWorker, Expire
    <2>2. CacheTypeOK'
      BY <1>13, <1>a, CacheStepTypes DEF GetUserBalance, CacheWorker, Expire
    <2>3. CallTypes' /\ Busy'
      BY <2>1, <1>a DEF billingVars, callVars, Fault, CallTypes, Busy
    <2>4. QED
      BY <2>1, <2>2, <2>3, <1>b, <1>c DEF billingVars, keyVars
  <1>14. CASE UNCHANGED vars
    BY <1>14, <1>b, <1>c DEF vars, keyVars
  <1>15. QED
    BY <1>1, <1>2, <1>3, <1>4, <1>5, <1>6, <1>7, <1>8, <1>9, <1>10, <1>11, <1>12, <1>13, <1>14
       DEF Next, CallStep

\* Every variable keeps its type, and an uncommitted claim belongs to a call that
\* is about to charge the event.
THEOREM TypeCorrect == Spec => []TypeOK
  BY InitTypeOK, StepTypeOK, PTL DEF Spec

-----------------------------------------------------------------------------
(* Charges: keys, claims and logs.                                         *)

\* An event is charged exactly when its key is kept, in either table, and a key
\* that is claimed is not in the first.
KeysTell ==
  \A e \in Events :
    /\ e \in charged <=> dedup[e] # NoValue \/ archive[e] # NoValue
    /\ claimer[e] # NoCall => dedup[e] = NoValue

\* Who is about to charge has claimed the key, and found no archived one.
ClaimIsNew ==
  \A c \in Calls :
    /\ pc[c] \in {"archive", "effects"} => claimer[EventOf(c)] = c
    /\ pc[c] = "effects" => archive[EventOf(c)] = NoValue

\* Who is about to return without an error delivers a charged event.
ReturnIsTrue == \A c \in Calls : pc[c] \in {"charged", "duplicate", "log"} => EventOf(c) \in charged

\* A log that is on its way without an error is a charged event's.
LateIsTrue == \A e \in Events, entry \in Logs : <<e, entry>> \in late /\ ~entry.error => e \in charged

\* A charged event's log stays, without an error, until it is deleted.
LogsTell ==
  \A e \in Events :
    /\ e \in charged \ forgotten => log[e] # NoValue /\ ~log[e].error
    /\ e \notin charged => log[e] = NoValue \/ log[e].error
    /\ e \in forgotten => e \in charged

IInv == TypeOK /\ KeysTell /\ ClaimIsNew /\ ReturnIsTrue /\ LateIsTrue /\ LogsTell

LEMMA InitIInv == Init => IInv
  BY InitTypeOK DEF Init, IInv, KeysTell, ClaimIsNew, ReturnIsTrue, LateIsTrue, LogsTell

LEMMA EntryFields ==
  ASSUME NEW u, NEW error
  PROVE  Entry(u, error) = [account |-> Account[u], error |-> error] /\ Entry(u, error).error = error
  BY DEF Entry

LEMMA LogsAreRecords ==
  ASSUME TypeOK, NEW e \in Events, log[e] # NoValue
  PROVE  log[e] \in Logs /\ log[e].error \in BOOLEAN
  BY TypeParts DEF LogTypes, Logs

\* Only the holder of a claim charges, and only an event that was not charged.
LEMMA ChargeIsFirst ==
  ASSUME IInv, NEW c \in Calls, pc[c] = "effects"
  PROVE  /\ EventOf(c) \in Events \ charged
         /\ claimer[EventOf(c)] = c
         /\ \A d \in Calls \ {c}, e \in {EventOf(c)} :
              pc[d] \in {"archive", "effects"} => EventOf(d) # e
  <1>1. EventOf(c) \in Events
    BY TypeParts, UsageType DEF IInv
  <1>2. claimer[EventOf(c)] = c /\ archive[EventOf(c)] = NoValue
    BY DEF IInv, ClaimIsNew
  <1>3. dedup[EventOf(c)] = NoValue
    BY <1>1, <1>2, BillingAssumption DEF IInv, KeysTell, BillingAssumption
  <1>4. QED
    BY <1>1, <1>2, <1>3 DEF IInv, KeysTell, ClaimIsNew

\* What a charge does to the invariant, whatever becomes of its call.
LEMMA ChargeKeeps ==
  ASSUME IInv, NEW c \in Calls, pc[c] = "effects", Charge(c), CallTypes', Busy',
         pc' = [pc EXCEPT ![c] = pc'[c]], pc'[c] \in Steps \ {"archive", "effects", "compare"},
         usage' = [usage EXCEPT ![c] = usage'[c]], usage'[c] = usage[c] \/ pc'[c] = "idle"
  PROVE  KeysTell' /\ ClaimIsNew' /\ ReturnIsTrue' /\ LateIsTrue' /\ LogsTell'
  <1> DEFINE e == EventOf(c)
  <1>a. CacheTypeOK /\ KeyTypes /\ LogTypes /\ HistoryTypes /\ CallTypes /\ Busy /\ Claims
    BY TypeParts DEF IInv
  <1>b. /\ e \in Events /\ e \notin charged /\ usage[c] \in Usages /\ usage[c] # NoValue
        /\ claimer[e] = c
    BY <1>a, ChargeIsFirst, UsageType, BillingAssumption DEF BillingAssumption
  <1>c. /\ dedup' = [dedup EXCEPT ![e] = usage[c]] /\ archive' = archive
        /\ charged' = charged \cup {e}
        /\ forgotten' = forgotten /\ late' = late
        /\ claimer' = [f \in Events |-> IF claimer[f] = c THEN NoCall ELSE claimer[f]]
    BY DEF Charge, Rollback
  <1>d. \A d \in Calls \ {c} : pc'[d] = pc[d] /\ usage'[d] = usage[d] /\ EventOf(d)' = EventOf(d)
    BY <1>a DEF CallTypes, EventOf
  <1> HIDE DEF e
  <1>1. KeysTell'
    BY <1>a, <1>b, <1>c, BillingAssumption DEF IInv, KeysTell, KeyTypes, BillingAssumption
  <1>2. ClaimIsNew'
    <2> SUFFICES ASSUME NEW d \in Calls
                 PROVE  /\ pc'[d] \in {"archive", "effects"} => claimer'[EventOf(d)'] = d
                        /\ pc'[d] = "effects" => archive'[EventOf(d)'] = NoValue
      BY DEF ClaimIsNew
    <2>1. CASE d = c
      BY <2>1
    <2>2. CASE d # c
      <3>1. pc[d] # "idle" => EventOf(d) \in Events
        BY <1>a, UsageType
      <3>2. QED
        BY <1>c, <1>d, <2>2, <3>1 DEF IInv, ClaimIsNew
    <2>3. QED
      BY <2>1, <2>2
  <1>3. ReturnIsTrue'
    <2>1. usage'[c] = usage[c] => EventOf(c)' = e
      BY DEF e, EventOf
    <2>2. QED
      BY <1>c, <1>d, <2>1 DEF IInv, ReturnIsTrue
  <1>4. LateIsTrue'
    BY <1>c DEF IInv, LateIsTrue
  <1>5. LogsTell'
    <2>a. Entry(usage[c], FALSE) \in Logs /\ Entry(usage[c], FALSE) # NoValue
      BY <1>a, UsageType, BillingAssumption DEF BillingAssumption
    <2>1. log'[e] # NoValue /\ ~log'[e].error /\ \A f \in Events \ {e} : log'[f] = log[f]
      <3>1. CASE log' = [log EXCEPT ![e] = Entry(usage[c], FALSE)]
        BY <3>1, <2>a, <1>a, <1>b, EntryFields DEF LogTypes
      <3>2. CASE log[e] = Entry(usage[c], FALSE) /\ log' = log
        <4>1. log[e] = NoValue \/ log[e].error
          BY <1>b DEF IInv, LogsTell
        <4>2. log[e] = [account |-> Account[usage[c]], error |-> FALSE]
          BY <3>2 DEF Entry
        <4>3. ~log[e].error
          BY <4>2
        <4>4. QED
          BY <3>2, <2>a, <4>1, <4>3
      <3>3. QED
        BY <3>1, <3>2 DEF Charge, EnsureLog, e
    <2>2. QED
      BY <1>b, <1>c, <2>1 DEF IInv, LogsTell
  <1>6. QED
    BY <1>1, <1>2, <1>3, <1>4, <1>5

\* A call that gives up its claim, or moves on without one.
LEMMA RollbackKeeps ==
  ASSUME IInv, NEW c \in Calls, Rollback(c), CallTypes',
         UNCHANGED <<dedup, archive, log, late, charged, forgotten>>,
         pc' = [pc EXCEPT ![c] = pc'[c]],
         usage' = [usage EXCEPT ![c] = usage'[c]],
         \/ pc'[c] \in {"idle", "claim", "log_error"}
         \/ pc'[c] = "duplicate" /\ usage'[c] = usage[c] /\ EventOf(c) \in charged
  PROVE  KeysTell' /\ ClaimIsNew' /\ ReturnIsTrue' /\ LateIsTrue' /\ LogsTell'
  <1>a. CacheTypeOK /\ KeyTypes /\ LogTypes /\ HistoryTypes /\ CallTypes /\ Busy /\ Claims
    BY TypeParts DEF IInv
  <1>c. claimer' = [f \in Events |-> IF claimer[f] = c THEN NoCall ELSE claimer[f]]
    BY DEF Rollback
  <1>d. \A d \in Calls \ {c} : pc'[d] = pc[d] /\ usage'[d] = usage[d] /\ EventOf(d)' = EventOf(d)
    BY <1>a DEF CallTypes, EventOf
  <1>1. KeysTell'
    BY <1>c DEF IInv, KeysTell
  <1>2. ClaimIsNew'
    <2>1. \A d \in Calls : pc[d] # "idle" => EventOf(d) \in Events
      BY <1>a, UsageType
    <2>2. QED
      BY <1>c, <1>d, <2>1 DEF IInv, ClaimIsNew
  <1>3. ReturnIsTrue'
    <2>1. usage'[c] = usage[c] => EventOf(c)' = EventOf(c)
      BY DEF EventOf
    <2>2. QED
      BY <1>d, <2>1 DEF IInv, ReturnIsTrue
  <1>4. LateIsTrue' /\ LogsTell'
    BY DEF IInv, LateIsTrue, LogsTell
  <1>5. QED
    BY <1>1, <1>2, <1>3, <1>4

LEMMA StepIInv == IInv /\ [Next]_vars => IInv'
  <1> SUFFICES ASSUME IInv, [Next]_vars PROVE IInv'
    OBVIOUS
  <1>a. CacheTypeOK /\ KeyTypes /\ LogTypes /\ HistoryTypes /\ CallTypes /\ Busy /\ Claims
    BY TypeParts DEF IInv
  <1>b. TypeOK' /\ CallTypes' /\ Busy'
    BY StepTypeOK DEF IInv, TypeOK, CallTypes, Busy
  <1> DEFINE Goal == KeysTell' /\ ClaimIsNew' /\ ReturnIsTrue' /\ LateIsTrue' /\ LogsTell'
  <1>c. \A c \in Calls : pc[c] # "idle" => EventOf(c) \in Events /\ usage[c] \in Usages \ {NoValue}
    BY <1>a, UsageType, BillingAssumption DEF BillingAssumption
  <1>1. ASSUME NEW c \in Calls, RecordUsage(c) PROVE Goal
    <2>1. \A d \in Calls \ {c} : pc'[d] = pc[d] /\ EventOf(d)' = EventOf(d)
      BY <1>1, <1>a DEF RecordUsage, CallTypes, EventOf
    <2>2. pc'[c] = "claim"
      BY <1>1, <1>a DEF RecordUsage, CallTypes
    <2>3. QED
      BY <1>1, <2>1, <2>2 DEF RecordUsage, keyVars, logVars, history, IInv, KeysTell, ClaimIsNew,
         ReturnIsTrue, LateIsTrue, LogsTell
  <1>2. ASSUME NEW c \in Calls, ClaimKey(c) PROVE Goal
    <2>1. \A d \in Calls : EventOf(d)' = EventOf(d)
      BY <1>2 DEF ClaimKey, Goto, EventOf
    <2>2. /\ EventOf(c) \in Events /\ claimer[EventOf(c)] = NoCall
          /\ UNCHANGED <<dedup, archive, log, late, charged, forgotten>>
          /\ pc'[c] \in {"archive", "compare"} /\ \A d \in Calls \ {c} : pc'[d] = pc[d]
          /\ \/ dedup[EventOf(c)] = NoValue /\ claimer' = [claimer EXCEPT ![EventOf(c)] = c]
             \/ claimer' = claimer /\ pc'[c] = "compare"
      BY <1>2, <1>a, <1>c DEF ClaimKey, Goto, logVars, history, CallTypes
    <2>3. KeysTell'
      BY <2>2, <1>a DEF IInv, KeysTell, KeyTypes
    <2>4. ClaimIsNew'
      <3>1. \A d \in Calls \ {c} : pc[d] \in {"archive", "effects"} => EventOf(d) # EventOf(c)
        BY <2>2, BillingAssumption DEF IInv, ClaimIsNew, BillingAssumption
      <3>2. QED
        BY <2>1, <2>2, <3>1, <1>a, <1>c DEF IInv, ClaimIsNew, KeyTypes
    <2>5. ReturnIsTrue' /\ LateIsTrue' /\ LogsTell'
      BY <2>1, <2>2 DEF IInv, ReturnIsTrue, LateIsTrue, LogsTell
    <2>6. QED
      BY <2>3, <2>4, <2>5
  <1>3. ASSUME NEW c \in Calls, CompareKey(c) PROVE Goal
    <2>1. \A d \in Calls : EventOf(d)' = EventOf(d)
      BY <1>3 DEF CompareKey, Compare, Goto, EventOf
    <2>2. /\ UNCHANGED <<keyVars, log, late, charged, forgotten>>
          /\ pc'[c] \in {"duplicate", "log_error"} /\ \A d \in Calls \ {c} : pc'[d] = pc[d]
          /\ pc'[c] = "duplicate" => dedup[EventOf(c)] = usage[c]
      BY <1>3, <1>a DEF CompareKey, Compare, Goto, logVars, history, CallTypes
    <2>3. pc'[c] = "duplicate" => EventOf(c) \in charged
      BY <1>3, <2>2, <1>c DEF CompareKey, IInv, KeysTell
    <2>4. QED
      BY <2>1, <2>2, <2>3 DEF keyVars, IInv, KeysTell, ClaimIsNew, ReturnIsTrue, LateIsTrue, LogsTell
  <1>4. ASSUME NEW c \in Calls, CheckArchive(c) PROVE Goal
    <2>1. CASE archive[EventOf(c)] = NoValue
      <3>1. /\ UNCHANGED <<keyVars, log, late, charged, forgotten, usage>>
            /\ pc[c] = "archive" /\ pc'[c] = "effects" /\ \A d \in Calls \ {c} : pc'[d] = pc[d]
        BY <1>4, <2>1, <1>a DEF CheckArchive, Goto, logVars, history, keyVars, CallTypes
      <3>2. \A d \in Calls : EventOf(d)' = EventOf(d)
        BY <3>1 DEF EventOf
      <3>3. QED
        BY <2>1, <3>1, <3>2 DEF keyVars, IInv, KeysTell, ClaimIsNew, ReturnIsTrue, LateIsTrue, LogsTell
    <2>2. CASE archive[EventOf(c)] # NoValue
      <3>1. /\ Rollback(c) /\ UNCHANGED <<dedup, archive, log, late, charged, forgotten, usage>>
            /\ pc' = [pc EXCEPT ![c] = pc'[c]] /\ pc'[c] \in {"duplicate", "log_error"}
        BY <1>4, <2>2, <1>a DEF CheckArchive, Compare, Goto, logVars, history, CallTypes
      <3>2. EventOf(c) \in charged
        BY <1>4, <2>2, <1>c DEF CheckArchive, IInv, KeysTell
      <3>3. usage' = [usage EXCEPT ![c] = usage'[c]]
        BY <3>1, <1>a DEF CallTypes
      <3>4. QED
        BY <3>1, <3>2, <3>3, <1>b, RollbackKeeps
    <2>3. QED
      BY <2>1, <2>2
  <1>5. ASSUME NEW c \in Calls, ApplyEffects(c) \/ CommitLost(c) PROVE Goal
    <2>1. pc[c] = "effects" /\ Charge(c) /\ \E s \in {"charged", "claim", "log_error"} : Goto(c, s)
      <3>1. CASE ApplyEffects(c)
        BY <3>1 DEF ApplyEffects
      <3>2. CASE CommitLost(c)
        BY <3>2 DEF CommitLost, AfterError
      <3>3. QED
        BY <1>5, <3>1, <3>2
    <2>2. /\ pc' = [pc EXCEPT ![c] = pc'[c]] /\ pc'[c] \in Steps \ {"archive", "effects", "compare"}
          /\ usage' = [usage EXCEPT ![c] = usage'[c]] /\ usage'[c] = usage[c]
      BY <2>1, <1>a DEF Goto, CallTypes, Steps
    <2>3. QED
      BY <2>1, <2>2, <1>b, ChargeKeeps
  <1>6. ASSUME NEW c \in Calls, LogConflict(c) \/ AttemptFails(c) PROVE Goal
    <2>1. /\ Rollback(c) /\ UNCHANGED <<dedup, archive, log, late, charged, forgotten>>
          /\ \E s \in {"claim", "log_error"} : Goto(c, s)
      <3>1. CASE LogConflict(c)
        BY <3>1 DEF LogConflict, logVars, history
      <3>2. CASE AttemptFails(c)
        BY <3>2 DEF AttemptFails, AfterError, logVars, history
      <3>3. QED
        BY <1>6, <3>1, <3>2
    <2>2. /\ pc' = [pc EXCEPT ![c] = pc'[c]] /\ pc'[c] \in {"claim", "log_error"}
          /\ usage' = [usage EXCEPT ![c] = usage'[c]]
      BY <2>1, <1>a DEF Goto, CallTypes
    <2>3. QED
      BY <2>1, <2>2, <1>b, RollbackKeeps
  <1>7. ASSUME NEW c \in Calls, Finalize(c) \/ NotApplied(c) PROVE Goal
    <2>1. /\ pc[c] \in {"charged", "duplicate"} /\ Goto(c, "log")
          /\ UNCHANGED <<keyVars, logVars, history>>
      BY <1>7 DEF Finalize, NotApplied
    <2>2. /\ pc'[c] = "log" /\ \A d \in Calls \ {c} : pc'[d] = pc[d]
          /\ \A d \in Calls : EventOf(d)' = EventOf(d)
      BY <2>1, <1>a DEF Goto, CallTypes, EventOf
    <2>3. QED
      BY <2>1, <2>2 DEF keyVars, logVars, history, IInv, KeysTell, ClaimIsNew, ReturnIsTrue,
         LateIsTrue, LogsTell
  <1>8. ASSUME NEW c \in Calls, WriteUsageLog(c) PROVE Goal
    <2> DEFINE entry == Entry(usage[c], pc[c] = "log_error")
    <2>1. /\ UNCHANGED <<keyVars, log, charged, forgotten>>
          /\ late' = late \cup {<<EventOf(c), entry>>}
          /\ pc'[c] = "idle" /\ \A d \in Calls \ {c} : pc'[d] = pc[d] /\ EventOf(d)' = EventOf(d)
      BY <1>8, <1>a DEF WriteUsageLog, Return, CallTypes, EventOf
    <2>2. ~entry.error => EventOf(c) \in charged
      <3>1. entry.error = (pc[c] = "log_error") /\ pc[c] \in {"log", "log_error"}
        BY <1>8, EntryFields DEF WriteUsageLog
      <3>2. QED
        BY <3>1 DEF IInv, ReturnIsTrue
    <2> HIDE DEF entry
    <2>3. LateIsTrue'
      BY <2>1, <2>2 DEF IInv, LateIsTrue
    <2>4. QED
      BY <2>1, <2>3 DEF keyVars, IInv, KeysTell, ClaimIsNew, ReturnIsTrue, LogsTell
  <1>9. ASSUME NEW c \in Calls, Crash(c) PROVE Goal
    <2>1. /\ pc' = [pc EXCEPT ![c] = pc'[c]] /\ pc'[c] = "idle"
          /\ usage' = [usage EXCEPT ![c] = usage'[c]]
      BY <1>9, <1>a DEF Crash, Return, CallTypes
    <2>2. CASE pc[c] = "effects" /\ Charge(c)
      BY <2>1, <2>2, <1>b, ChargeKeeps DEF Steps
    <2>3. CASE Rollback(c) /\ UNCHANGED <<cacheVars, dedup, archive, logVars, history>>
      BY <2>1, <2>3, <1>b, RollbackKeeps DEF logVars, history
    <2>4. QED
      BY <1>9, <2>2, <2>3 DEF Crash
  <1>10. ASSUME NEW e \in Events, CleanupUsageBillingDedup(e) PROVE Goal
    <2>1. /\ UNCHANGED <<claimer, log, late, charged, forgotten, pc, usage>>
          /\ dedup[e] # NoValue /\ dedup' = [dedup EXCEPT ![e] = NoValue]
          /\ archive' = [archive EXCEPT ![e] = IF @ = NoValue THEN dedup[e] ELSE @]
      BY <1>10 DEF CleanupUsageBillingDedup, ArchiveKey, logVars, history, callVars
    <2>2. KeysTell'
      BY <2>1, <1>a DEF IInv, KeysTell, KeyTypes
    <2>3. \A d \in Calls : EventOf(d)' = EventOf(d)
      BY <2>1 DEF EventOf
    <2>4. ClaimIsNew'
      <3>1. claimer[e] = NoCall
        BY <2>1 DEF IInv, KeysTell
      <3>2. \A d \in Calls : pc[d] = "effects" => EventOf(d) # e
        BY <3>1, BillingAssumption DEF BillingAssumption, IInv, ClaimIsNew
      <3>3. QED
        BY <2>1, <2>3, <3>2, <1>a, <1>c DEF IInv, ClaimIsNew, KeyTypes
    <2>5. QED
      BY <2>1, <2>2, <2>3, <2>4 DEF IInv, ReturnIsTrue, LateIsTrue, LogsTell
  <1>11. ASSUME NEW e \in Events, DeleteUsageLog(e) PROVE Goal
    <2>1. /\ UNCHANGED <<keyVars, late, charged, pc, usage>>
          /\ log' = [log EXCEPT ![e] = NoValue]
          /\ forgotten' = IF e \in charged THEN forgotten \cup {e} ELSE forgotten
      BY <1>11 DEF DeleteUsageLog, callVars
    <2>2. LogsTell'
      BY <2>1, <1>a DEF IInv, LogsTell, LogTypes
    <2>3. QED
      BY <2>1, <2>2 DEF keyVars, EventOf, IInv, KeysTell, ClaimIsNew, ReturnIsTrue, LateIsTrue
  <1>12. ASSUME NEW e \in Events, NEW entry \in Logs, FlushLog(e, entry) PROVE Goal
    <2>1. /\ UNCHANGED <<keyVars, charged, forgotten, pc, usage>>
          /\ <<e, entry>> \in late /\ late' \subseteq late
          /\ log' = log \/ (log[e] = NoValue /\ log' = [log EXCEPT ![e] = entry])
      BY <1>12 DEF FlushLog, InsertLog, history, callVars
    <2>2. entry.error \in BOOLEAN /\ (~entry.error => e \in charged)
      BY <2>1 DEF IInv, LateIsTrue, Logs
    <2>3. LogsTell'
      BY <2>1, <2>2, <1>a DEF IInv, LogsTell, LogTypes
    <2>4. QED
      BY <2>1, <2>3 DEF keyVars, EventOf, IInv, KeysTell, ClaimIsNew, ReturnIsTrue, LateIsTrue
  <1>13. ASSUME (\E l \in Loaders : GetUserBalance(l)) \/ CacheWorker \/ Expire \/ UNCHANGED vars
         PROVE  Goal
    <2>1. UNCHANGED billingVars
      BY <1>13 DEF GetUserBalance, CacheWorker, Expire, vars, billingVars, keyVars, logVars,
         history, callVars
    <2>2. \A d \in Calls : EventOf(d)' = EventOf(d)
      BY <2>1 DEF billingVars, callVars, EventOf
    <2>3. UNCHANGED <<dedup, archive, claimer, log, late, charged, forgotten, pc>>
      BY <2>1 DEF billingVars, keyVars, logVars, history, callVars
    <2>4. KeysTell' /\ LateIsTrue' /\ LogsTell'
      BY <2>3 DEF IInv, KeysTell, LateIsTrue, LogsTell
    <2>5. ClaimIsNew' /\ ReturnIsTrue'
      BY <2>2, <2>3 DEF IInv, ClaimIsNew, ReturnIsTrue
    <2>6. QED
      BY <2>4, <2>5
  <1> HIDE DEF Goal
  <1>14. ASSUME NEW c \in Calls, RecordUsage(c) \/ CallStep(c) \/ Crash(c) PROVE Goal
    BY <1>1, <1>2, <1>3, <1>4, <1>5, <1>6, <1>7, <1>8, <1>9, <1>14 DEF CallStep
  <1>15. Goal
    BY <1>10, <1>11, <1>12, <1>13, <1>14 DEF Next
  <1>16. QED
    BY <1>15, <1>b DEF Goal, IInv

LEMMA InvariantHolds == Spec => []IInv
  BY InitIInv, StepIInv, PTL DEF Spec

LEMMA IInvImpliesLogs == IInv => LogTellsCharge
  <1> SUFFICES ASSUME IInv, NEW e \in Events \ forgotten, log[e] # NoValue
               PROVE  log[e].error <=> e \notin charged
    BY DEF LogTellsCharge
  <1>1. log[e].error \in BOOLEAN
    BY LogsAreRecords DEF IInv
  <1>2. QED
    BY <1>1 DEF IInv, LogsTell

\* A usage log that reports a billing error is of an event that was not charged,
\* and one without of an event that was, whoever wrote it, and however late.
THEOREM LogsAreTrue == Spec => []LogTellsCharge
  BY InvariantHolds, IInvImpliesLogs, PTL

-----------------------------------------------------------------------------
(* The refinement.                                                         *)

LEMMA InitRefines == Init => Billing!Init
  BY CacheAssumption DEF Init, CacheInit, Billing!Init, CacheAssumption

LEMMA ChargeRefines ==
  ASSUME IInv, NEW c \in Calls, pc[c] = "effects", Charge(c)
  PROVE  Billing!Next
  <1>1. EventOf(c) \in Events \ charged /\ usage[c] \in Usages
    BY ChargeIsFirst, UsageType, TypeParts DEF IInv
  <1>2. Cost[usage[c]] \in Costs[EventOf(c)]
    BY <1>1 DEF Costs, EventOf
  <1>3. Billing!Charge(EventOf(c))
    BY <1>1, <1>2 DEF Billing!Charge, Charge
  <1>4. QED
    BY <1>1, <1>3 DEF Billing!Next

LEMMA StepRefines == IInv /\ [Next]_vars => [Billing!Next]_Billing!vars
  <1> SUFFICES ASSUME IInv, [Next]_vars PROVE [Billing!Next]_Billing!vars
    OBVIOUS
  <1>a. CacheTypeOK /\ KeyTypes /\ LogTypes /\ HistoryTypes /\ CallTypes /\ Busy /\ Claims
    BY TypeParts DEF IInv
  <1> USE DEF cacheVars, history, Billing!vars
  <1>1. ASSUME NEW c \in Calls,
               RecordUsage(c) \/ ClaimKey(c) \/ CompareKey(c) \/ CheckArchive(c) \/ LogConflict(c)
                 \/ AttemptFails(c) \/ Finalize(c) \/ NotApplied(c)
        PROVE  UNCHANGED Billing!vars
    BY <1>1 DEF RecordUsage, ClaimKey, CompareKey, CheckArchive, LogConflict, AttemptFails,
       Finalize, NotApplied
  <1>2. ASSUME NEW c \in Calls, ApplyEffects(c) \/ CommitLost(c) PROVE Billing!Next
    BY <1>2, ChargeRefines DEF ApplyEffects, CommitLost
  <1>3. ASSUME NEW c \in Calls, Crash(c) PROVE [Billing!Next]_Billing!vars
    BY <1>3, ChargeRefines DEF Crash
  <1>4. ASSUME NEW c \in Calls, WriteUsageLog(c) PROVE [Billing!Next]_Billing!vars
    <2>1. CASE pc[c] = "log"
      <3>1. EventOf(c) \in Events /\ EventOf(c) \in charged
        BY <2>1, <1>a, UsageType DEF IInv, ReturnIsTrue
      <3>2. Billing!Report(EventOf(c))
        BY <1>4, <2>1, <3>1 DEF WriteUsageLog, Billing!Report
      <3>3. QED
        BY <3>1, <3>2 DEF Billing!Next
    <2>2. CASE pc[c] # "log"
      BY <1>4, <2>2 DEF WriteUsageLog
    <2>3. QED
      BY <2>1, <2>2
  <1>5. ASSUME NEW e \in Events, CleanupUsageBillingDedup(e) \/ DeleteUsageLog(e)
        PROVE  UNCHANGED Billing!vars
    BY <1>5 DEF CleanupUsageBillingDedup, DeleteUsageLog
  <1>6. ASSUME NEW e \in Events, NEW entry \in Logs, FlushLog(e, entry) PROVE UNCHANGED Billing!vars
    BY <1>6 DEF FlushLog
  <1>7. CASE (\E l \in Loaders : GetUserBalance(l)) \/ CacheWorker \/ Expire
    <2>1. balance' = balance
      BY <1>7, <1>a, CacheStepTypes DEF GetUserBalance, CacheWorker, Expire
    <2>2. UNCHANGED billingVars
      BY <1>7 DEF GetUserBalance, CacheWorker, Expire
    <2>3. QED
      BY <2>1, <2>2 DEF billingVars
  <1>8. CASE UNCHANGED vars
    BY <1>8 DEF vars
  <1>9. QED
    BY <1>1, <1>2, <1>3, <1>4, <1>5, <1>6, <1>7, <1>8 DEF Next, CallStep

\* The two key tables, with retries, lost commits, crashes and archiving,
\* implement billing that charges each event once and reports only what it has
\* charged.
THEOREM ImplementsBilledOnce == Spec => KeepsBilling
  BY InitRefines, StepRefines, InvariantHolds, PTL DEF Spec, KeepsBilling, Billing!Spec

=============================================================================
