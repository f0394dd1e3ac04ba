---------------------------- MODULE BalanceCache ----------------------------
(***************************************************************************)
(* BillingCacheService and the Redis key behind it: one user's balance in  *)
(* the database and its copy in the cache.  Whoever misses loads the       *)
(* balance and queues a write of it; a charge queues a deduction.  Workers *)
(* take the queue's tasks in order but carry them out in any, so a loaded  *)
(* balance may be written after newer deductions.  Operators on that state *)
(* for the components that change the balance.                             *)
(***************************************************************************)
EXTENDS Integers, Sequences, SequencesExt

CONSTANTS
  NoValue,     \* no such key, no such row
  Loaders,     \* flights of balanceLoadSF: one user's, in each process
  QueueSize,   \* cacheWriteBufferSize, of all processes together
  Deposit      \* what the user has at first

ASSUME CacheAssumption == NoValue \notin Int /\ QueueSize \in Nat /\ Deposit \in Int

VARIABLES
  balance,   \* users.balance
  cache,     \* the key's value
  ttl,       \* the key expires
  queue,     \* cacheWriteChan, with the tasks workers have begun
  load,      \* per flight: "idle", "missed" or "read"
  read       \* per flight: the balance it read

loadVars == <<load, read>>
cacheVars == <<balance, cache, ttl, queue, loadVars>>

Tasks == [kind : {"set_balance", "deduct_balance"}, amount : Int]

CacheTypeOK ==
  /\ balance \in Int
  /\ cache \in Int \cup {NoValue}
  /\ ttl \in BOOLEAN
  /\ queue \in Seq(Tasks) /\ Len(queue) <= QueueSize
  /\ load \in [Loaders -> {"idle", "missed", "read"}] /\ read \in [Loaders -> Int]

CacheInit ==
  /\ balance = Deposit
  /\ cache = NoValue /\ ttl = FALSE
  /\ queue = <<>>
  /\ load = [l \in Loaders |-> "idle"] /\ read = [l \in Loaders |-> 0]

-----------------------------------------------------------------------------
(* The Redis key.                                                          *)

SetUserBalance(value) == cache' = value /\ ttl' = TRUE

\* Mutant: SET without EXPIRE, which makes the key permanent.
DeductKeepsForever(amount) ==
  IF cache = NoValue THEN UNCHANGED <<cache, ttl>> ELSE cache' = cache - amount /\ ttl' = FALSE

\* deductBalanceScript
DeductUserBalance(amount) ==
  IF cache = NoValue THEN UNCHANGED <<cache, ttl>> ELSE cache' = cache - amount /\ ttl' = TRUE

InvalidateUserBalance == cache' = NoValue /\ ttl' = FALSE

CacheExpires ==
  /\ cache # NoValue /\ ttl
  /\ InvalidateUserBalance
  /\ UNCHANGED <<balance, queue, loadVars>>

-----------------------------------------------------------------------------
(* The queue and its workers.                                              *)

Full == Len(queue) >= QueueSize

Enqueue(kind, amount) == queue' = Append(queue, [kind |-> kind, amount |-> amount])

\* Without room the deduction is made on the spot; an error is only logged.
QueueDeductBalance(amount) ==
  \/ ~Full /\ Enqueue("deduct_balance", amount) /\ UNCHANGED <<cache, ttl>>
  \/ Full /\ (DeductUserBalance(amount) \/ UNCHANGED <<cache, ttl>>) /\ UNCHANGED queue

\* A worker ends some task.
CacheWrite(i) ==
  /\ i \in DOMAIN queue
  /\ queue' = RemoveAt(queue, i)
  /\ IF queue[i].kind = "set_balance" THEN SetUserBalance(queue[i].amount)
     ELSE DeductUserBalance(queue[i].amount)
  /\ UNCHANGED <<balance, loadVars>>

\* Redis does not answer in cacheWriteTimeout: the task is lost.
CacheWriteFails(i) ==
  /\ i \in DOMAIN queue
  /\ queue' = RemoveAt(queue, i)
  /\ UNCHANGED <<balance, cache, ttl, loadVars>>

-----------------------------------------------------------------------------
(* GetUserBalance, when the cache does not answer.                         *)

CacheMiss(l) ==
  /\ load[l] = "idle"
  /\ cache = NoValue
  /\ load' = [load EXCEPT ![l] = "missed"]
  /\ UNCHANGED <<balance, cache, ttl, queue, read>>

ReadBalance(l) ==
  /\ load[l] = "missed"
  /\ load' = [load EXCEPT ![l] = "read"]
  /\ read' = [read EXCEPT ![l] = balance]
  /\ UNCHANGED <<balance, cache, ttl, queue>>

LoadEnds(l) ==
  /\ load' = [load EXCEPT ![l] = "idle"]
  /\ read' = [read EXCEPT ![l] = 0]

\* The cache is filled later, or not at all without room.
FillCache(l) ==
  /\ load[l] = "read"
  /\ IF Full THEN UNCHANGED queue ELSE Enqueue("set_balance", read[l])
  /\ LoadEnds(l)
  /\ UNCHANGED <<balance, cache, ttl>>

\* The read in the database fails.
LoadFails(l) ==
  /\ load[l] = "missed"
  /\ LoadEnds(l)
  /\ UNCHANGED <<balance, cache, ttl, queue>>

=============================================================================
