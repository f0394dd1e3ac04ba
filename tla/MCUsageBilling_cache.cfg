SPECIFICATION LiveSpec
CONSTANTS
  NoValue = NoValue
  NoCall = NoCall
  e1 = e1
  e2 = e2
  u1 = u1
  u2 = u2
  u3 = u3
  a1 = a1
  a2 = a2
  Loaders = {l1}
  QueueSize = 2
  Deposit = 3
  Events = {e1}
  Usages = {u1, u2}
  Event <- OnlyEvent
  Account <- Accounts
  Cost <- Costs12
  WithPoints = {u2}
  Shared = {u2}
  Calls = {c1}
  MaxAttempts = 2
  MaxFaults = 1
PROPERTIES
  CacheHeals
CHECK_DEADLOCK FALSE
