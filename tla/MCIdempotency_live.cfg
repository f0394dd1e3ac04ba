SPECIFICATION LiveSpec
CONSTANTS
  r1 = r1
  r2 = r2
  r3 = r3
  Requests <- Two
  NoFingerprint = "none"
  Fingerprints = {"a"}
  MaxTime = 4
  MaxRecords = 1
  DeleteIsAtomic = FALSE
  TTL = 3
  ProcessingTimeout = 2
  Backoff = 1
  MaxClaim = 1
  MaxRequest = 2
PROPERTIES
  AbandonedKeyIsFreed
CHECK_DEADLOCK FALSE
