SPECIFICATION Spec
CONSTANTS
  r1 = r1
  r2 = r2
  r3 = r3
  Requests <- Three
  NoFingerprint = "none"
  Fingerprints = {"a", "b"}
  MaxTime = 6
  MaxRecords = 2
  DeleteIsAtomic = TRUE
  TTL = 3
  ProcessingTimeout = 2
  Backoff = 1
  MaxClaim = 1
  MaxRequest = 2
SYMMETRY ThreeSymmetry
INVARIANTS
  OneExecutor
  ExecutorOwnsRow
  ReplayAnswersTheRequest
PROPERTIES
  LiveSuccessIsKept
  KeepsKey
CHECK_DEADLOCK FALSE
