SPECIFICATION Spec
CONSTANTS
  update = update
  rollback = rollback
  restart = restart
  NoFingerprint = NoFingerprint
  Fingerprints <- Three
  MaxTime = 5
  MaxRecords = 2
  DeleteIsAtomic = FALSE
  Lease = 2
  TTL = 3
SYMMETRY Symmetry
INVARIANTS
  ExclusiveUntilLapse
  OwnedUntilLapse
CHECK_DEADLOCK FALSE
