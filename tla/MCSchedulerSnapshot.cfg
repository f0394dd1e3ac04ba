SPECIFICATION LiveSpec
CONSTANTS
  full = full
  other = other
  Procs <- Both
  Rebuilders <- OneRebuilder
  NoProc = NoProc
  Unknown = Unknown
  NoSnapshot = NoSnapshot
  MaxChanges = 1
  MaxTurns = 2
  MaxFaults = 1
INVARIANTS
  ServesThisLife
PROPERTIES
  DecisionsInOrder
  KeepsBucket
  Converges
