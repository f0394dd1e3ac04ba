SPECIFICATION LiveSpec
CONSTANTS
  NoNode = NoNode
  Nodes = {n1, n2}
  Rows <- AllRows
  Tasks <- BothTasks
  Matches <- SharedRow
  BatchSize = 1
  MaxFaults = 1
INVARIANTS
  TypeOK
  SucceededIsComplete
  NeverOvercounts
PROPERTIES
  KeepsFencing
  TaskEnds
CHECK_DEADLOCK FALSE
