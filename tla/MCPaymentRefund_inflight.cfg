SPECIFICATION Spec
CONSTANTS
  w1 = w1
  w2 = w2
  Workers <- MCWorkers
  OrderTypes = {"balance"}
  Amount = 2
  MaxRefunds = 2
  MaxFaults = 0
  Faults = {}
INVARIANTS
  NoneInFlightWhenInitiable
CHECK_DEADLOCK FALSE
