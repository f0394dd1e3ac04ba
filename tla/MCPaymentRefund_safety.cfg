SPECIFICATION Spec
CONSTANTS
  w1 = w1
  w2 = w2
  Workers <- MCWorkers
  OrderTypes = {"balance", "subscription"}
  Amount = 2
  MaxRefunds = 2
  MaxFaults = 1
  Faults = {"crash", "cancelled", "gateway", "database"}
SYMMETRY Symmetry
INVARIANTS
  OneOwner
  DeductedOnce
  DeductionIsBacked
  RefundedIsConfirmed
PROPERTY KeepsRefund
CHECK_DEADLOCK FALSE
