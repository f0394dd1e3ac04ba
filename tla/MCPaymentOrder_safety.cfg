SPECIFICATION Spec
CONSTANTS
  w1 = w1
  w2 = w2
  Workers <- MCWorkers
  OrderTypes = {"balance", "subscription"}
  Calls = {"notify", "cancel", "expire", "verify", "retry", "manual"}
  MaxFaults = 1
SYMMETRY Symmetry
INVARIANTS
  TypeOK
  GrantIsPaidFor
  PaymentNeverDropped
PROPERTIES
  
  KeepsEntitlement
CHECK_DEADLOCK FALSE
