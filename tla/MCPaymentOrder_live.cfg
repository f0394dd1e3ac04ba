SPECIFICATION LiveSpec
CONSTANTS
  w1 = w1
  w2 = w2
  Workers <- MCWorkers
  OrderTypes = {"balance", "subscription"}
  Calls = {"notify", "expire", "retry"}
  MaxFaults = 1
PROPERTIES
  RechargingEnds
  PendingEnds
  
CHECK_DEADLOCK FALSE
