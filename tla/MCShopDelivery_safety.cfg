SPECIFICATION Spec
CONSTANTS
  o1 = o1
  o2 = o2
  c1 = c1
  c2 = c2
  w1 = w1
  w2 = w2
  Orders <- MCOrders
  Cards <- MCCards
  Workers <- MCWorkers
  Quantity <- MCQuantity
  NoOrder = NoOrder
  Kinds = {"card", "reward"}
  Assigned = {"available"}
SYMMETRY Symmetry
INVARIANTS
  DeliveredOnce
  ReservationIsWhole
  PaymentMatchesDelivery
  PayableIsReserved
  ReservationEnds
PROPERTY KeepsStock
CHECK_DEADLOCK FALSE
