SPECIFICATION Spec
CONSTANTS
  Orders = {o1, o2}
  Exchanges = {x1}
  Sessions = {s1}
  Ids = {i1, i2}
  NoId = NoId
  NoOrder = NoOrder
  Quantity = 2
  Uninit <- NoGarbage
INVARIANTS TypeOK NeverAhead PlacedOnce
PROPERTIES ImplementsLifecycle OperationsEnd
