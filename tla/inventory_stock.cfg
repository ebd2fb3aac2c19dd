CONSTANTS
  Orders = {o1, o2}
  Variants = {v1}
  Locations = {1, 2}
  Shipments = {s1, s2, s3}
  MaxQuantity = 2
  MaxStock = 3
  SafetyStock = 1
SPECIFICATION Spec
INVARIANTS
  TypeOK
  NoOversell
  StockIsAccounted
  CommittedCoversUnshipped
  DeliveredMeansAllArrived
PROPERTIES
  PoolSpec
CHECK_DEADLOCK FALSE
