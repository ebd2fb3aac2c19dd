CONSTANTS
  Requests = {r1, r2}
  Keys = {k1, k2}
  Carts = {c1, c2}
  Methods = {"online", "cod"}
  MaxLines = 2
  None = None
SPECIFICATION Spec
INVARIANTS
  OneOrderPerCartAndKey
  OrderIsItsCart
  KeysLeadToTheirOrder
  OnlineReplaysAgree
PROPERTIES
  EveryCallEnds
CHECK_DEADLOCK FALSE
