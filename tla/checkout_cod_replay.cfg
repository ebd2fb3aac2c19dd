CONSTANTS
  Requests = {r1, r2}
  Keys = {k1}
  Carts = {c1}
  Methods = {"cod"}
  MaxLines = 1
  None = None
SPECIFICATION Spec

INVARIANTS
  ReplaysAgree
CHECK_DEADLOCK FALSE
