CONSTANTS
  Orders = {o1}
  Returns = {r1, r2}
  Refs = {f1, f2, f3}
  Staff = {maker, checker}
  Workers = {w1, w2}
  Quantity = 2
  LineTotal = 3
  Captured = 4
  Amounts = {1, 2, 3}
  Threshold = 1
  None = None
SPECIFICATION Spec
SYMMETRY Symmetry
INVARIANTS
  PaidWasAuthorised
  BooksMatchProvider
  RefundsWithinCapture
  PaidReturnsStand
  GoodsRefundedOnce
CHECK_DEADLOCK FALSE
