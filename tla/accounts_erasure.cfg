CONSTANTS
  Subjects = {s1, s2}
  Checkers = {s1, s2}
  Rows = {r1, r2}
  Calls = {c1, c2}
  Lists = {w1, w2}
  Carts = {k1, k2}
  Wishes = {x1, x2}
  Pieces = {p1}
  Limit = 1
  MaxQuantity = 1
  MaxVersion = 2
  Erased = Erased
  None = None
SPECIFICATION MCSpec
SYMMETRY Symmetry
INVARIANT ErasedStaysErased
CHECK_DEADLOCK FALSE
