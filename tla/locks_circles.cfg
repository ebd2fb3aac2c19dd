CONSTANTS
  Txns = {t1, t2}
  Rows = {1, 2, 3}
  Variants = {1, 2}
  VariantOf <- StockedAgain
  Orders = {"o1", "o2"}
  Lines <- TwoWays
  None = None
SPECIFICATION Spec
INVARIANTS
  CirclesHaveCauses
PROPERTIES
  EveryTransactionEnds
