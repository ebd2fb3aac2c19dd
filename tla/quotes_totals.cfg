CONSTANTS
  Variants = {"v1", "v2"}
  Books = {"list", "export"}
  Foreign = {"export"}
  Priority <- MCPriority
  LegacyPrice <- MCLegacyPrice
  TaxRate = 18
  Shipping = 7
  Codes = {"CODE"}
  Amounts = {9}
  Percents = {10}
  MaxTime = 2
  MaxPrices = 1
  MaxPromotions = 1
  MaxVersion = 4
  MaxQuantity = 1
  None = None
SPECIFICATION Spec
INVARIANTS
  AgreedTotals
  RefusalsHaveCauses
  PricesAndOffersWereOpen
CHECK_DEADLOCK FALSE
