------------------------------ MODULE MCStockLocks ------------------------------
\* Instances of StockLocks for TLC: a first variant was stocked again at another
\* location after the second, and two orders list the variants in two ways.
EXTENDS StockLocks, TLC

StockedAgain == <<1, 2, 1>>
TwoWays == "o1" :> <<1, 2>> @@ "o2" :> <<2, 1>>
===============================================================================
