-------------------------------- MODULE MCQuotes --------------------------------
\* Instances of Quotes for TLC.
EXTENDS Quotes, TLC

\* Two books of which one takes precedence, one of a foreign currency, and legacy
\* prices that are rounded up when a tenth is taken off.
MCPriority    == [b \in Books |-> IF b = "list" THEN 0 ELSE 1]
MCLegacyPrice == [v \in Variants |-> IF v = "v1" THEN 15 ELSE 25]
===============================================================================
