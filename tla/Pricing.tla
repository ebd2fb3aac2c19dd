-------------------------------- MODULE Pricing --------------------------------
(***************************************************************************)
(* Prices, offers and the amounts made of them, in minor units.  Prices    *)
(* and promotions are only ever added, so the position of one in its       *)
(* sequence stands for its id.                                             *)
(***************************************************************************)
EXTENDS Integers, Sequences, FiniteSets, Functions

CONSTANTS Variants,
          Books,        \* price books of the currency of the carts and of others
          Priority,     \* of each book
          Foreign,      \* the books of other currencies
          LegacyPrice,  \* price_minor of each variant's row
          TaxRate,      \* tax_rate_percent
          Shipping,     \* shipping_fee_minor
          None

ASSUME PricingAssumption ==
  /\ IsFiniteSet(Variants)
  /\ Priority \in [Books -> Int] /\ Foreign \subseteq Books
  /\ LegacyPrice \in [Variants -> Nat]
  /\ TaxRate \in 0..100 /\ Shipping \in Nat
  /\ None \notin Int

-------------------------------------------------------------------------------
(* Amounts *)

\* ROUND_HALF_UP of n / d.
HalfUp(n, d) == (2 * n + d) \div (2 * d)

LineDiscount(amount, percent) == HalfUp(amount * percent, 100)

\* The tax that an amount includes.
IncludedTax(amount, rate) == HalfUp(amount * rate, 100 + rate)

-------------------------------------------------------------------------------
(* effective_price *)

\* The half-open windows of prices and promotions.
InForce(x, now) == x.from <= now /\ (x.until = None \/ now < x.until)

\* The newest of the prices in force in the book of the highest priority.
Precedes(prices, i, j) ==
  LET p == prices[i]
      q == prices[j] IN
  \/ Priority[p.book] > Priority[q.book]
  \/ Priority[p.book] = Priority[q.book] /\ p.from > q.from
  \/ Priority[p.book] = Priority[q.book] /\ p.from = q.from /\ i > j

Candidates(prices, v, now) ==
  {i \in DOMAIN prices : /\ prices[i].variant = v
                         /\ prices[i].book \notin Foreign
                         /\ InForce(prices[i], now)}

EffectivePrice(prices, v, now) ==
  LET C == Candidates(prices, v, now) IN
  IF C = {} THEN None
  ELSE prices[CHOOSE i \in C : \A j \in C \ {i} : Precedes(prices, i, j)].amount

\* A variant with prices, of whatever time and currency, has no legacy price any
\* more.  SlipStarted: those that have yet to start do not count.
SlipStarted(prices, now) == {prices[i].variant : i \in {j \in DOMAIN prices : prices[j].from <= now}}
Configured(prices, now)  == {prices[i].variant : i \in DOMAIN prices}

-------------------------------------------------------------------------------
(* best_promotion *)

Running(promotions, now) ==
  {i \in DOMAIN promotions : promotions[i].published /\ InForce(promotions[i], now)}

\* Promotions that take a code.
OptIn(coupons) == {coupons[code] : code \in DOMAIN coupons} \ {None}

\* The promotions that nobody needs a code for.
Automatic(promotions, coupons, now) == Running(promotions, now) \ OptIn(coupons)

\* The largest offer, the oldest of equals; None if there is none.
BestOf(promotions, P) ==
  IF P = {} THEN None
  ELSE CHOOSE i \in P : \A j \in P \ {i} :
         \/ promotions[i].percent > promotions[j].percent
         \/ promotions[i].percent = promotions[j].percent /\ i < j

-------------------------------------------------------------------------------
(* The amounts of an order or a quote: a bag at unit prices, less a percentage *)

Amount(bag, unit, v)            == bag[v] * unit[v]
Discount(bag, unit, percent, v) == LineDiscount(Amount(bag, unit, v), percent)
LineTotal(bag, unit, percent, v) == Amount(bag, unit, v) - Discount(bag, unit, percent, v)
LineTax(bag, unit, percent, v)  == IncludedTax(LineTotal(bag, unit, percent, v), TaxRate)

Items(bag) == {v \in Variants : bag[v] > 0}

Subtotal(bag, unit) == SumFunctionOnSet([v \in Variants |-> Amount(bag, unit, v)], Items(bag))
Discounts(bag, unit, percent) ==
  SumFunctionOnSet([v \in Variants |-> Discount(bag, unit, percent, v)], Items(bag))
===============================================================================
