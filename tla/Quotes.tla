--------------------------------- MODULE Quotes ---------------------------------
(***************************************************************************)
(* One shopper's way from a bag to an order's total, while the staff       *)
(* changes the catalog and offers begin and end.  A quote, a coupon and a  *)
(* checkout look up each price and the offer in a statement of its own, so *)
(* anything may change in between; the cart is locked meanwhile, so its    *)
(* requests come one after the other.                                      *)
(*                                                                         *)
(* Stock, payment and idempotency keys are in Inventory, Payments and      *)
(* Checkout.  Any request may fail for reasons of theirs.                  *)
(***************************************************************************)
EXTENDS Catalog

CONSTANT MaxQuantity  \* of a line, 20 in the code

ASSUME QuantityAssumption == MaxQuantity \in Nat

VARIABLES bag,     \* the quantity of each variant in the cart
          coupon,  \* coupon_code of the cart
          req,     \* the request in flight
          shown,   \* the last total the shopper was shown, None while a quote is made
          steady,  \* nothing has changed since that quote began
          turned,  \* the last checkout was answered price_changed
          order    \* the order, None before it is placed

shopperVars == <<bag, coupon, req, shown, steady, turned, order>>
vars == <<catalogVars, shopperVars>>

Nothing == [v \in Variants |-> 0]

\* A request has a code, the items it has not priced yet, the one it is about to fall
\* back to the legacy price for, the unit prices found, the offer and the total the
\* shopper expects.  To tell what it should find, it also carries how many prices there
\* were and which promotions took a code when it began.
Begin(op, at, code, expected) ==
  [op |-> op, at |-> at, code |-> code, left |-> Items(bag), item |-> None,
   unit |-> Nothing, offer |-> None, expected |-> expected,
   priced |-> Len(prices), optIn |-> OptIn(coupons), began |-> clock]
Idle == [op |-> "none", at |-> "idle", code |-> None, left |-> {}, item |-> None,
         unit |-> Nothing, offer |-> None, expected |-> None,
         priced |-> 0, optIn |-> {}, began |-> 0]

Init == /\ CatalogInit
        /\ bag = Nothing /\ coupon = None
        /\ req = Idle
        /\ shown = None /\ steady = FALSE
        /\ turned = FALSE /\ order = None

-------------------------------------------------------------------------------
(* The bag *)

CurrentPrice(v) == LET p == EffectivePrice(prices, v, clock) IN
                   IF p # None THEN p
                   ELSE IF v \in Configured(prices, clock) THEN None ELSE LegacyPrice[v]

\* What storefront_catalog lists, and add_item accepts.
Listed == {v \in variants : Published /\ CurrentPrice(v) # None}

Edit(v, q) == /\ req = Idle /\ order = None
              /\ bag' = [bag EXCEPT ![v] = q]
              /\ steady' = FALSE
              /\ UNCHANGED <<catalogVars, coupon, req, shown, turned, order>>

AddItem(v, q)    == v \in Listed /\ Edit(v, q)
UpdateItem(v, q) == bag[v] > 0 /\ Edit(v, q)
RemoveItem(v)    == bag[v] > 0 /\ Edit(v, 0)

-------------------------------------------------------------------------------
(* Looking up a price *)

Steps(r) == /\ req' = r
            /\ UNCHANGED <<catalogVars, bag, coupon, shown, steady, turned, order>>

Refuse(why) == /\ req' = Idle
               /\ turned' = (why = "price_changed")
               /\ UNCHANGED <<catalogVars, bag, coupon, shown, steady, order>>

Priced(v, amount) == [req EXCEPT !.at = "price", !.left = @ \ {v}, !.item = None, !.unit[v] = amount]

LookUpPrice(v) ==
  LET p == EffectivePrice(prices, v, clock) IN
  /\ req.at = "price" /\ v \in req.left
  /\ \/ p # None /\ Steps(Priced(v, p))
     \/ p = None /\ Steps([req EXCEPT !.at = "fallback", !.item = v])

FallBack ==
  /\ req.at = "fallback"
  /\ \/ req.item \in Configured(prices, clock) /\ Refuse("price_unavailable")
     \/ /\ req.item \notin Configured(prices, clock)
        /\ Steps(Priced(req.item, LegacyPrice[req.item]))

-------------------------------------------------------------------------------
(* Looking up the offer *)

\* The coupon's promotion, or the best that takes none.
Offer == IF req.code = None
         THEN BestOf(promotions, Automatic(promotions, coupons, clock))
         ELSE coupons[req.code]

CouponFails == req.code # None /\ coupons[req.code] \notin Running(promotions, clock)

PercentOf(offer) == IF offer = None THEN 0 ELSE promotions[offer].percent

-------------------------------------------------------------------------------
(* cart_quote and coupon *)

BeginQuote(op, code) == /\ req = Idle /\ order = None
                        /\ req' = Begin(op, "offer", code, None)
                        /\ shown' = None /\ steady' = TRUE /\ turned' = FALSE
                        /\ UNCHANGED <<catalogVars, bag, coupon, order>>

Quote             == BeginQuote("quote", coupon)
ApplyCoupon(code) == BeginQuote("coupon", code)

\* A quote says that the coupon fails and goes on without it.
QuoteOffer ==
  /\ req.op \in {"quote", "coupon"} /\ req.at = "offer"
  /\ \/ ~CouponFails /\ Steps([req EXCEPT !.at = "price", !.offer = Offer])
     \/ /\ CouponFails /\ req.op = "quote"
        /\ Steps([req EXCEPT !.at = "price"])
     \/ CouponFails /\ req.op = "coupon" /\ Refuse("coupon_unavailable")

\* SlipWholeBag: the percentage of the subtotal, not the sum of those of the lines.
SlipWholeBag(unit, percent) ==
  Subtotal(bag, unit) - LineDiscount(Subtotal(bag, unit), percent)
    + (IF Items(bag) = {} THEN 0 ELSE Shipping)
QuoteTotal(unit, percent) ==
  Subtotal(bag, unit) - Discounts(bag, unit, percent)
    + (IF Items(bag) = {} THEN 0 ELSE Shipping)

FinishQuote ==
  /\ req.op \in {"quote", "coupon"} /\ req.at = "price" /\ req.left = {}
  /\ shown' = QuoteTotal(req.unit, PercentOf(req.offer))
  /\ coupon' = req.code
  /\ req' = Idle
  /\ UNCHANGED <<catalogVars, bag, steady, turned, order>>

-------------------------------------------------------------------------------
(* prepare_checkout *)

\* The bag is loaded with its variants and their product, which are not read again.
BeginCheckout(expected) ==
  /\ req = Idle /\ order = None
  /\ Items(bag) # {} /\ Published
  /\ req' = Begin("checkout", "price", coupon, expected)
  /\ turned' = FALSE
  /\ UNCHANGED <<catalogVars, bag, coupon, shown, steady, order>>

\* SlipAnyTotal: the total is not compared.
SlipAnyTotal(total) == TRUE
Agrees(total)       == req.expected \in {None, total}

\* The order keeps what its request had found.
PlaceOrder ==
  LET percent == PercentOf(Offer)
      total   == Subtotal(bag, req.unit) - Discounts(bag, req.unit, percent) + Shipping IN
  /\ req.op = "checkout" /\ req.at = "price" /\ req.left = {}
  /\ \/ CouponFails /\ Refuse("coupon_unavailable")
     \/ ~CouponFails /\ ~Agrees(total) /\ Refuse("price_changed")
     \/ /\ ~CouponFails /\ Agrees(total)
        /\ order' = [bag |-> bag, unit |-> req.unit, percent |-> percent, total |-> total,
                     request |-> [req EXCEPT !.offer = Offer]]
        /\ req' = Idle
        /\ UNCHANGED <<catalogVars, bag, coupon, shown, steady, turned>>

\* Too little stock, a provider that is not configured, a lost connection.
Fail == req # Idle /\ Refuse("failed")

-------------------------------------------------------------------------------
ShopperNext ==
  \/ \E v \in Variants : \/ RemoveItem(v) \/ LookUpPrice(v)
                         \/ \E q \in 1..MaxQuantity : AddItem(v, q) \/ UpdateItem(v, q)
  \/ FallBack \/ QuoteOffer \/ FinishQuote \/ PlaceOrder \/ Fail
  \/ Quote \/ \E code \in Codes \cup {None} : ApplyCoupon(code)
  \/ \E expected \in {shown, None} : BeginCheckout(expected)

\* The catalog and the clock change under the shopper's feet.
StaffNext == /\ CatalogNext
             /\ order = None
             /\ steady' = FALSE
             /\ UNCHANGED <<bag, coupon, req, shown, turned, order>>

Next == ShopperNext \/ StaffNext

Spec == Init /\ [][Next]_vars

-------------------------------------------------------------------------------
\* The lines and the total of an order add up, no line is discounted below nothing or
\* taxed above what it costs, and whoever sent the total he was shown pays exactly that,
\* whatever the staff did between the quote and the last price the checkout looked up.
AgreedTotals ==
  order # None =>
    /\ order.request.expected \in {None, order.total}
    /\ order.total = Shipping + SumFunctionOnSet(
         [v \in Variants |-> LineTotal(order.bag, order.unit, order.percent, v)],
         Items(order.bag))
    /\ \A v \in Items(order.bag) :
         /\ LineTotal(order.bag, order.unit, order.percent, v) \in 0..Amount(order.bag, order.unit, v)
         /\ LineTax(order.bag, order.unit, order.percent, v)
              \in 0..LineTotal(order.bag, order.unit, order.percent, v)

\* price_changed is only ever answered when something did change since the total was
\* quoted: quote_cart and the checkout, which are two pieces of code, come to the same
\* total ("shared pricing and promotion policy with checkout").
RefusalsHaveCauses == turned => ~steady

\* Each price of an order was in force at some time between the beginning and the end
\* of its checkout, or is the legacy price of a variant that had no prices
\* before; its offer was running, and took no code before unless the bag has that code.
PricesAndOffersWereOpen ==
  order # None =>
    LET r == order.request IN
    /\ \A v \in Items(order.bag) :
         \/ \E i \in DOMAIN prices, t \in r.began..clock :
              i \in Candidates(prices, v, t) /\ prices[i].amount = order.unit[v]
         \/ /\ order.unit[v] = LegacyPrice[v]
            /\ \A i \in 1..r.priced : prices[i].variant # v
    /\ r.offer # None => /\ \E t \in r.began..clock : InForce(promotions[r.offer], t)
                         /\ IF r.code = None THEN r.offer \notin r.optIn
                            ELSE coupons[r.code] = r.offer
===============================================================================
