-------------------------------- MODULE Catalog --------------------------------
(***************************************************************************)
(* What the staff does to the shop while shoppers look at their bags: the  *)
(* product and its variants, prices, promotions and coupons.  Every        *)
(* handler locks what it checks and is one step.  Requests that fail their *)
(* validation or meet a slug, a SKU, a code or a book that is taken, or    *)
(* that has another currency or priority, change nothing and are left out. *)
(***************************************************************************)
EXTENDS Pricing

CONSTANTS Codes,          \* coupon codes, in upper case
          Amounts,        \* of new prices
          Percents,       \* of new promotions
          MaxTime,        \* bounds of the clock, of prices, promotions and versions
          MaxPrices,
          MaxPromotions,
          MaxVersion

\* Constraints amount_nonnegative and percent_valid; the bounds are numbers.
ASSUME CatalogAssumption ==
  /\ Amounts \subseteq Nat /\ Percents \subseteq 1..100
  /\ None \notin Codes
  /\ MaxTime \in Nat

VARIABLES clock,
          product,     \* status and version of the product, None before it is created
          variants,    \* its variants, all active: no route archives one
          prices,
          promotions,
          coupons      \* the promotion of each code, None if there is no such coupon

catalogVars == <<clock, product, variants, prices, promotions, coupons>>

Times   == 0..MaxTime
Windows == {w \in [from : Times, until : Times \cup {None}] : w.until # None => w.from < w.until}

CatalogInit == /\ clock = 0
               /\ product = None
               /\ variants = {}
               /\ prices = <<>> /\ promotions = <<>>
               /\ coupons = [code \in Codes |-> None]

Published == product # None /\ product.status = "published"

Tick == /\ clock < MaxTime
        /\ clock' = clock + 1
        /\ UNCHANGED <<product, variants, prices, promotions, coupons>>

CreateProduct == /\ product = None
                 /\ product' = [status |-> "draft", version |-> 1]
                 /\ UNCHANGED <<clock, variants, prices, promotions, coupons>>

CreateVariant(v) == /\ product # None /\ v \notin variants /\ product.version < MaxVersion
                    /\ variants' = variants \cup {v}
                    /\ product' = [product EXCEPT !.version = @ + 1]
                    /\ UNCHANGED <<clock, prices, promotions, coupons>>

\* By an editor who has seen the current version.
PublishProduct(status) ==
  /\ product # None /\ product.version < MaxVersion
  /\ status = "published" => variants # {}
  /\ product' = [status |-> status, version |-> product.version + 1]
  /\ UNCHANGED <<clock, variants, prices, promotions, coupons>>

AddPrice(v, book, amount, window) ==
  /\ v \in variants /\ Len(prices) < MaxPrices
  /\ prices' = Append(prices, [variant |-> v, book |-> book, amount |-> amount,
                               from |-> window.from, until |-> window.until])
  /\ UNCHANGED <<clock, product, variants, promotions, coupons>>

AddPromotion(percent, published, window) ==
  /\ window.until # None /\ Len(promotions) < MaxPromotions
  /\ promotions' = Append(promotions, [percent |-> percent, published |-> published,
                                       from |-> window.from, until |-> window.until])
  /\ UNCHANGED <<clock, product, variants, prices, coupons>>

\* Also for a promotion that runs without a code so far.
CreateCoupon(i, code) == /\ i \in DOMAIN promotions /\ coupons[code] = None
                         /\ coupons' = [coupons EXCEPT ![code] = i]
                         /\ UNCHANGED <<clock, product, variants, prices, promotions>>

CatalogNext ==
  \/ Tick \/ CreateProduct
  \/ \E v \in Variants : CreateVariant(v)
  \/ \E status \in {"draft", "published", "archived"} : PublishProduct(status)
  \/ \E v \in Variants, b \in Books, a \in Amounts, w \in Windows : AddPrice(v, b, a, w)
  \/ \E percent \in Percents, b \in BOOLEAN, w \in Windows : AddPromotion(percent, b, w)
  \/ \E i \in 1..MaxPromotions, code \in Codes : CreateCoupon(i, code)
===============================================================================
