------------------------------ MODULE QuotesProofs ------------------------------
(***************************************************************************)
(* The amounts of Pricing, the prices and offers it chooses, and the       *)
(* inductive invariant of Quotes with its theorems: an order's total adds  *)
(* up and is what was shown, a refusal has a cause, and the prices and the *)
(* offer of an order were open while it was made.                          *)
(***************************************************************************)
EXTENDS Quotes, SumTheorems, TLAPS

-------------------------------------------------------------------------------
(* The invariant *)

PriceRows == [variant : Variants, book : Books, amount : Nat,
              from : Times, until : Times \cup {None}]
OfferRows == [percent : 1..100, published : BOOLEAN,
              from : Times, until : Times \cup {None}]
Requests  == [op : {"none", "quote", "coupon", "checkout"},
              at : {"idle", "offer", "price", "fallback"},
              code : Codes \cup {None}, left : SUBSET Variants, item : Variants \cup {None},
              unit : [Variants -> Nat], offer : Nat \cup {None}, expected : Int \cup {None},
              priced : Nat, optIn : SUBSET Nat, began : Nat]

CatalogOk == /\ clock \in Times
             /\ prices \in Seq(PriceRows)
             /\ promotions \in Seq(OfferRows)
             /\ coupons \in [Codes -> DOMAIN promotions \cup {None}]

ShopperOk == /\ bag \in [Variants -> 0..MaxQuantity]
             /\ coupon \in Codes \cup {None}
             /\ shown \in Int \cup {None}
             /\ steady \in BOOLEAN

\* A request is one of the kinds there are, at one of its steps.
RequestOk(r) == /\ r \in Requests
                /\ r.op = "none" => r = Idle
                /\ r.op = "checkout" => r.at \in {"price", "fallback"}
                /\ r.op \in {"quote", "coupon"} => r.at \in {"offer", "price", "fallback"}

\* The price found for v was in force during the request, or v has the legacy price and
\* had no others when the request began.
Found(r, v) ==
  \/ \E i \in DOMAIN prices, t \in r.began..clock :
       i \in Candidates(prices, v, t) /\ prices[i].amount = r.unit[v]
  \/ /\ r.unit[v] = LegacyPrice[v]
     /\ \A i \in 1..r.priced : prices[i].variant # v

\* A request in flight has no order yet, what it noted when it began is of the past, and
\* what it has found so far was open.
FlightOk(r) == r.op # "none" =>
  /\ order = None
  /\ r.left \subseteq Items(bag)
  /\ r.at = "offer" => r.left = Items(bag) /\ r.offer = None
  /\ r.at = "fallback" => r.item \in r.left
  /\ r.began <= clock /\ r.priced <= Len(prices) /\ r.optIn \subseteq OptIn(coupons)
  /\ \A v \in Items(bag) \ r.left : Found(r, v)
  /\ r.offer # None => r.offer \in DOMAIN promotions
  /\ r.op = "checkout" => /\ r.expected \in {None, shown}
                          /\ r.code = coupon
                          /\ Items(bag) # {}

\* What QuoteOffer finds for a code.
FailsFor(code) == code # None /\ coupons[code] \notin Running(promotions, clock)
OfferFor(code) == IF FailsFor(code) THEN None
                  ELSE IF code = None
                       THEN BestOf(promotions, Automatic(promotions, coupons, clock))
                       ELSE coupons[code]

Prevailing == [v \in Variants |-> CurrentPrice(v)]

\* While nothing changes, a request finds the prices and the offer that prevail ...
SteadyOk(r) == steady /\ r.op # "none" =>
  /\ \A v \in Items(bag) \ r.left : r.unit[v] = CurrentPrice(v)
  /\ r.at = "fallback" => EffectivePrice(prices, r.item, clock) = None
  /\ r.op \in {"quote", "coupon"} /\ r.at # "offer" => r.offer = OfferFor(r.code)

\* ... and the total that was shown is made of them.
ShownOk == steady /\ shown # None =>
             shown = QuoteTotal(Prevailing, PercentOf(OfferFor(coupon)))

QInv == /\ CatalogOk /\ ShopperOk
        /\ RequestOk(req) /\ FlightOk(req) /\ SteadyOk(req) /\ ShownOk
        /\ AgreedTotals /\ RefusalsHaveCauses /\ PricesAndOffersWereOpen

-------------------------------------------------------------------------------
(* Rounding *)

LEMMA DivBounds ==
  ASSUME NEW a \in Nat, NEW b \in Nat \ {0}, NEW k \in Nat, a < b * (k + 1)
  PROVE  a \div b \in 0..k
<1>1. PICK q \in Int : q = a \div b  OBVIOUS
<1>2. b * q <= a /\ a < b * (q + 1)  BY <1>1
<1>3. q >= 0  BY <1>2
<1>4. q <= k
  <2>1. SUFFICES ASSUME q >= k + 1 PROVE FALSE  BY <1>1
  <2>2. b * q >= b * (k + 1)  BY <2>1
  <2>. QED  BY <1>2, <2>2
<1>. QED  BY <1>1, <1>3, <1>4

\* n / d rounded is at most k if n is at most d * k.
LEMMA HalfUpBounds ==
  ASSUME NEW n \in Nat, NEW d \in Nat \ {0}, NEW k \in Nat, n <= d * k
  PROVE  HalfUp(n, d) \in 0..k
<1>1. PICK b \in Nat \ {0} : b = 2 * d  OBVIOUS
<1>2. b * (k + 1) = 2 * (d * k) + 2 * d  BY <1>1
<1>3. PICK m \in Nat : m = d * k  OBVIOUS
<1>4. 2 * n + d < b * (k + 1)  BY <1>2, <1>3
<1>5. (2 * n + d) \in Nat  OBVIOUS
<1>6. (2 * n + d) \div b \in 0..k  BY <1>4, <1>5, DivBounds
<1>. QED  BY <1>1, <1>6 DEF HalfUp

-------------------------------------------------------------------------------
(* The choice of a price and of an offer *)

LEMMA PositionsFinite ==
  ASSUME NEW S, NEW s \in Seq(S), NEW C \in SUBSET DOMAIN s
  PROVE  IsFiniteSet(C) /\ C \subseteq Nat
<1>1. Len(s) \in Nat /\ DOMAIN s = 1..Len(s)  OBVIOUS
<1>2. IsFiniteSet(1..Len(s))  BY <1>1, FS_Interval
<1>. QED  BY <1>1, <1>2, FS_Subset

\* The order of prices: by priority, the start of the window and the position.
After(p, f, i, q, g, j) == p > q \/ (p = q /\ f > g) \/ (p = q /\ f = g /\ i > j)

LEMMA AfterOrders ==
  ASSUME NEW p \in Int, NEW f \in Int, NEW i \in Int, NEW q \in Int, NEW g \in Int, NEW j \in Int,
         NEW r \in Int, NEW h \in Int, NEW k \in Int
  PROVE  /\ i # j => After(p, f, i, q, g, j) \/ After(q, g, j, p, f, i)
         /\ After(p, f, i, q, g, j) /\ After(q, g, j, r, h, k) => After(p, f, i, r, h, k)
BY DEF After

LEMMA PriceNumbers ==
  ASSUME NEW x \in PriceRows
  PROVE  Priority[x.book] \in Int /\ x.from \in Int /\ x.amount \in Nat
<1>1. x.book \in Books /\ x.from \in 0..MaxTime /\ x.amount \in Nat  BY DEF PriceRows, Times
<1>2. x.from \in Int  BY <1>1
<1>. QED  BY <1>1, <1>2, PricingAssumption

\* The price that takes precedence is one of the candidates, and there is none without.
LEMMA EffectiveIsCandidate ==
  ASSUME NEW ps \in Seq(PriceRows), NEW v, NEW now \in Nat
  PROVE  /\ Candidates(ps, v, now) = {} => EffectivePrice(ps, v, now) = None
         /\ Candidates(ps, v, now) # {} =>
              /\ EffectivePrice(ps, v, now) \in Nat
              /\ \E i \in Candidates(ps, v, now) : ps[i].amount = EffectivePrice(ps, v, now)
<1>. DEFINE C == Candidates(ps, v, now)
            R == {p \in C \X C : Precedes(ps, p[1], p[2])}
<1>1. C \subseteq DOMAIN ps  BY DEF Candidates
<1>2. IsFiniteSet(C) /\ C \subseteq Nat  BY <1>1, PositionsFinite
<1>3. \A i \in C : ps[i] \in PriceRows  BY <1>1
<1>4. \A i \in C : /\ i \in Int /\ ps[i].amount \in Nat
                  /\ Priority[ps[i].book] \in Int /\ ps[i].from \in Int
  BY <1>2, <1>3, PriceNumbers
<1>5. \A i, j \in C : <<i, j>> \in R <=> Precedes(ps, i, j)  OBVIOUS
<1>6. Connected(R, C)
  <2>1. SUFFICES ASSUME NEW i \in C, NEW j \in C
                 PROVE  i # j => <<i, j>> \in R \/ <<j, i>> \in R
    BY DEF Connected
  <2>2. i # j => Precedes(ps, i, j) \/ Precedes(ps, j, i)
    <3>. HIDE DEF C, R
    <3>. QED  BY <1>4, AfterOrders DEF Precedes, After
  <2>. HIDE DEF C, R
  <2>. QED  BY <1>5, <2>2
<1>7. Transitive(R, C)
  <2>1. SUFFICES ASSUME NEW i \in C, NEW j \in C, NEW k \in C
                 PROVE  <<i, j>> \in R /\ <<j, k>> \in R => <<i, k>> \in R
    BY DEF Transitive
  <2>2. \A m, n \in C : Precedes(ps, m, n) <=>
          After(Priority[ps[m].book], ps[m].from, m, Priority[ps[n].book], ps[n].from, n)
    BY DEF Precedes, After
  <2>3. Precedes(ps, i, j) /\ Precedes(ps, j, k) => Precedes(ps, i, k)
    <3>. HIDE DEF C, R
    <3>. QED  BY <1>4, <2>2, AfterOrders
  <2>. HIDE DEF C, R
  <2>. QED  BY <1>5, <2>3
<1>8. CASE C = {}  BY <1>8 DEF EffectivePrice
<1>9. CASE C # {}
  <2>1. \E i \in C : FirstOf(R, C, i)
    <3>. HIDE DEF C, R
    <3>. QED  BY <1>2, <1>6, <1>7, <1>9, FirstExists
  <2>2. \E i \in C : \A j \in C \ {i} : Precedes(ps, i, j)  BY <1>5, <2>1 DEF FirstOf
  <2>3. PICK i \in C : i = CHOOSE k \in C : \A j \in C \ {k} : Precedes(ps, k, j)
    <3>. HIDE DEF C
    <3>. QED  BY <2>2
  <2>4. EffectivePrice(ps, v, now) = ps[i].amount  BY <1>9, <2>3 DEF EffectivePrice
  <2>. QED  BY <1>4, <1>9, <2>4
<1>. QED  BY <1>8, <1>9

\* The best of some offers is one of them.
LEMMA BestIsOne ==
  ASSUME NEW ps \in Seq(OfferRows), NEW P \in SUBSET DOMAIN ps
  PROVE  BestOf(ps, P) \in P \cup {None} /\ (P # {} => BestOf(ps, P) \in P)
<1>. DEFINE Better(i, j) == \/ ps[i].percent > ps[j].percent
                            \/ ps[i].percent = ps[j].percent /\ i < j
            R == {p \in P \X P : Better(p[1], p[2])}
<1>1. IsFiniteSet(P) /\ P \subseteq Nat  BY PositionsFinite
<1>2. \A i \in P : ps[i].percent \in Nat
  <2>1. \A i \in P : ps[i] \in OfferRows  OBVIOUS
  <2>2. \A x \in OfferRows : x.percent \in 1..100  BY DEF OfferRows
  <2>3. \A n \in 1..100 : n \in Nat  OBVIOUS
  <2>. QED  BY <2>1, <2>2, <2>3
<1>3. \A i, j \in P : <<i, j>> \in R <=> Better(i, j)  OBVIOUS
<1>4. \A i, j \in P : i # j => Better(i, j) \/ Better(j, i)  BY <1>1, <1>2
<1>5. \A i, j, k \in P : Better(i, j) /\ Better(j, k) => Better(i, k)  BY <1>1, <1>2
<1>6. CASE P = {}  BY <1>6 DEF BestOf
<1>7. CASE P # {}
  <2>1. \E i \in P : FirstOf(R, P, i)
    <3>1. Connected(R, P)  BY <1>3, <1>4 DEF Connected
    <3>2. Transitive(R, P)
      <4>. HIDE DEF Better, R
      <4>. QED  BY <1>3, <1>5 DEF Transitive
    <3>. HIDE DEF R
    <3>. QED  BY <1>1, <1>7, <3>1, <3>2, FirstExists
  <2>2. \E i \in P : \A j \in P \ {i} : Better(i, j)
    <3>. HIDE DEF Better, R
    <3>. QED  BY <1>3, <2>1 DEF FirstOf
  <2>3. BestOf(ps, P) = CHOOSE i \in P : \A j \in P \ {i} : Better(i, j)
    BY <1>7 DEF BestOf
  <2>4. (CHOOSE i \in P : \A j \in P \ {i} : Better(i, j)) \in P
    <3>. HIDE DEF Better
    <3>. QED  BY <2>2
  <2>. QED  BY <2>3, <2>4
<1>. QED  BY <1>6, <1>7

-------------------------------------------------------------------------------
(* Amounts *)

\* A line is discounted by no more than it costs and taxed by no more than that leaves.
LEMMA LineBounds ==
  ASSUME NEW b \in [Variants -> Nat], NEW u \in [Variants -> Nat], NEW p \in 0..100,
         NEW v \in Variants
  PROVE  /\ Amount(b, u, v) \in Nat
         /\ Discount(b, u, p, v) \in 0..Amount(b, u, v)
         /\ LineTotal(b, u, p, v) \in 0..Amount(b, u, v)
         /\ LineTax(b, u, p, v) \in 0..LineTotal(b, u, p, v)
<1>1. PICK a \in Nat : a = Amount(b, u, v)  BY DEF Amount
<1>2. HalfUp(a * p, 100) \in 0..a
  <2>1. a * p \in Nat /\ a * p <= 100 * a  OBVIOUS
  <2>. QED  BY <2>1, HalfUpBounds
<1>3. Discount(b, u, p, v) \in 0..a  BY <1>1, <1>2 DEF Discount, LineDiscount
<1>4. PICK t \in Nat : t = LineTotal(b, u, p, v) /\ t \in 0..a
  BY <1>1, <1>3 DEF LineTotal
<1>5. HalfUp(t * TaxRate, 100 + TaxRate) \in 0..t
  <2>1. TaxRate \in Nat  BY PricingAssumption
  <2>2. PICK d \in Nat \ {0} : d = 100 + TaxRate  BY <2>1
  <2>3. t * TaxRate \in Nat /\ t * TaxRate <= d * t  BY <2>1, <2>2
  <2>. QED  BY <2>2, <2>3, HalfUpBounds
<1>. QED  BY <1>1, <1>3, <1>4, <1>5 DEF LineTax, IncludedTax

LEMMA ItemsFinite ==
  ASSUME NEW b PROVE IsFiniteSet(Items(b)) /\ Items(b) \subseteq Variants
BY PricingAssumption, FS_Subset DEF Items

\* What is left of a bag's subtotal after its discounts is the sum of its lines.
LEMMA LinesAddUp ==
  ASSUME NEW b \in [Variants -> Nat], NEW u \in [Variants -> Nat], NEW p \in 0..100
  PROVE  /\ Subtotal(b, u) \in Int /\ Discounts(b, u, p) \in Int
         /\ Subtotal(b, u) - Discounts(b, u, p)
              = SumFunctionOnSet([v \in Variants |-> LineTotal(b, u, p, v)], Items(b))
<1>. DEFINE S == Items(b)
            h == [v \in Variants |-> Amount(b, u, v)]
            g == [v \in Variants |-> Discount(b, u, p, v)]
            f == [v \in Variants |-> LineTotal(b, u, p, v)]
<1>1. IsFiniteSet(S) /\ S \subseteq Variants  BY ItemsFinite
<1>2. \A v \in Variants : Amount(b, u, v) \in Int /\ Discount(b, u, p, v) \in Int
  <2>1. TAKE v \in Variants
  <2>2. Amount(b, u, v) \in Nat /\ Discount(b, u, p, v) \in 0..Amount(b, u, v)  BY LineBounds
  <2>. QED  BY <2>2
<1>3. \A v \in S : f[v] \in Int /\ g[v] \in Int /\ h[v] \in Int /\ h[v] = f[v] + g[v]
  BY <1>1, <1>2 DEF LineTotal
<1>4. Subtotal(b, u) = SumFunctionOnSet(h, S) /\ Discounts(b, u, p) = SumFunctionOnSet(g, S)
  BY DEF Subtotal, Discounts
<1>. HIDE DEF S, f, g, h
<1>5. SumFunctionOnSet(h, S) = SumFunctionOnSet(f, S) + SumFunctionOnSet(g, S)
  BY <1>1, <1>3, SumPlus
<1>6. /\ SumFunctionOnSet(f, S) \in Int /\ SumFunctionOnSet(g, S) \in Int
      /\ SumFunctionOnSet(h, S) \in Int
  BY <1>1, <1>3, SumInt
<1>7. Subtotal(b, u) - Discounts(b, u, p) = SumFunctionOnSet(f, S)  BY <1>4, <1>5, <1>6
<1>. QED  BY <1>4, <1>6, <1>7 DEF f, S

\* Amounts depend on the prices of what is in the bag only.
LEMMA SamePrices ==
  ASSUME NEW b, NEW u, NEW w, NEW p, \A v \in Items(b) : u[v] = w[v]
  PROVE  Subtotal(b, u) = Subtotal(b, w) /\ Discounts(b, u, p) = Discounts(b, w, p)
<1>. DEFINE S == Items(b)
            A(x) == [v \in Variants |-> Amount(b, x, v)]
            D(x) == [v \in Variants |-> Discount(b, x, p, v)]
<1>1. IsFiniteSet(S) /\ S \subseteq Variants  BY ItemsFinite
<1>2. \A v \in S : A(u)[v] = A(w)[v]  BY <1>1 DEF Amount
<1>3. \A v \in S : D(u)[v] = D(w)[v]
  <2>1. \A v \in S : Amount(b, u, v) = Amount(b, w, v)  BY DEF Amount
  <2>. QED  BY <1>1, <2>1 DEF Discount
<1>4. Subtotal(b, u) = SumFunctionOnSet(A(u), S) /\ Subtotal(b, w) = SumFunctionOnSet(A(w), S)
  BY DEF Subtotal
<1>5. /\ Discounts(b, u, p) = SumFunctionOnSet(D(u), S)
      /\ Discounts(b, w, p) = SumFunctionOnSet(D(w), S)
  BY DEF Discounts
<1>. HIDE DEF A, D, S
<1>6. SumFunctionOnSet(A(u), S) = SumFunctionOnSet(A(w), S)  BY <1>1, <1>2, SumSame
<1>7. SumFunctionOnSet(D(u), S) = SumFunctionOnSet(D(w), S)  BY <1>1, <1>3, SumSame
<1>. QED  BY <1>4, <1>5, <1>6, <1>7

-------------------------------------------------------------------------------
(* Requests *)

LEMMA IdleOk == RequestOk(Idle) /\ Idle.op = "none" /\ Idle.at = "idle"
<1>1. Nothing \in [Variants -> Nat]  BY DEF Nothing
<1>. QED  BY <1>1 DEF Idle, RequestOk, Requests

\* Promotions that take a code exist, and so do their numbers.
LEMMA OptInNumbers ==
  ASSUME CatalogOk
  PROVE  OptIn(coupons) \subseteq DOMAIN promotions /\ DOMAIN promotions \subseteq Nat
<1>1. DOMAIN promotions = 1..Len(promotions) /\ Len(promotions) \in Nat  BY DEF CatalogOk
<1>2. DOMAIN coupons = Codes /\ \A c \in Codes : coupons[c] \in DOMAIN promotions \cup {None}
  BY DEF CatalogOk
<1>. QED  BY <1>1, <1>2 DEF OptIn

LEMMA BeginOk ==
  ASSUME CatalogOk, ShopperOk, NEW op \in {"quote", "coupon", "checkout"},
         NEW at \in {"offer", "price"}, NEW code \in Codes \cup {None},
         NEW expected \in Int \cup {None}, (op = "checkout") <=> (at = "price")
  PROVE  RequestOk(Begin(op, at, code, expected))
<1>1. Nothing \in [Variants -> Nat]  BY DEF Nothing
<1>2. Items(bag) \in SUBSET Variants  BY DEF Items
<1>3. Len(prices) \in Nat /\ clock \in Nat  BY CatalogAssumption DEF CatalogOk, Times
<1>4. OptIn(coupons) \in SUBSET Nat  BY OptInNumbers
<1>5. Begin(op, at, code, expected) \in Requests
  BY <1>1, <1>2, <1>3, <1>4 DEF Begin, Requests
<1>. QED  BY <1>5 DEF Begin, RequestOk

\* A request in flight is at a step of its own.
LEMMA InFlight ==
  ASSUME RequestOk(req), req.at # "idle"
  PROVE  req.op # "none" /\ req.op \in {"quote", "coupon", "checkout"}
<1>1. req.op # "none"  BY IdleOk DEF RequestOk
<1>. QED  BY <1>1 DEF RequestOk, Requests

LEMMA PricedOk ==
  ASSUME RequestOk(req), req.at # "idle", NEW v \in Variants, NEW amount \in Nat
  PROVE  LET r == Priced(v, amount) IN
         /\ RequestOk(r)
         /\ r.op = req.op /\ r.at = "price" /\ r.code = req.code /\ r.offer = req.offer
         /\ r.expected = req.expected /\ r.priced = req.priced /\ r.optIn = req.optIn
         /\ r.began = req.began /\ r.left = req.left \ {v}
         /\ r.unit[v] = amount /\ \A w \in Variants : w # v => r.unit[w] = req.unit[w]
<1>. DEFINE r == Priced(v, amount)
            u == [req.unit EXCEPT ![v] = amount]
<1>1. req \in Requests /\ req.op # "none"  BY InFlight DEF RequestOk
<1>2. req.unit \in [Variants -> Nat] /\ req.left \ {v} \in SUBSET Variants
  BY <1>1 DEF Requests
<1>3. u \in [Variants -> Nat]  BY <1>2
<1>4. u[v] = amount /\ \A w \in Variants : w # v => u[w] = req.unit[w]  BY <1>2
<1>5. r = [req EXCEPT !.at = "price", !.left = req.left \ {v}, !.item = None, !.unit = u]
  BY <1>1 DEF Priced, Requests
<1>. HIDE DEF u, r
<1>6. /\ r.op = req.op /\ r.at = "price" /\ r.code = req.code /\ r.offer = req.offer
      /\ r.expected = req.expected /\ r.priced = req.priced /\ r.optIn = req.optIn
      /\ r.began = req.began /\ r.left = req.left \ {v} /\ r.unit = u
  BY <1>1, <1>5 DEF Requests
<1>7. r \in Requests  BY <1>1, <1>2, <1>3, <1>5 DEF Requests
<1>8. RequestOk(r)  BY <1>1, <1>6, <1>7 DEF RequestOk
<1>. QED  BY <1>4, <1>6, <1>8 DEF r

-------------------------------------------------------------------------------
(* Steps that change little besides the request *)

LEMMA StepsKeep ==
  ASSUME QInv, NEW r, Steps(r), RequestOk(r), FlightOk(r), SteadyOk(r)
  PROVE  QInv'
<1>1. /\ req' = r
      /\ UNCHANGED <<clock, prices, promotions, coupons, bag, coupon, shown, steady, turned, order>>
  BY DEF Steps, catalogVars
<1>2. CatalogOk' /\ ShopperOk'  BY <1>1 DEF QInv, CatalogOk, ShopperOk
<1>3. RequestOk(req)'  BY <1>1 DEF RequestOk
<1>4. FlightOk(req)'  BY <1>1 DEF FlightOk, Found
<1>5. SteadyOk(req)'
  BY <1>1 DEF SteadyOk, CurrentPrice, OfferFor, FailsFor
<1>6. ShownOk'
  <2>1. Prevailing' = Prevailing /\ OfferFor(coupon)' = OfferFor(coupon)
    BY <1>1 DEF Prevailing, CurrentPrice, OfferFor, FailsFor
  <2>. QED  BY <1>1, <2>1 DEF QInv, ShownOk, QuoteTotal, PercentOf
<1>7. AgreedTotals' /\ RefusalsHaveCauses' /\ PricesAndOffersWereOpen'
  BY <1>1 DEF QInv, AgreedTotals, RefusalsHaveCauses, PricesAndOffersWereOpen
<1>. QED  BY <1>2, <1>3, <1>4, <1>5, <1>6, <1>7 DEF QInv

\* An answer is a change only if there was none before that the shopper is told of.
LEMMA RefuseKeeps ==
  ASSUME QInv, NEW why, Refuse(why), why = "price_changed" => ~steady
  PROVE  QInv'
<1>1. /\ req' = Idle /\ turned' = (why = "price_changed")
      /\ UNCHANGED <<clock, prices, promotions, coupons, bag, coupon, shown, steady, order>>
  BY DEF Refuse, catalogVars
<1>2. CatalogOk' /\ ShopperOk'  BY <1>1 DEF QInv, CatalogOk, ShopperOk
<1>3. RequestOk(req)' /\ FlightOk(req)' /\ SteadyOk(req)'
  BY <1>1, IdleOk DEF RequestOk, FlightOk, SteadyOk
<1>4. ShownOk'
  <2>1. Prevailing' = Prevailing /\ OfferFor(coupon)' = OfferFor(coupon)
    BY <1>1 DEF Prevailing, CurrentPrice, OfferFor, FailsFor
  <2>. QED  BY <1>1, <2>1 DEF QInv, ShownOk, QuoteTotal, PercentOf
<1>5. AgreedTotals' /\ PricesAndOffersWereOpen'
  BY <1>1 DEF QInv, AgreedTotals, PricesAndOffersWereOpen
<1>6. RefusalsHaveCauses'  BY <1>1 DEF RefusalsHaveCauses
<1>. QED  BY <1>2, <1>3, <1>4, <1>5, <1>6 DEF QInv

-------------------------------------------------------------------------------
(* The steps of the shopper *)

LEMMA InitQInv == Init => QInv
<1>. SUFFICES ASSUME Init PROVE QInv  OBVIOUS
<1>1. CatalogOk
  <2>1. 0 \in Times  BY CatalogAssumption DEF Times
  <2>. QED  BY <2>1 DEF Init, CatalogInit, CatalogOk
<1>2. ShopperOk
  <2>1. Nothing \in [Variants -> 0..MaxQuantity]  BY QuantityAssumption DEF Nothing
  <2>. QED  BY <2>1 DEF Init, ShopperOk
<1>. QED  BY <1>1, <1>2, IdleOk DEF Init, QInv, FlightOk, SteadyOk, ShownOk, AgreedTotals,
     RefusalsHaveCauses, PricesAndOffersWereOpen

LEMMA EditKeeps ==
  ASSUME QInv, NEW v \in Variants, NEW q \in 0..MaxQuantity, Edit(v, q)
  PROVE  QInv'
<1>1. /\ req = Idle /\ order = None /\ bag' = [bag EXCEPT ![v] = q] /\ steady' = FALSE
      /\ UNCHANGED <<clock, prices, promotions, coupons, coupon, req, shown, turned, order>>
  BY DEF Edit, catalogVars
<1>2. CatalogOk' /\ ShopperOk'  BY <1>1 DEF QInv, CatalogOk, ShopperOk
<1>3. RequestOk(req)' /\ FlightOk(req)' /\ SteadyOk(req)'
  BY <1>1, IdleOk DEF RequestOk, FlightOk, SteadyOk
<1>. QED  BY <1>1, <1>2, <1>3 DEF QInv, ShownOk, AgreedTotals, RefusalsHaveCauses,
     PricesAndOffersWereOpen

\* What is known of the clock, the tables and a price when it is looked up.
LEMMA PriceNow ==
  ASSUME CatalogOk, NEW v \in Variants
  PROVE  LET p == EffectivePrice(prices, v, clock) IN
         /\ clock \in Nat
         /\ p # None => /\ p \in Nat
                        /\ \E i \in DOMAIN prices :
                             i \in Candidates(prices, v, clock) /\ prices[i].amount = p
<1>1. clock \in Nat /\ prices \in Seq(PriceRows)  BY CatalogAssumption DEF CatalogOk, Times
<1>2. Candidates(prices, v, clock) \subseteq DOMAIN prices  BY DEF Candidates
<1>. QED  BY <1>1, <1>2, EffectiveIsCandidate

\* A price that is found leaves the others as they are.
LEMMA PricedFlight ==
  ASSUME QInv, req.at # "idle", NEW v \in req.left, NEW amount \in Nat,
         Found(Priced(v, amount), v)
  PROVE  RequestOk(Priced(v, amount)) /\ FlightOk(Priced(v, amount))
<1>. DEFINE r == Priced(v, amount)
<1>1. RequestOk(req) /\ FlightOk(req) /\ req.op # "none"  BY InFlight DEF QInv
<1>2. v \in Variants  BY <1>1 DEF RequestOk, Requests
<1>3. /\ RequestOk(r)
      /\ r.op = req.op /\ r.at = "price" /\ r.code = req.code /\ r.offer = req.offer
      /\ r.expected = req.expected /\ r.priced = req.priced /\ r.optIn = req.optIn
      /\ r.began = req.began /\ r.left = req.left \ {v}
      /\ \A w \in Variants : w # v => r.unit[w] = req.unit[w]
  BY <1>1, <1>2, PricedOk
<1>. HIDE DEF r
<1>4. \A w \in Items(bag) \ r.left : Found(r, w)
  <2>1. TAKE w \in Items(bag) \ r.left
  <2>2. CASE w = v  BY <2>2 DEF r
  <2>3. CASE w # v
    <3>1. w \in Variants /\ w \in Items(bag) \ req.left  BY <1>3, <2>1, <2>3 DEF Items
    <3>2. Found(req, w)  BY <1>1, <3>1 DEF FlightOk
    <3>3. r.unit[w] = req.unit[w]  BY <1>3, <2>3, <3>1
    <3>. QED  BY <1>3, <3>2, <3>3 DEF Found
  <2>. QED  BY <2>2, <2>3
<1>5. FlightOk(r)  BY <1>1, <1>3, <1>4 DEF FlightOk
<1>. QED  BY <1>3, <1>5 DEF r

\* While nothing changes, the price that is found is the one that prevails.
LEMMA PricedSteady ==
  ASSUME QInv, req.at \in {"price", "fallback"}, NEW v \in req.left, NEW amount \in Nat,
         steady => amount = CurrentPrice(v)
  PROVE  SteadyOk(Priced(v, amount))
<1>. DEFINE r == Priced(v, amount)
<1>1. RequestOk(req) /\ SteadyOk(req) /\ req.op # "none"  BY InFlight DEF QInv
<1>2. v \in Variants  BY <1>1 DEF RequestOk, Requests
<1>3. /\ r.op = req.op /\ r.at = "price" /\ r.code = req.code /\ r.offer = req.offer
      /\ r.left = req.left \ {v} /\ r.unit[v] = amount
      /\ \A w \in Variants : w # v => r.unit[w] = req.unit[w]
  BY <1>1, <1>2, PricedOk
<1>. HIDE DEF r
<1>4. SUFFICES ASSUME steady
               PROVE  /\ \A w \in Items(bag) \ r.left : r.unit[w] = CurrentPrice(w)
                      /\ r.op \in {"quote", "coupon"} => r.offer = OfferFor(r.code)
  BY <1>3 DEF SteadyOk, r
<1>5. \A w \in Items(bag) \ r.left : r.unit[w] = CurrentPrice(w)
  <2>1. TAKE w \in Items(bag) \ r.left
  <2>2. CASE w = v  BY <1>3, <1>4, <2>2
  <2>3. CASE w # v
    <3>1. w \in Variants /\ w \in Items(bag) \ req.left  BY <1>3, <2>1, <2>3 DEF Items
    <3>. QED  BY <1>1, <1>3, <1>4, <2>3, <3>1 DEF SteadyOk
  <2>. QED  BY <2>2, <2>3
<1>. QED  BY <1>1, <1>3, <1>4, <1>5 DEF SteadyOk

LEMMA LookUpPriceKeeps ==
  ASSUME QInv, NEW v \in Variants, LookUpPrice(v)
  PROVE  QInv'
<1>. DEFINE p == EffectivePrice(prices, v, clock)
            s == [req EXCEPT !.at = "fallback", !.item = v]
<1>1. /\ req.at = "price" /\ v \in req.left
      /\ (p # None /\ Steps(Priced(v, p))) \/ (p = None /\ Steps(s))
  BY DEF LookUpPrice
<1>2. RequestOk(req) /\ FlightOk(req) /\ SteadyOk(req) /\ CatalogOk /\ req.op # "none"
  BY <1>1, InFlight DEF QInv
<1>3. CASE p # None /\ Steps(Priced(v, p))
  <2>1. /\ clock \in Nat /\ p \in Nat
        /\ \E i \in DOMAIN prices : i \in Candidates(prices, v, clock) /\ prices[i].amount = p
    BY <1>2, <1>3, PriceNow
  <2>. HIDE DEF p
  <2>2. /\ Priced(v, p).unit[v] = p /\ Priced(v, p).began = req.began
    BY <1>1, <1>2, <2>1, PricedOk
  <2>3. clock \in Priced(v, p).began..clock
    <3>1. req.began \in Nat /\ req.began <= clock
      BY <1>2 DEF RequestOk, Requests, FlightOk
    <3>. QED  BY <2>1, <2>2, <3>1
  <2>4. Found(Priced(v, p), v)  BY <2>1, <2>2, <2>3 DEF Found
  <2>5. RequestOk(Priced(v, p)) /\ FlightOk(Priced(v, p))
    BY <1>1, <2>1, <2>4, PricedFlight
  <2>6. p = CurrentPrice(v)  BY <1>3 DEF CurrentPrice, p
  <2>7. SteadyOk(Priced(v, p))  BY <1>1, <2>1, <2>6, PricedSteady
  <2>. QED  BY <1>3, <2>5, <2>7, StepsKeep
<1>4. CASE p = None /\ Steps(s)
  <2>1. /\ s \in Requests /\ s.at = "fallback" /\ s.item = v
        /\ s.op = req.op /\ s.code = req.code /\ s.offer = req.offer
        /\ s.expected = req.expected /\ s.priced = req.priced /\ s.optIn = req.optIn
        /\ s.began = req.began /\ s.left = req.left /\ s.unit = req.unit
    BY <1>2 DEF RequestOk, Requests
  <2>. HIDE DEF s
  <2>2. RequestOk(s)  BY <1>2, <2>1 DEF RequestOk
  <2>3. FlightOk(s)  BY <1>1, <1>2, <2>1 DEF FlightOk, Found
  <2>4. SteadyOk(s)  BY <1>1, <1>2, <1>4, <2>1 DEF SteadyOk
  <2>. QED  BY <1>4, <2>2, <2>3, <2>4, StepsKeep
<1>. QED  BY <1>1, <1>3, <1>4

LEMMA FallBackKeeps ==
  ASSUME QInv, FallBack PROVE QInv'
<1>. DEFINE v == req.item
<1>1. req.at = "fallback"  BY DEF FallBack
<1>2. /\ RequestOk(req) /\ FlightOk(req) /\ SteadyOk(req) /\ CatalogOk /\ req.op # "none"
      /\ v \in req.left
  BY <1>1, InFlight DEF QInv, FlightOk
<1>3. v \in Variants /\ LegacyPrice[v] \in Nat
  <2>1. v \in Variants  BY <1>2 DEF RequestOk, Requests
  <2>. QED  BY <2>1, PricingAssumption
<1>4. CASE Refuse("price_unavailable")  BY <1>4, RefuseKeeps
<1>5. CASE v \notin Configured(prices, clock) /\ Steps(Priced(v, LegacyPrice[v]))
  <2>1. \A i \in 1..req.priced : prices[i].variant # v
    <3>1. req.priced \in Nat /\ req.priced <= Len(prices)
      BY <1>2 DEF RequestOk, Requests, FlightOk
    <3>2. DOMAIN prices = 1..Len(prices) /\ Len(prices) \in Nat  BY <1>2 DEF CatalogOk
    <3>3. 1..req.priced \subseteq DOMAIN prices  BY <3>1, <3>2
    <3>. QED  BY <1>5, <3>3 DEF Configured
  <2>2. LET r == Priced(v, LegacyPrice[v]) IN
        r.unit[v] = LegacyPrice[v] /\ r.priced = req.priced
    BY <1>1, <1>2, <1>3, PricedOk
  <2>3. Found(Priced(v, LegacyPrice[v]), v)  BY <2>1, <2>2 DEF Found
  <2>4. RequestOk(Priced(v, LegacyPrice[v])) /\ FlightOk(Priced(v, LegacyPrice[v]))
    BY <1>1, <1>2, <1>3, <2>3, PricedFlight
  <2>5. steady => LegacyPrice[v] = CurrentPrice(v)
    BY <1>1, <1>2, <1>5 DEF SteadyOk, CurrentPrice
  <2>6. SteadyOk(Priced(v, LegacyPrice[v]))
    <3>. HIDE DEF v
    <3>. QED  BY <1>1, <1>2, <1>3, <2>5, PricedSteady
  <2>. QED  BY <1>5, <2>4, <2>6, StepsKeep
<1>. QED  BY <1>4, <1>5 DEF FallBack

\* The offer is a promotion that runs, and takes the code of the request or none at all.
LEMMA OfferOpen ==
  ASSUME CatalogOk, NEW code \in Codes \cup {None}
  PROVE  /\ OfferFor(code) \in DOMAIN promotions \cup {None}
         /\ OfferFor(code) # None =>
              /\ InForce(promotions[OfferFor(code)], clock)
              /\ IF code = None THEN OfferFor(code) \notin OptIn(coupons)
                 ELSE coupons[code] = OfferFor(code)
<1>. DEFINE A == Automatic(promotions, coupons, clock)
<1>1. A \subseteq DOMAIN promotions /\ promotions \in Seq(OfferRows)
  BY DEF Automatic, Running, CatalogOk
<1>2. CASE code = None
  <2>1. OfferFor(code) = BestOf(promotions, A)  BY <1>2 DEF OfferFor, FailsFor
  <2>2. OfferFor(code) \in A \cup {None}
    <3>. HIDE DEF A
    <3>. QED  BY <1>1, <2>1, BestIsOne
  <2>. QED  BY <1>1, <1>2, <2>2 DEF Automatic, Running
<1>3. CASE code # None
  <2>1. OfferFor(code) = IF coupons[code] \notin Running(promotions, clock) THEN None
                         ELSE coupons[code]
    BY <1>3 DEF OfferFor, FailsFor
  <2>. QED  BY <1>3, <2>1 DEF Running
<1>. QED  BY <1>2, <1>3

LEMMA PercentBounds ==
  ASSUME CatalogOk, NEW offer \in DOMAIN promotions \cup {None}
  PROVE  PercentOf(offer) \in 0..100
<1>1. CASE offer = None  BY <1>1 DEF PercentOf
<1>2. CASE offer # None
  <2>1. promotions[offer] \in OfferRows  BY <1>2 DEF CatalogOk
  <2>2. promotions[offer].percent \in 1..100  BY <2>1 DEF OfferRows
  <2>. QED  BY <1>2, <2>2 DEF PercentOf
<1>. QED  BY <1>1, <1>2

LEMMA QuoteOfferKeeps ==
  ASSUME QInv, QuoteOffer PROVE QInv'
<1>. DEFINE offer == OfferFor(req.code)
            s == [req EXCEPT !.at = "price", !.offer = offer]
<1>1. req.op \in {"quote", "coupon"} /\ req.at = "offer"  BY DEF QuoteOffer
<1>2. RequestOk(req) /\ FlightOk(req) /\ CatalogOk  BY DEF QInv
<1>3. CASE Refuse("coupon_unavailable")  BY <1>3, RefuseKeeps
<1>4. CASE Steps(s)
  <2>1. req \in Requests /\ req.code \in Codes \cup {None}  BY <1>2 DEF RequestOk, Requests
  <2>2. offer \in DOMAIN promotions \cup {None}  BY <1>2, <2>1, OfferOpen
  <2>. HIDE DEF offer
  <2>3. offer \in Nat \cup {None}  BY <1>2, <2>2, OptInNumbers
  <2>4. /\ s \in Requests /\ s.at = "price" /\ s.offer = offer
        /\ s.op = req.op /\ s.code = req.code /\ s.item = req.item
        /\ s.expected = req.expected /\ s.priced = req.priced /\ s.optIn = req.optIn
        /\ s.began = req.began /\ s.left = req.left /\ s.unit = req.unit
    BY <2>1, <2>3 DEF Requests
  <2>. HIDE DEF s
  <2>5. RequestOk(s)  BY <1>1, <1>2, <2>4 DEF RequestOk
  <2>6. FlightOk(s)  BY <1>1, <1>2, <2>2, <2>4 DEF FlightOk, Found
  <2>7. Items(bag) \ s.left = {}  BY <1>1, <1>2, <2>4 DEF FlightOk
  <2>8. SteadyOk(s)  BY <2>4, <2>7 DEF SteadyOk, offer
  <2>. QED  BY <1>4, <2>5, <2>6, <2>8, StepsKeep
<1>5. ASSUME ~CouponFails, Steps([req EXCEPT !.at = "price", !.offer = Offer])
      PROVE  Steps(s)
  <2>1. Offer = offer  BY <1>5 DEF Offer, OfferFor, FailsFor, CouponFails
  <2>. QED  BY <1>5, <2>1
<1>6. ASSUME CouponFails, Steps([req EXCEPT !.at = "price"])
      PROVE  Steps(s)
  <2>1. offer = None  BY <1>6 DEF OfferFor, FailsFor, CouponFails
  <2>2. req.offer = None => [req EXCEPT !.at = "price"] = s
    BY <1>2, <2>1 DEF RequestOk, Requests
  <2>. QED  BY <1>1, <1>2, <1>6, <2>2 DEF FlightOk
<1>. QED  BY <1>3, <1>4, <1>5, <1>6 DEF QuoteOffer

\* The total of a quote is a number, and depends on the prices of the bag only.
LEMMA QuoteAmount ==
  ASSUME ShopperOk, NEW u \in [Variants -> Nat], NEW percent \in 0..100
  PROVE  QuoteTotal(u, percent) \in Int
<1>1. bag \in [Variants -> Nat]
  <2>1. \A n \in 0..MaxQuantity : n \in Nat  OBVIOUS
  <2>. QED  BY <2>1 DEF ShopperOk
<1>2. Subtotal(bag, u) \in Int /\ Discounts(bag, u, percent) \in Int  BY <1>1, LinesAddUp
<1>. QED  BY <1>2, PricingAssumption DEF QuoteTotal

LEMMA FinishQuoteKeeps ==
  ASSUME QInv, FinishQuote PROVE QInv'
<1>1. /\ req.op \in {"quote", "coupon"} /\ req.at = "price" /\ req.left = {}
      /\ shown' = QuoteTotal(req.unit, PercentOf(req.offer))
      /\ coupon' = req.code /\ req' = Idle
      /\ UNCHANGED <<clock, prices, promotions, coupons, bag, steady, turned, order>>
  BY DEF FinishQuote, catalogVars
<1>2. RequestOk(req) /\ FlightOk(req) /\ SteadyOk(req) /\ CatalogOk /\ ShopperOk
  BY DEF QInv
<1>3. /\ req.code \in Codes \cup {None} /\ req.unit \in [Variants -> Nat]
      /\ req.offer \in DOMAIN promotions \cup {None} /\ order = None
  BY <1>1, <1>2 DEF RequestOk, Requests, FlightOk
<1>4. shown' \in Int  BY <1>1, <1>2, <1>3, PercentBounds, QuoteAmount
<1>5. CatalogOk' /\ ShopperOk'  BY <1>1, <1>2, <1>3, <1>4 DEF CatalogOk, ShopperOk
<1>6. RequestOk(req)' /\ FlightOk(req)' /\ SteadyOk(req)'
  BY <1>1, IdleOk DEF RequestOk, FlightOk, SteadyOk
<1>7. ShownOk'
  <2>1. SUFFICES ASSUME steady PROVE shown' = QuoteTotal(Prevailing, PercentOf(OfferFor(coupon)))'
    BY <1>1 DEF ShownOk
  <2>2. Prevailing' = Prevailing /\ OfferFor(coupon)' = OfferFor(req.code)
    BY <1>1 DEF Prevailing, CurrentPrice, OfferFor, FailsFor
  <2>3. req.offer = OfferFor(req.code)  BY <1>1, <1>2, <2>1 DEF SteadyOk
  <2>4. \A v \in Items(bag) : req.unit[v] = Prevailing[v]
    BY <1>1, <1>2, <2>1, ItemsFinite DEF SteadyOk, Prevailing
  <2>5. PICK percent : percent = PercentOf(req.offer)  OBVIOUS
  <2>6. QuoteTotal(req.unit, percent) = QuoteTotal(Prevailing, percent)
    <3>1. /\ Subtotal(bag, req.unit) = Subtotal(bag, Prevailing)
          /\ Discounts(bag, req.unit, percent) = Discounts(bag, Prevailing, percent)
      BY <2>4, SamePrices
    <3>. QED  BY <3>1 DEF QuoteTotal
  <2>7. QuoteTotal(Prevailing, PercentOf(OfferFor(coupon)))' = QuoteTotal(Prevailing, percent)
    BY <1>1, <2>2, <2>3, <2>5 DEF QuoteTotal, PercentOf
  <2>. QED  BY <1>1, <2>5, <2>6, <2>7
<1>8. AgreedTotals' /\ RefusalsHaveCauses' /\ PricesAndOffersWereOpen'
  BY <1>1, <1>3 DEF QInv, AgreedTotals, RefusalsHaveCauses, PricesAndOffersWereOpen
<1>. QED  BY <1>5, <1>6, <1>7, <1>8 DEF QInv

\* A request that begins has found nothing yet.
LEMMA BeginFlight ==
  ASSUME CatalogOk, ShopperOk, order = None, NEW op \in {"quote", "coupon", "checkout"},
         NEW at \in {"offer", "price"}, NEW code \in Codes \cup {None},
         NEW expected \in Int \cup {None}, (op = "checkout") <=> (at = "price"),
         op = "checkout" => expected \in {None, shown} /\ code = coupon /\ Items(bag) # {}
  PROVE  LET r == Begin(op, at, code, expected) IN
         RequestOk(r) /\ FlightOk(r) /\ SteadyOk(r)
<1>. DEFINE r == Begin(op, at, code, expected)
<1>1. RequestOk(r)  BY BeginOk
<1>2. /\ r.op = op /\ r.at = at /\ r.code = code /\ r.left = Items(bag) /\ r.offer = None
      /\ r.expected = expected /\ r.priced = Len(prices) /\ r.optIn = OptIn(coupons)
      /\ r.began = clock
  BY DEF Begin
<1>3. clock \in Nat /\ Len(prices) \in Nat  BY CatalogAssumption DEF CatalogOk, Times
<1>. HIDE DEF r
<1>4. FlightOk(r)  BY <1>2, <1>3 DEF FlightOk
<1>5. SteadyOk(r)  BY <1>2 DEF SteadyOk
<1>. QED  BY <1>1, <1>4, <1>5 DEF r

LEMMA BeginQuoteKeeps ==
  ASSUME QInv, NEW op \in {"quote", "coupon"}, NEW code \in Codes \cup {None},
         BeginQuote(op, code)
  PROVE  QInv'
<1>. DEFINE r == Begin(op, "offer", code, None)
<1>1. /\ order = None /\ req' = r /\ shown' = None /\ steady' = TRUE /\ turned' = FALSE
      /\ UNCHANGED <<clock, prices, promotions, coupons, bag, coupon, order>>
  BY DEF BeginQuote, catalogVars
<1>2. RequestOk(r) /\ FlightOk(r)  BY <1>1, BeginFlight DEF QInv
<1>3. r.left = Items(bag) /\ r.at = "offer"  BY DEF Begin
<1>. HIDE DEF r
<1>4. CatalogOk' /\ ShopperOk'  BY <1>1 DEF QInv, CatalogOk, ShopperOk
<1>5. RequestOk(req)' /\ FlightOk(req)'
  BY <1>1, <1>2, <1>3, BeginFlight DEF RequestOk, FlightOk
<1>6. SteadyOk(req)'  BY <1>1, <1>3 DEF SteadyOk
<1>. QED  BY <1>1, <1>4, <1>5, <1>6 DEF QInv, ShownOk, AgreedTotals, RefusalsHaveCauses,
     PricesAndOffersWereOpen

LEMMA BeginCheckoutKeeps ==
  ASSUME QInv, NEW expected \in {shown, None}, BeginCheckout(expected)
  PROVE  QInv'
<1>. DEFINE r == Begin("checkout", "price", coupon, expected)
<1>1. /\ order = None /\ Items(bag) # {} /\ req' = r /\ turned' = FALSE
      /\ UNCHANGED <<clock, prices, promotions, coupons, bag, coupon, shown, steady, order>>
  BY DEF BeginCheckout, catalogVars
<1>2. /\ expected \in Int \cup {None} /\ coupon \in Codes \cup {None}
      /\ CatalogOk /\ ShopperOk /\ ShownOk
  BY DEF QInv, ShopperOk
<1>3. RequestOk(r) /\ FlightOk(r)  BY <1>1, <1>2, BeginFlight
<1>4. r.left = Items(bag) /\ r.at = "price" /\ r.op = "checkout"  BY DEF Begin
<1>. HIDE DEF r
<1>5. CatalogOk' /\ ShopperOk'  BY <1>1, <1>2 DEF CatalogOk, ShopperOk
<1>6. RequestOk(req)' /\ FlightOk(req)'
  BY <1>1, <1>3, <1>4 DEF RequestOk, FlightOk, Found
<1>7. SteadyOk(req)'  BY <1>1, <1>4 DEF SteadyOk
<1>8. ShownOk'
  <2>1. Prevailing' = Prevailing /\ OfferFor(coupon)' = OfferFor(coupon)
    BY <1>1 DEF Prevailing, CurrentPrice, OfferFor, FailsFor
  <2>. QED  BY <1>1, <1>2, <2>1 DEF ShownOk, QuoteTotal, PercentOf
<1>. QED  BY <1>1, <1>5, <1>6, <1>7, <1>8 DEF QInv, AgreedTotals, RefusalsHaveCauses,
     PricesAndOffersWereOpen

\* What a checkout that has all its prices orders, and for how much.
OrderTotal == Subtotal(bag, req.unit) - Discounts(bag, req.unit, PercentOf(OfferFor(req.code)))
                + Shipping
OrderRow == [bag |-> bag, unit |-> req.unit, percent |-> PercentOf(OfferFor(req.code)),
             total |-> OrderTotal, request |-> [req EXCEPT !.offer = OfferFor(req.code)]]

\* A checkout that finds another total than was shown has missed a change.
LEMMA ChangeIsReal ==
  ASSUME QInv, req.op = "checkout", req.left = {}, ~FailsFor(req.code), ~Agrees(OrderTotal)
  PROVE  ~steady
<1>1. SUFFICES ASSUME steady PROVE FALSE  OBVIOUS
<1>2. RequestOk(req) /\ FlightOk(req) /\ SteadyOk(req) /\ ShownOk  BY DEF QInv
<1>3. req.expected \in {None, shown} /\ req.code = coupon /\ Items(bag) # {}
  BY <1>2 DEF FlightOk
<1>4. req.expected = shown /\ shown # None  BY <1>3 DEF Agrees
<1>5. PICK percent : percent = PercentOf(OfferFor(coupon))  OBVIOUS
<1>6. shown = QuoteTotal(Prevailing, percent)  BY <1>1, <1>2, <1>4, <1>5 DEF ShownOk
<1>7. \A v \in Items(bag) : req.unit[v] = Prevailing[v]
  BY <1>1, <1>2, ItemsFinite DEF SteadyOk, Prevailing
<1>8. /\ Subtotal(bag, req.unit) = Subtotal(bag, Prevailing)
      /\ Discounts(bag, req.unit, percent) = Discounts(bag, Prevailing, percent)
  BY <1>7, SamePrices
<1>9. OrderTotal = shown  BY <1>3, <1>5, <1>6, <1>8 DEF OrderTotal, QuoteTotal
<1>. QED  BY <1>4, <1>9 DEF Agrees

\* The order that is placed has the total its lines add up to.
LEMMA OrderAgrees ==
  ASSUME QInv, req.op = "checkout", Agrees(OrderTotal), order' = OrderRow
  PROVE  AgreedTotals'
<1>1. RequestOk(req) /\ CatalogOk /\ ShopperOk  BY DEF QInv
<1>2. req \in Requests /\ req.unit \in [Variants -> Nat] /\ req.code \in Codes \cup {None}
  BY <1>1 DEF RequestOk, Requests
<1>3. PICK p \in 0..100 : p = PercentOf(OfferFor(req.code))
  BY <1>1, <1>2, OfferOpen, PercentBounds
<1>4. bag \in [Variants -> Nat]
  <2>1. \A n \in 0..MaxQuantity : n \in Nat  OBVIOUS
  <2>. QED  BY <1>1, <2>1 DEF ShopperOk
<1>5. /\ order'.bag = bag /\ order'.unit = req.unit /\ order'.percent = p
      /\ order'.total = OrderTotal /\ order'.request.expected = req.expected
  BY <1>2, <1>3 DEF OrderRow, Requests
<1>6. order'.request.expected \in {None, order'.total}  BY <1>5 DEF Agrees
<1>7. OrderTotal = Shipping + SumFunctionOnSet(
        [v \in Variants |-> LineTotal(bag, req.unit, p, v)], Items(bag))
  <2>1. /\ Subtotal(bag, req.unit) \in Int /\ Discounts(bag, req.unit, p) \in Int
        /\ Subtotal(bag, req.unit) - Discounts(bag, req.unit, p) =
             SumFunctionOnSet([v \in Variants |-> LineTotal(bag, req.unit, p, v)], Items(bag))
    BY <1>2, <1>4, LinesAddUp
  <2>. DEFINE total == SumFunctionOnSet(
                [v \in Variants |-> LineTotal(bag, req.unit, p, v)], Items(bag))
  <2>2. Subtotal(bag, req.unit) - Discounts(bag, req.unit, p) = total  BY <2>1
  <2>. HIDE DEF total
  <2>3. OrderTotal = Shipping + total
    BY <1>3, <2>1, <2>2, PricingAssumption DEF OrderTotal
  <2>. QED  BY <2>3 DEF total
<1>8. \A v \in Items(bag) :
        /\ LineTotal(bag, req.unit, p, v) \in 0..Amount(bag, req.unit, v)
        /\ LineTax(bag, req.unit, p, v) \in 0..LineTotal(bag, req.unit, p, v)
  BY <1>2, <1>4, LineBounds, ItemsFinite
<1>. QED  BY <1>5, <1>6, <1>7, <1>8 DEF AgreedTotals

\* The order that is placed has prices and an offer that were open.
LEMMA OrderWasOpen ==
  ASSUME QInv, req.op = "checkout", req.left = {}, order' = OrderRow,
         UNCHANGED <<clock, prices, promotions, coupons>>
  PROVE  PricesAndOffersWereOpen'
<1>1. RequestOk(req) /\ FlightOk(req) /\ CatalogOk  BY DEF QInv
<1>2. req \in Requests /\ req.code \in Codes \cup {None}  BY <1>1 DEF RequestOk, Requests
<1>. DEFINE r == order'.request
            offer == OfferFor(req.code)
<1>3. /\ order'.bag = bag /\ order'.unit = req.unit
      /\ r.began = req.began /\ r.priced = req.priced /\ r.code = req.code
      /\ r.optIn = req.optIn /\ r.offer = offer
  BY <1>2 DEF OrderRow, Requests
<1>4. \A v \in Items(bag) : Found(req, v)  BY <1>1 DEF FlightOk
<1>5. clock \in req.began..clock /\ req.optIn \subseteq OptIn(coupons)
  <2>1. clock \in Nat  BY <1>1, CatalogAssumption DEF CatalogOk, Times
  <2>. QED  BY <1>1, <2>1 DEF RequestOk, Requests, FlightOk
<1>6. offer # None => /\ InForce(promotions[offer], clock)
                      /\ IF req.code = None THEN offer \notin OptIn(coupons)
                         ELSE coupons[req.code] = offer
  BY <1>1, <1>2, OfferOpen
<1>. HIDE DEF r, offer
<1>7. \A v \in Items(order'.bag) :
        \/ \E i \in DOMAIN prices, t \in r.began..clock :
             i \in Candidates(prices, v, t) /\ prices[i].amount = order'.unit[v]
        \/ /\ order'.unit[v] = LegacyPrice[v]
           /\ \A i \in 1..r.priced : prices[i].variant # v
  BY <1>3, <1>4 DEF Found
<1>8. r.offer # None => /\ \E t \in r.began..clock : InForce(promotions[r.offer], t)
                        /\ IF r.code = None THEN r.offer \notin r.optIn
                           ELSE coupons[r.code] = r.offer
  BY <1>3, <1>5, <1>6
<1>. QED  BY <1>7, <1>8 DEF PricesAndOffersWereOpen, r

LEMMA PlaceOrderKeeps ==
  ASSUME QInv, PlaceOrder PROVE QInv'
<1>1. /\ req.op = "checkout" /\ req.at = "price" /\ req.left = {}
      /\ CouponFails <=> FailsFor(req.code)
  BY DEF PlaceOrder, CouponFails, FailsFor
<1>2. ~FailsFor(req.code) => Offer = OfferFor(req.code)  BY DEF Offer, OfferFor, FailsFor
<1>3. \/ Refuse("coupon_unavailable")
      \/ /\ ~FailsFor(req.code) /\ ~Agrees(OrderTotal) /\ Refuse("price_changed")
      \/ /\ Agrees(OrderTotal) /\ order' = OrderRow /\ req' = Idle
         /\ UNCHANGED <<catalogVars, bag, coupon, shown, steady, turned>>
  BY <1>1, <1>2 DEF PlaceOrder, OrderTotal, OrderRow
<1>4. CASE Refuse("coupon_unavailable")  BY <1>4, RefuseKeeps
<1>5. CASE ~FailsFor(req.code) /\ ~Agrees(OrderTotal) /\ Refuse("price_changed")
  BY <1>1, <1>5, ChangeIsReal, RefuseKeeps
<1>6. CASE /\ Agrees(OrderTotal) /\ order' = OrderRow /\ req' = Idle
           /\ UNCHANGED <<catalogVars, bag, coupon, shown, steady, turned>>
  <2>1. UNCHANGED <<clock, prices, promotions, coupons, bag, coupon, shown, steady, turned>>
    BY <1>6 DEF catalogVars
  <2>2. CatalogOk' /\ ShopperOk'  BY <2>1 DEF QInv, CatalogOk, ShopperOk
  <2>3. RequestOk(req)' /\ FlightOk(req)' /\ SteadyOk(req)'
    BY <1>6, IdleOk DEF RequestOk, FlightOk, SteadyOk
  <2>4. ShownOk'
    <3>1. Prevailing' = Prevailing /\ OfferFor(coupon)' = OfferFor(coupon)
      BY <2>1 DEF Prevailing, CurrentPrice, OfferFor, FailsFor
    <3>. QED  BY <2>1, <3>1 DEF QInv, ShownOk, QuoteTotal, PercentOf
  <2>5. AgreedTotals'  BY <1>1, <1>6, OrderAgrees
  <2>6. PricesAndOffersWereOpen'  BY <1>1, <1>6, <2>1, OrderWasOpen
  <2>7. RefusalsHaveCauses'  BY <2>1 DEF QInv, RefusalsHaveCauses
  <2>. QED  BY <2>2, <2>3, <2>4, <2>5, <2>6, <2>7 DEF QInv
<1>. QED  BY <1>3, <1>4, <1>5, <1>6

-------------------------------------------------------------------------------
(* The steps of the staff *)

\* The tables only grow, and the clock only runs forward.
Grows == /\ clock <= clock'
         /\ Len(prices) <= Len(prices') /\ DOMAIN prices \subseteq DOMAIN prices'
         /\ \A i \in DOMAIN prices : prices'[i] = prices[i]
         /\ DOMAIN promotions \subseteq DOMAIN promotions'
         /\ OptIn(coupons) \subseteq OptIn(coupons')

\* A row that is added leaves those before it in their places.
LEMMA AppendGrows ==
  ASSUME NEW S, NEW s \in Seq(S), NEW x \in S, NEW t, t = Append(s, x)
  PROVE  /\ t \in Seq(S) /\ Len(s) <= Len(t) /\ DOMAIN s \subseteq DOMAIN t
         /\ \A i \in DOMAIN s : t[i] = s[i]
OBVIOUS

LEMMA AddPriceGrows ==
  ASSUME CatalogOk, NEW v \in Variants, NEW b \in Books, NEW a \in Amounts, NEW w \in Windows,
         AddPrice(v, b, a, w)
  PROVE  CatalogOk' /\ Grows
<1>. DEFINE x == [variant |-> v, book |-> b, amount |-> a, from |-> w.from, until |-> w.until]
<1>1. prices' = Append(prices, x) /\ UNCHANGED <<clock, promotions, coupons>>
  BY DEF AddPrice
<1>2. w.from \in Times /\ w.until \in Times \cup {None}  BY DEF Windows
<1>3. x \in PriceRows  BY <1>2, CatalogAssumption DEF PriceRows
<1>. HIDE DEF x
<1>4. prices \in Seq(PriceRows) /\ clock \in Nat  BY CatalogAssumption DEF CatalogOk, Times
<1>5. /\ prices' \in Seq(PriceRows) /\ Len(prices) <= Len(prices')
      /\ DOMAIN prices \subseteq DOMAIN prices'
      /\ \A i \in DOMAIN prices : prices'[i] = prices[i]
  BY <1>1, <1>3, <1>4, AppendGrows
<1>. QED  BY <1>1, <1>4, <1>5 DEF CatalogOk, Grows

LEMMA AddPromotionGrows ==
  ASSUME CatalogOk, NEW percent \in Percents, NEW b \in BOOLEAN, NEW w \in Windows,
         AddPromotion(percent, b, w)
  PROVE  CatalogOk' /\ Grows
<1>. DEFINE x == [percent |-> percent, published |-> b, from |-> w.from, until |-> w.until]
<1>1. promotions' = Append(promotions, x) /\ UNCHANGED <<clock, prices, coupons>>
  BY DEF AddPromotion
<1>2. w.from \in Times /\ w.until \in Times \cup {None}  BY DEF Windows
<1>3. x \in OfferRows  BY <1>2, CatalogAssumption DEF OfferRows
<1>. HIDE DEF x
<1>4. /\ promotions \in Seq(OfferRows) /\ clock \in Nat /\ Len(prices) \in Nat
      /\ coupons \in [Codes -> DOMAIN promotions \cup {None}]
  BY CatalogAssumption DEF CatalogOk, Times
<1>5. promotions' \in Seq(OfferRows) /\ DOMAIN promotions \subseteq DOMAIN promotions'
  BY <1>1, <1>3, <1>4, AppendGrows
<1>6. coupons' \in [Codes -> DOMAIN promotions' \cup {None}]  BY <1>1, <1>4, <1>5
<1>. QED  BY <1>1, <1>4, <1>5, <1>6 DEF CatalogOk, Grows

LEMMA CreateCouponGrows ==
  ASSUME CatalogOk, NEW i, NEW code \in Codes, CreateCoupon(i, code)
  PROVE  CatalogOk' /\ Grows
<1>1. /\ i \in DOMAIN promotions /\ coupons[code] = None
      /\ coupons' = [coupons EXCEPT ![code] = i]
      /\ UNCHANGED <<clock, prices, promotions>>
  BY DEF CreateCoupon
<1>2. /\ coupons \in [Codes -> DOMAIN promotions \cup {None}]
      /\ clock \in Nat /\ Len(prices) \in Nat
  BY CatalogAssumption DEF CatalogOk, Times
<1>3. coupons' \in [Codes -> DOMAIN promotions' \cup {None}]  BY <1>1, <1>2
<1>4. OptIn(coupons) \subseteq OptIn(coupons')
  <2>1. DOMAIN coupons = Codes /\ DOMAIN coupons' = Codes  BY <1>2, <1>3
  <2>2. \A c \in Codes : coupons[c] # None => coupons'[c] = coupons[c]  BY <1>1, <1>2
  <2>. QED  BY <2>1, <2>2 DEF OptIn
<1>5. CatalogOk'  BY <1>1, <1>3 DEF CatalogOk
<1>6. UNCHANGED <<clock, prices, promotions>> /\ clock \in Nat /\ Len(prices) \in Nat
  BY <1>1, <1>2
<1>7. Grows  BY <1>4, <1>6 DEF Grows
<1>. QED  BY <1>5, <1>7

LEMMA StaffGrows ==
  ASSUME CatalogOk, CatalogNext PROVE CatalogOk' /\ Grows
<1>1. clock \in Nat /\ MaxTime \in Nat /\ Len(prices) \in Nat
  BY CatalogAssumption DEF CatalogOk, Times
<1>2. CASE Tick
  <2>1. clock < MaxTime /\ clock' = clock + 1 /\ UNCHANGED <<prices, promotions, coupons>>
    BY <1>2 DEF Tick
  <2>2. clock' \in Times /\ clock <= clock'  BY <1>1, <2>1 DEF Times
  <2>. QED  BY <1>1, <2>1, <2>2 DEF CatalogOk, Grows
<1>3. ASSUME UNCHANGED <<clock, prices, promotions, coupons>> PROVE CatalogOk' /\ Grows
  BY <1>1, <1>3 DEF CatalogOk, Grows
<1>4. CASE CreateProduct  BY <1>3, <1>4 DEF CreateProduct
<1>5. ASSUME NEW v \in Variants, CreateVariant(v) PROVE CatalogOk' /\ Grows
  BY <1>3, <1>5 DEF CreateVariant
<1>6. ASSUME NEW status, PublishProduct(status) PROVE CatalogOk' /\ Grows
  BY <1>3, <1>6 DEF PublishProduct
<1>. QED  BY <1>2, <1>4, <1>5, <1>6, AddPriceGrows, AddPromotionGrows, CreateCouponGrows
     DEF CatalogNext

\* What was found stays found when prices are added and time passes.
LEMMA FoundStays ==
  ASSUME CatalogOk, CatalogOk', Grows, NEW r, NEW v, r.began \in Nat, r.priced \in Nat,
         r.priced <= Len(prices), Found(r, v)
  PROVE  Found(r, v)'
<1>1. clock \in Nat /\ clock' \in Nat /\ clock <= clock'
  BY CatalogAssumption DEF CatalogOk, Times, Grows
<1>2. DOMAIN prices = 1..Len(prices) /\ Len(prices) \in Nat  BY DEF CatalogOk
<1>3. CASE \E i \in DOMAIN prices, t \in r.began..clock :
             i \in Candidates(prices, v, t) /\ prices[i].amount = r.unit[v]
  <2>1. PICK i \in DOMAIN prices, t \in r.began..clock :
               i \in Candidates(prices, v, t) /\ prices[i].amount = r.unit[v]
    BY <1>3
  <2>2. t \in r.began..clock'  BY <1>1, <2>1
  <2>3. i \in DOMAIN prices' /\ prices'[i] = prices[i]  BY <2>1 DEF Grows
  <2>4. i \in Candidates(prices', v, t)  BY <2>1, <2>3 DEF Candidates
  <2>. QED  BY <2>1, <2>2, <2>3, <2>4 DEF Found
<1>4. CASE /\ r.unit[v] = LegacyPrice[v]
           /\ \A i \in 1..r.priced : prices[i].variant # v
  <2>1. \A i \in 1..r.priced : i \in DOMAIN prices  BY <1>2
  <2>2. \A i \in 1..r.priced : prices'[i].variant # v  BY <1>4, <2>1 DEF Grows
  <2>. QED  BY <1>4, <2>2 DEF Found
<1>. QED  BY <1>3, <1>4 DEF Found

LEMMA StaffKeeps ==
  ASSUME QInv, StaffNext PROVE QInv'
<1>1. /\ CatalogNext /\ order = None /\ steady' = FALSE
      /\ UNCHANGED <<bag, coupon, req, shown, turned, order>>
  BY DEF StaffNext
<1>2. CatalogOk' /\ Grows  BY <1>1, StaffGrows DEF QInv
<1>3. ShopperOk' /\ RequestOk(req)'  BY <1>1 DEF QInv, ShopperOk, RequestOk
<1>4. FlightOk(req)'
  <2>1. SUFFICES ASSUME req.op # "none" PROVE FlightOk(req)'  BY <1>1 DEF FlightOk
  <2>2. /\ FlightOk(req) /\ req.began \in Nat /\ req.priced \in Nat
        /\ clock \in Nat /\ clock' \in Nat /\ Len(prices) \in Nat /\ Len(prices') \in Nat
    BY <1>2, CatalogAssumption DEF QInv, RequestOk, Requests, CatalogOk, Times
  <2>3. \A v \in Items(bag) \ req.left : Found(req, v)'
    <3>1. TAKE v \in Items(bag) \ req.left
    <3>2. Found(req, v) /\ req.priced <= Len(prices)  BY <2>1, <2>2, <3>1 DEF FlightOk
    <3>. QED  BY <1>1, <1>2, <2>2, <3>2, FoundStays DEF QInv, Found
  <2>4. req.began <= clock' /\ req.priced <= Len(prices') /\ req.optIn \subseteq OptIn(coupons')
    BY <1>2, <2>1, <2>2 DEF FlightOk, Grows
  <2>. QED  BY <1>1, <1>2, <2>1, <2>2, <2>3, <2>4 DEF FlightOk, Grows
<1>. QED  BY <1>1, <1>2, <1>3, <1>4 DEF QInv, SteadyOk, ShownOk, AgreedTotals,
     RefusalsHaveCauses, PricesAndOffersWereOpen

-------------------------------------------------------------------------------
(* The theorems *)

LEMMA NextQInv == QInv /\ [Next]_vars => QInv'
<1>. SUFFICES ASSUME QInv, [Next]_vars PROVE QInv'  OBVIOUS
<1>1. CASE UNCHANGED vars
  <2>1. Steps(req)  BY <1>1 DEF vars, shopperVars, Steps
  <2>. QED  BY <2>1, StepsKeep DEF QInv
<1>2. ASSUME NEW v \in Variants, RemoveItem(v) PROVE QInv'
  <2>1. 0 \in 0..MaxQuantity  BY QuantityAssumption
  <2>. QED  BY <1>2, <2>1, EditKeeps DEF RemoveItem
<1>3. ASSUME NEW v \in Variants, NEW q \in 1..MaxQuantity, AddItem(v, q) \/ UpdateItem(v, q)
      PROVE  QInv'
  <2>1. q \in 0..MaxQuantity  BY QuantityAssumption
  <2>. QED  BY <1>3, <2>1, EditKeeps DEF AddItem, UpdateItem
<1>4. CASE Fail  BY <1>4, RefuseKeeps DEF Fail
<1>5. CASE Quote
  <2>1. coupon \in Codes \cup {None}  BY DEF QInv, ShopperOk
  <2>. QED  BY <1>5, <2>1, BeginQuoteKeeps DEF Quote
<1>6. ASSUME NEW code \in Codes \cup {None}, ApplyCoupon(code) PROVE QInv'
  BY <1>6, BeginQuoteKeeps DEF ApplyCoupon
<1>7. CASE ShopperNext
  BY <1>2, <1>3, <1>4, <1>5, <1>6, <1>7, LookUpPriceKeeps, FallBackKeeps, QuoteOfferKeeps,
     FinishQuoteKeeps, PlaceOrderKeeps, BeginCheckoutKeeps
  DEF ShopperNext
<1>. QED  BY <1>1, <1>7, StaffKeeps DEF Next

\* The inductive invariant: what a request has found was open since it began, and as long
\* as nothing changes it is what prevails, as is the total that was shown.
THEOREM QuotesInvariant == Spec => []QInv
<1>1. Init => QInv  BY InitQInv
<1>2. QInv /\ [Next]_vars => QInv'  BY NextQInv
<1>. QED  BY <1>1, <1>2, PTL DEF Spec

\* The total of an order is what its rounded lines add up to and what its shopper was
\* shown, for any prices, percentages, quantities and tax rate up to 100 percent.
THEOREM OrdersKeepAgreedTotals == Spec => []AgreedTotals
<1>1. QInv => AgreedTotals  BY DEF QInv
<1>. QED  BY <1>1, QuotesInvariant, PTL

\* The checkout, whose code is not the quote's, never finds a change where there was none.
THEOREM ChangesAreReal == Spec => []RefusalsHaveCauses
<1>1. QInv => RefusalsHaveCauses  BY DEF QInv
<1>. QED  BY <1>1, QuotesInvariant, PTL

\* Every price and the offer of an order were open during its checkout, whatever the staff
\* adds between any two of its statements.
THEOREM OrdersHaveOpenPrices == Spec => []PricesAndOffersWereOpen
<1>1. QInv => PricesAndOffersWereOpen  BY DEF QInv
<1>. QED  BY <1>1, QuotesInvariant, PTL
===============================================================================
