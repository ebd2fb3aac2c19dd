------------------------------- MODULE SavedCarts -------------------------------
(***************************************************************************)
(* Carts and the accounts they are saved to.  Every handler of one cart    *)
(* keeps that cart's row locked from its first statement to its commit, so *)
(* it is one step; those behind the sign-in, which lock more, are several. *)
(*                                                                         *)
(* Of the stock and the prices that the handlers look up the model takes   *)
(* the outcome: any quantity may be available, none also for a piece that  *)
(* is not sold or has no price.  Checkout has the order, the tokens and    *)
(* the keys of the same carts.                                             *)
(***************************************************************************)
EXTENDS Sessions

CONSTANTS Carts,        \* cart ids
          Pieces,       \* variants that can be put into a cart
          MaxQuantity,  \* of a line, 20 in the code
          MaxVersion    \* bound: the version at which the model stops editing a cart

ASSUME QuantityAssumption == MaxQuantity \in Nat \ {0} /\ MaxVersion \in Nat
ASSUME CartsAssumption == IsFiniteSet(Carts)

VARIABLE carts  \* the row of each id and its items

Quantities == 0..MaxQuantity
EmptyBag   == [p \in Pieces |-> 0]

Cart(status, r, version, bag) ==
  [status |-> status, row |-> r, version |-> version, bag |-> bag]
NoCart    == Cart("none", None, 0, EmptyBag)
Expired   == Cart("expired", None, 1, EmptyBag)
Opened(r) == Cart("open", r, 1, EmptyBag)

Open(k)     == carts[k].status = "open"
CartLock(k) == <<"cart", k>>
Loadable(k) == Open(k) /\ Free(CartLock(k))

-------------------------------------------------------------------------------
(* The shopper's requests for one cart *)

CreateCart(k) == /\ carts[k] = NoCart
                 /\ carts' = [carts EXCEPT ![k] = Opened(None)]
                 /\ UNCHANGED sessionVars

\* The version of the edited cart.  SlipSameVersion: as it was.
SlipSameVersion(k) == carts[k].version
Edited(k) == carts[k].version + 1

Edit(k, p, q) == /\ Loadable(k) /\ carts[k].version < MaxVersion
                 /\ carts' = [carts EXCEPT ![k].version = Edited(k), ![k].bag[p] = q]
                 /\ UNCHANGED sessionVars

AddItem(k, p, q)    == q > 0 /\ Edit(k, p, q)
UpdateItem(k, p, q) == q > 0 /\ carts[k].bag[p] > 0 /\ Edit(k, p, q)
RemoveItem(k, p)    == carts[k].bag[p] > 0 /\ Edit(k, p, 0)

\* submit_checkout, whose order Accounts links to the cart's customer.
ConvertCart(k) == /\ Loadable(k) /\ carts[k].bag # EmptyBag
                  /\ carts' = [carts EXCEPT ![k].status = "converted"]
                  /\ UNCHANGED sessionVars

-------------------------------------------------------------------------------
(* saved_cart *)

OpenCarts(r) == {k \in Carts : Open(k) /\ carts[k].row = r}

BeginSavedCart(c, s) == CustomerFor(c, "saved_cart", s, None) /\ UNCHANGED carts

\* The account's open cart, with a new token, or a new cart.
OpenSavedCart(c) ==
  /\ At(c, "saved_cart", "resolved")
  /\ \/ /\ \E k \in OpenCarts(call[c].row) : Free(CartLock(k))
        /\ UNCHANGED carts
     \/ /\ OpenCarts(call[c].row) = {}
        /\ \E k \in Carts : /\ carts[k] = NoCart
                            /\ carts' = [carts EXCEPT ![k] = Opened(call[c].row)]
  /\ Commit(c)

-------------------------------------------------------------------------------
(* merge_cart *)

BeginMergeCart(c, s, k) == CustomerFor(c, "merge_cart", s, k) /\ UNCHANGED carts

\* load_cart, which refuses a wrong token and a cart that is not open, and then
\* the carts of other customers.
LoadGuest(c) ==
  LET k == call[c].on IN
  /\ At(c, "merge_cart", "resolved")
  /\ Free(CartLock(k))
  /\ \/ /\ Open(k) /\ carts[k].row \in {None, call[c].row}
        /\ Take(c, {CartLock(k)})
        /\ Moves(c, "guest")
        /\ UNCHANGED subjectOf
     \/ Rollback(c)
  /\ UNCHANGED carts

OtherCarts(c) == OpenCarts(call[c].row) \ {call[c].on}

FindSaved(c) ==
  /\ At(c, "merge_cart", "guest")
  /\ \/ \E k \in OtherCarts(c) : /\ Free(CartLock(k))
                                 /\ Take(c, {CartLock(k)})
                                 /\ call' = [call EXCEPT ![c].at = "two_carts", ![c].into = k]
     \/ /\ OtherCarts(c) = {}
        /\ Moves(c, "one_cart")
        /\ UNCHANGED held
  /\ UNCHANGED <<subjectOf, carts>>

Larger(a, b)  == IF a > b THEN a ELSE b
Smaller(a, b) == IF a < b THEN a ELSE b

\* What is left of the quantities asked for when so much is available.
Trimmed(bag, available) == [p \in Pieces |-> Smaller(bag[p], available[p])]

\* The guest's cart becomes the account's.
KeepGuest(c) ==
  LET k == call[c].on IN
  /\ At(c, "merge_cart", "one_cart")
  /\ \E available \in [Pieces -> Quantities] :
       carts' = [carts EXCEPT ![k] = Cart("open", call[c].row, Edited(k),
                                          Trimmed(carts[k].bag, available))]
  /\ Commit(c)

\* The larger quantity of each piece goes to the account's cart, the guest's is closed.
MergeCarts(c) ==
  LET guest == call[c].on
      saved == call[c].into
      both  == [p \in Pieces |-> Larger(carts[guest].bag[p], carts[saved].bag[p])] IN
  /\ At(c, "merge_cart", "two_carts")
  /\ \E available \in [Pieces -> Quantities] :
       carts' = [carts EXCEPT ![guest].status = "expired",
                              ![saved] = Cart("open", carts[saved].row, Edited(saved),
                                              Trimmed(both, available))]
  /\ Commit(c)

SavedCartNext(c) ==
  \/ \E s \in Subjects : BeginSavedCart(c, s)
  \/ \E s \in Subjects, k \in Carts : BeginMergeCart(c, s, k)
  \/ OpenSavedCart(c) \/ LoadGuest(c) \/ FindSaved(c) \/ KeepGuest(c) \/ MergeCarts(c)

ShopperNext ==
  \E k \in Carts :
    \/ CreateCart(k)
    \/ \E p \in Pieces : \/ RemoveItem(k, p)
                         \/ \E q \in Quantities : AddItem(k, p, q) \/ UpdateItem(k, p, q)
===============================================================================
