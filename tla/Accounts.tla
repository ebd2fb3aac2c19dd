-------------------------------- MODULE Accounts --------------------------------
(***************************************************************************)
(* Everything that hangs on a customer's row, together: the personal data  *)
(* of Privacy, the lists of Wishlists and the carts of SavedCarts, used by *)
(* requests that run at the same time and share the lock of customer_for,  *)
(* and the erasure, which touches all of them and does not take that lock. *)
(***************************************************************************)
EXTENDS Privacy, Wishlists, SavedCarts

vars == <<sessionVars, privacyVars, lists, carts>>

Known == {r \in Rows : subjectOf[r] # None}

\* The shop opens with some customers known, some of them with a list and a cart, with
\* lists and carts of guests, and with lists and carts that are gone.
Init == /\ SessionsInit /\ PrivacyInit
        /\ subjectOf \in [Rows -> Subjects \cup {None}]
        /\ \A r1, r2 \in Known : subjectOf[r1] = subjectOf[r2] => r1 = r2
        /\ lists \in [Lists -> {NoList, Deleted} \cup {List("there", r, S) :
                                    r \in Known \cup {None}, S \in SUBSET Wishes}]
        /\ \A w \in Lists : Cardinality(lists[w].pieces) <= Limit
        /\ carts \in [Carts -> {NoCart, Expired} \cup {Opened(r) : r \in Known \cup {None}}]
        /\ \A r \in Rows : Cardinality(OfRow(r)) <= 1 /\ Cardinality(OpenCarts(r)) <= 1

\* The lists of the customer go with the erasure.
EraseAccount(r, checker) ==
  /\ ApproveErasure(r, checker)
  /\ lists' = [w \in Lists |-> IF w \in OfRow(r) THEN Deleted ELSE lists[w]]
  /\ UNCHANGED carts

\* The order of a checkout names the customer of its cart.
PlaceOrder(k) ==
  LET r == carts[k].row IN
  /\ ConvertCart(k)
  /\ personal' = IF r = None THEN personal ELSE [personal EXCEPT ![r] = @ \cup {"order"}]
  /\ UNCHANGED <<requestedBy, approved, lists>>

Next == \/ \E c \in Calls : \/ ProfileNext(c) /\ UNCHANGED <<lists, carts>>
                            \/ WishlistNext(c) /\ UNCHANGED <<privacyVars, carts>>
                            \/ SavedCartNext(c) /\ UNCHANGED <<privacyVars, lists>>
        \/ ShopperNext /\ UNCHANGED <<privacyVars, lists>>
        \/ \E k \in Carts : PlaceOrder(k)
        \/ \E r \in Rows : \/ \E checker \in Checkers : EraseAccount(r, checker)
                           \/ PruneMessages(r) /\ UNCHANGED <<lists, carts>>

Spec == Init /\ [][Next]_vars

-------------------------------------------------------------------------------
\* Every variable has its type, a subject has one row (customers.auth_subject is
\* unique), and no list outgrows its limit, whoever adds to it or merges into it.
TypeOK ==
  /\ subjectOf \in [Rows -> Subjects \cup {Erased, None}]
  /\ \A r1, r2 \in Rows : subjectOf[r1] = subjectOf[r2] /\ subjectOf[r1] \in Subjects => r1 = r2
  /\ personal \in [Rows -> SUBSET Kinds]
  /\ requestedBy \in [Rows -> Subjects \cup {None}]
  /\ approved \subseteq Rows
  /\ \A w \in Lists : /\ lists[w].row \in Rows \cup {None}
                      /\ lists[w].pieces \in SUBSET Wishes
                      /\ Cardinality(lists[w].pieces) <= Limit
  /\ \A k \in Carts : /\ carts[k].row \in Rows \cup {None}
                      /\ carts[k].bag \in [Pieces -> Quantities]

\* A customer never has two open carts, though only the lock of customer_for, and no
\* constraint of the database, keeps saved_cart and merge_cart from making a second.
OneSavedCart == \A r \in Rows : Cardinality(OpenCarts(r)) <= 1

\* Whoever changes the items of an open cart, the merges included, counts its version
\* up, so an edit that names a version never overwrites what its sender has not seen.
SameVersionSameBag ==
  [][\A k \in Carts : Open(k) /\ Open(k)' /\ carts'[k].version = carts[k].version
                       => carts'[k].bag = carts[k].bag]_vars

\* The locks a call waits for.
Wants(c) ==
  CASE At(c, "merge_wishlist", "resolved")  -> {WishlistLock(call[c].on)}
    [] At(c, "merge_wishlist", "two_lists") -> {WishlistLock(call[c].into)}
    [] At(c, "merge_cart", "resolved")      -> {CartLock(call[c].on)}
    [] At(c, "merge_cart", "guest")         -> {CartLock(k) : k \in OtherCarts(c)}
    [] At(c, "saved_cart", "resolved")      -> {CartLock(k) : k \in OpenCarts(call[c].row)}
    [] OTHER -> {}

\* No calls wait for each other in a circle, though the merges lock two lists or two
\* carts each, the first being the one the request names.
NoWaitCircle ==
  \A S \in (SUBSET Calls) \ {{}} : \E c \in S : \A d \in S : Wants(c) \cap held[d] = {}

\* A guest's list that disappears in a merge leaves its pieces on the account's, unless
\* that is full, and takes none from there, whoever adds or merges meanwhile.  Only the
\* list of an account that is erased during the merge may be gone.
MergesLoseNothing ==
  [][\A w \in Lists :
       There(w) /\ lists[w].row = None /\ lists'[w] = Deleted =>
         \E t \in Lists \ {w} :
            \/ lists[t] = Deleted /\ approved # {}
            \/ /\ lists[t].pieces \subseteq lists'[t].pieces
               /\ \/ lists[w].pieces \subseteq lists'[t].pieces
                  \/ Cardinality(lists'[t].pieces) = Limit]_vars

-------------------------------------------------------------------------------
(* What an erasure promises *)

\* What a customer gave of himself.
Private    == {"profile", "address", "message"}
Clean(r)   == personal[r] \cap Private = {} /\ OfRow(r) = {}
InHands(r) == \E c \in Calls : call[c].row = r

\* Once a row is erased no request can get hold of it any more, and when those have
\* ended that had it before, what is clean stays clean.
ErasureIsForGood ==
  [][\A r \in approved : ~InHands(r) => ~InHands(r)' /\ (Clean(r) => Clean(r)')]_vars

\* docs/architecture-review.md:62, "Local erasure removes profile/addresses/support
\* bodies", as test_customer_support_and_approved_erasure asserts it of a quiet system.
ErasedStaysErased == \A r \in approved : personal[r] \cap Private = {}
===============================================================================
