------------------------------- MODULE Wishlists -------------------------------
(***************************************************************************)
(* Wishlists of guests, known by a token, and of accounts, and the merge   *)
(* of the first into the second.  Requests refused before they wait for    *)
(* anything are left out: they change nothing.                             *)
(***************************************************************************)
EXTENDS Sessions

CONSTANTS Lists,   \* wishlist ids
          Wishes,  \* variants that can be put on a list
          Limit    \* what a list can hold, 100 in the code

ASSUME LimitAssumption == Limit \in Nat /\ IsFiniteSet(Wishes)

VARIABLE lists  \* the row of each id: is it there, whose it is, the pieces on it

List(state, r, pieces) == [state |-> state, row |-> r, pieces |-> pieces]
NoList  == List("unused", None, {})
Deleted == List("deleted", None, {})

There(w) == lists[w].state = "there"

WishlistLock(w) == <<"wishlist", w>>

OfRow(r) == {w \in Lists : There(w) /\ lists[w].row = r}

\* What lock_key locks for a list.  SlipUnlocked: nothing.
SlipUnlocked(w) == {}
ListLocks(w)    == {WishlistLock(w)}

\* SlipAnyList: every list there is passes for the caller's.
SlipAnyList(w, s, token) == There(w)

\* owned: the account's own list, or a guest's list with its token.  The row is
\* looked up by the subject, without the customer's lock.
Owned(w, s, token) == /\ There(w)
                      /\ \/ lists[w].row # None /\ s # None /\ lists[w].row = RowOf(s)
                         \/ lists[w].row = None /\ token

Room(pieces) == IF Cardinality(pieces) < Limit THEN Limit - Cardinality(pieces) ELSE 0

-------------------------------------------------------------------------------
(* create_wishlist *)

CreateGuestList(c, w) == /\ call[c] = Idle /\ lists[w] = NoList
                         /\ lists' = [lists EXCEPT ![w] = List("there", None, {})]
                         /\ Commit(c)

BeginCreateList(c, s) == /\ CustomerFor(c, "create_wishlist", s, None)
                         /\ UNCHANGED lists

CreateAccountList(c) ==
  /\ At(c, "create_wishlist", "resolved")
  /\ \/ OfRow(call[c].row) # {} /\ UNCHANGED lists
     \/ /\ OfRow(call[c].row) = {}
        /\ \E w \in Lists : /\ lists[w] = NoList
                            /\ lists' = [lists EXCEPT ![w] = List("there", call[c].row, {})]
  /\ Commit(c)

-------------------------------------------------------------------------------
(* add_item, remove_item *)

\* The piece is not on the list and the list is not full; the insert comes later.
BeginAddPiece(c, w, s, p) ==
  /\ call[c] = Idle /\ Free(WishlistLock(w)) /\ Owned(w, s, s = None)
  /\ p \notin lists[w].pieces /\ Room(lists[w].pieces) > 0
  /\ Take(c, ListLocks(w))
  /\ call' = [call EXCEPT ![c] = Request("add_piece", "checked", s, None, w, None, {p})]
  /\ UNCHANGED <<subjectOf, lists>>

\* An insert into a list that an erasure has deleted fails.
AddPiece(c) ==
  /\ At(c, "add_piece", "checked")
  /\ \/ /\ There(call[c].on)
        /\ lists' = [lists EXCEPT ![call[c].on].pieces = @ \cup call[c].plan]
        /\ Commit(c)
     \/ /\ ~There(call[c].on)
        /\ Rollback(c) /\ UNCHANGED lists

RemovePiece(c, w, s, p) ==
  /\ call[c] = Idle /\ Free(WishlistLock(w)) /\ Owned(w, s, s = None)
  /\ lists' = [lists EXCEPT ![w].pieces = @ \ {p}]
  /\ Commit(c)

-------------------------------------------------------------------------------
(* merge_wishlist *)

BeginMergeList(c, s, w) == /\ CustomerFor(c, "merge_wishlist", s, w)
                           /\ UNCHANGED lists

\* The source's lock and owner, then the account's own list, not yet locked.
FindLists(c) ==
  LET w == call[c].on IN
  /\ At(c, "merge_wishlist", "resolved")
  /\ Free(WishlistLock(w))
  /\ \E token \in BOOLEAN :
       \/ /\ ~Owned(w, call[c].who, token)
          /\ Rollback(c)
       \/ /\ Owned(w, call[c].who, token)
          /\ Take(c, ListLocks(w))
          /\ \/ /\ OfRow(call[c].row) \subseteq {w}
                /\ Moves(c, "one_list")
             \/ \E target \in OfRow(call[c].row) \ {w} :
                  call' = [call EXCEPT ![c].at = "two_lists", ![c].into = target]
          /\ UNCHANGED subjectOf
  /\ UNCHANGED lists

\* The account has no other list: it takes over the guest's, or keeps its own.
AdoptList(c) ==
  /\ At(c, "merge_wishlist", "one_list")
  /\ lists' = IF There(call[c].on)
              THEN [lists EXCEPT ![call[c].on].row = call[c].row] ELSE lists
  /\ Commit(c)

\* What of the source still fits, in the order of the source, which is any.
Fitting(source, target) ==
  LET new == source \ target IN
  {S \in SUBSET new : Cardinality(S) = IF Cardinality(new) <= Room(target)
                                       THEN Cardinality(new) ELSE Room(target)}

LockTarget(c) ==
  LET r == call[c] IN
  /\ At(c, "merge_wishlist", "two_lists")
  /\ Free(WishlistLock(r.into))
  /\ Take(c, ListLocks(r.into))
  /\ \E S \in Fitting(lists[r.on].pieces, lists[r.into].pieces) :
       call' = [call EXCEPT ![c].at = "copied", ![c].plan = S]
  /\ UNCHANGED <<subjectOf, lists>>

MergeLists(c) ==
  LET r == call[c] IN
  /\ At(c, "merge_wishlist", "copied")
  /\ \/ /\ There(r.into) \/ r.plan = {}
        /\ lists' = [lists EXCEPT ![r.on] = Deleted, ![r.into].pieces = @ \cup r.plan]
        /\ Commit(c)
     \/ /\ ~There(r.into) /\ r.plan # {}
        /\ Rollback(c) /\ UNCHANGED lists

WishlistNext(c) ==
  \/ \E w \in Lists : CreateGuestList(c, w)
  \/ \E s \in Subjects : BeginCreateList(c, s)
  \/ CreateAccountList(c)
  \/ \E w \in Lists, s \in Subjects \cup {None}, p \in Wishes :
       BeginAddPiece(c, w, s, p) \/ RemovePiece(c, w, s, p)
  \/ AddPiece(c)
  \/ \E s \in Subjects, w \in Lists : BeginMergeList(c, s, w)
  \/ FindLists(c) \/ AdoptList(c) \/ LockTarget(c) \/ MergeLists(c)
===============================================================================
