---------------------------- MODULE AccountsProofs ----------------------------
(***************************************************************************)
(* What holds of customers' rows, lists and carts for every number of      *)
(* customers, requests, lists and carts.  A row is in the hands of at most *)
(* one request, because its subject's lock is; what a request knows of a   *)
(* list or a cart follows from the lock it has on it.                      *)
(***************************************************************************)
EXTENDS Accounts, FiniteSetTheorems, TLAPS

\* The stages of a request that has passed customer_for, and those in which it has
\* locked the list or the cart that it names.
ListStages == {"one_list", "two_lists", "copied"}
CartStages == {"guest", "one_cart", "two_carts"}
SignedIn   == {"resolved"} \cup ListStages \cup CartStages
Stages     == {"idle", "ended", "checked"} \cup SignedIn

\* The locks of a request, stage by stage.
Holding(q) ==
  UNION {IF q.at \in SignedIn THEN {CustomerLock(q.who)} ELSE {},
         IF q.at \in {"checked"} \cup ListStages THEN {WishlistLock(q.on)} ELSE {},
         IF q.at = "copied" THEN {WishlistLock(q.into)} ELSE {},
         IF q.at \in CartStages THEN {CartLock(q.on)} ELSE {},
         IF q.at = "two_carts" THEN {CartLock(q.into)} ELSE {}}

Ops     == {"profile", "create_wishlist", "add_piece", "merge_wishlist", "saved_cart", "merge_cart"}
Targets == Lists \cup Carts \cup {None}
Calling == [op : Ops \cup {None}, at : Stages, who : Subjects \cup {None},
            row : Rows \cup {None}, on : Targets, into : Targets, plan : SUBSET Wishes]
WishRow == [state : {"unused", "there", "deleted"}, row : Rows \cup {None},
            pieces : SUBSET Wishes]
CartRow == [status : {"none", "open", "converted", "expired"}, row : Rows \cup {None},
            version : Nat, bag : [Pieces -> Quantities]]

\* The types of the variables.
Tables == /\ subjectOf \in [Rows -> Subjects \cup {Erased, None}]
          /\ call \in [Calls -> Calling]
          /\ approved \subseteq Rows
Data   == /\ personal \in [Rows -> SUBSET Kinds]
          /\ requestedBy \in [Rows -> Subjects \cup {None}]
          /\ lists \in [Lists -> WishRow]
          /\ carts \in [Carts -> CartRow]

\* No two requests have a lock in common.
LockInv == /\ held = [c \in Calls |-> Holding(call[c])]
           /\ \A c, d \in Calls : c # d => Holding(call[c]) \cap Holding(call[d]) = {}

\* The row of a signed-in request is the only one of its subject, if any is; the row may
\* not be there yet, or be erased.  No other request has it.
RowOk(c) == IF call[c].at \in SignedIn
            THEN /\ call[c].who \in Subjects /\ call[c].row \in Rows
                 /\ subjectOf[call[c].row] \in {None, call[c].who, Erased}
                 /\ \A r \in Rows : subjectOf[r] = call[c].who => r = call[c].row
            ELSE call[c].row = None
RowInv == /\ \A c \in Calls : RowOk(c)
          /\ \A c, d \in Calls : c # d /\ call[c].row # None => call[c].row # call[d].row

\* A subject has one row; an erased row keeps no subject.
SubjectInv == /\ \A r1, r2 \in Rows :
                   subjectOf[r1] = subjectOf[r2] /\ subjectOf[r1] \in Subjects => r1 = r2
              /\ \A r \in approved : subjectOf[r] = Erased

\* What a request knows of the list it has locked, the one it is about to lock, and of
\* the pieces it has copied.
Fits(w, plan) == There(w) => Cardinality(lists[w].pieces \cup plan) <= Limit
ListOk(c) ==
  LET q == call[c] IN
  /\ q.op = "merge_wishlist" /\ q.at = "resolved" => q.on \in Lists
  /\ q.at \in {"checked"} \cup ListStages => q.on \in Lists /\ lists[q.on].state # "unused"
  /\ q.at = "checked" => Fits(q.on, q.plan)
  /\ q.at \in ListStages => lists[q.on].row \in {None, q.row}
  /\ q.at \in {"two_lists", "copied"} =>
       /\ q.into \in Lists \ {q.on}
       /\ \/ There(q.into) /\ lists[q.into].row = q.row
          \/ lists[q.into] = Deleted /\ approved # {}
  /\ q.at = "copied" =>
       /\ Fits(q.into, q.plan)
       /\ There(q.on) /\ There(q.into) =>
            \/ lists[q.on].pieces \subseteq lists[q.into].pieces \cup q.plan
            \/ Cardinality(lists[q.into].pieces \cup q.plan) = Limit
ListInv == /\ \A c \in Calls : ListOk(c)
           /\ \A w \in Lists : Cardinality(lists[w].pieces) <= Limit

\* No request has locked the list that another is about to lock for its customer.
CrossInv == \A c, d \in Calls : call[c].at = "two_lists" /\ call[d].at = "two_lists"
                                => call[c].into # call[d].on

\* What a request knows of the carts it has locked.
CartOk(c) ==
  LET q == call[c] IN
  /\ q.op = "merge_cart" /\ q.at = "resolved" => q.on \in Carts
  /\ q.at \in CartStages => /\ q.on \in Carts /\ Open(q.on)
                            /\ carts[q.on].row \in {None, q.row}
  /\ q.at = "one_cart" => OtherCarts(c) = {}
  /\ q.at = "two_carts" => q.into \in OtherCarts(c)
CartInv == /\ \A c \in Calls : CartOk(c)
           /\ \A r \in Rows : \A k1, k2 \in OpenCarts(r) : k1 = k2

Sess == Tables /\ LockInv /\ RowInv /\ SubjectInv
IInv == Sess /\ Data /\ ListInv /\ CrossInv /\ CartInv

-------------------------------------------------------------------------------
(* The session of a request: its locks and its row *)

\* A request takes locks that are free, or gives up all of its own.
LEMMA LocksStayApart ==
  ASSUME Tables, LockInv, NEW c \in Calls, NEW q,
         call' = [call EXCEPT ![c] = q], held' = [held EXCEPT ![c] = Holding(q)],
         \A d \in Calls \ {c} : Holding(q) \cap held[d] = {}
  PROVE  LockInv'
<1>1. /\ call'[c] = q /\ \A d \in Calls \ {c} : call'[d] = call[d]
      /\ \A d \in Calls : held[d] = Holding(call[d])
  BY DEF Tables, LockInv
<1>2. held' = [d \in Calls |-> Holding(call'[d])]
  BY <1>1 DEF LockInv
<1>3. ASSUME NEW d \in Calls, NEW e \in Calls, d # e
      PROVE  Holding(call'[d]) \cap Holding(call'[e]) = {}
  <2>1. CASE d # c /\ e # c  BY <1>1, <1>3, <2>1 DEF LockInv
  <2>2. CASE d = c  BY <1>1, <1>3, <2>2
  <2>3. CASE e = c  BY <1>1, <1>3, <2>3
  <2>. QED  BY <2>1, <2>2, <2>3
<1>4. \A d, e \in Calls : d # e => Holding(call'[d]) \cap Holding(call'[e]) = {}
  BY <1>3
<1>. QED  BY <1>2, <1>4 DEF LockInv, Holding

\* customer_for gives out a row that nobody has: the others have other subjects, whose
\* locks they hold, and a new row is nobody's.
LEMMA SignInKeeps ==
  ASSUME Sess, approved' = approved, NEW c \in Calls, NEW op \in Ops, NEW s \in Subjects,
         NEW on \in Targets, CustomerFor(c, op, s, on)
  PROVE  /\ Sess'
         /\ \E r \in Rows :
              /\ call' = [call EXCEPT ![c] = Request(op, "resolved", s, r, on, None, {})]
              /\ subjectOf[r] \in {s, None}
<1>. USE DEF Sess
<1>1. PICK r \in Rows :
        /\ call' = [call EXCEPT ![c] = Request(op, "resolved", s, r, on, None, {})]
        /\ subjectOf[r] \in {s, None}
        /\ \A x \in Rows : subjectOf[x] = s => x = r
        /\ subjectOf[r] = None => \A d \in Calls : call[d].row # r
  <2>1. CASE RowOf(s) # None
    <3>1. RowOf(s) \in Rows /\ subjectOf[RowOf(s)] = s  BY <2>1 DEF RowOf
    <3>2. \A x \in Rows : subjectOf[x] = s => x = RowOf(s)  BY <3>1 DEF SubjectInv
    <3>. QED  BY <2>1, <3>1, <3>2, SessionsAssumption DEF CustomerFor
  <2>2. CASE RowOf(s) = None
    <3>1. \A x \in Rows : subjectOf[x] # s
      <4>1. ASSUME NEW x \in Rows, subjectOf[x] = s PROVE FALSE
        <5>1. RowOf(s) \in Rows  BY <4>1 DEF RowOf
        <5>. QED  BY <5>1, <2>2, SessionsAssumption
      <4>. QED  BY <4>1
    <3>2. PICK r \in Unused :
            call' = [call EXCEPT ![c] = Request(op, "resolved", s, r, on, None, {})]
      BY <2>2 DEF CustomerFor
    <3>. QED  BY <3>1, <3>2 DEF Unused
  <2>. QED  BY <2>1, <2>2
<1>. DEFINE q == Request(op, "resolved", s, r, on, None, {})
<1>2. /\ q.op = op /\ q.at = "resolved" /\ q.who = s /\ q.row = r /\ q.on = on
      /\ q.into = None /\ q.plan = {} /\ q \in Calling
  BY DEF Request, Calling, Stages, SignedIn, Targets
<1>3. /\ call[c] = Idle /\ call'[c] = q /\ \A d \in Calls \ {c} : call'[d] = call[d]
      /\ subjectOf' = subjectOf
  BY <1>1 DEF CustomerFor, Tables
<1>4. /\ Holding(q) = {CustomerLock(s)} /\ Holding(call[c]) = {}
      /\ \A d \in Calls : held[d] = Holding(call[d])
  BY <1>2, <1>3 DEF Holding, SignedIn, ListStages, CartStages, Idle, Request, LockInv
<1>5. held' = [held EXCEPT ![c] = Holding(q)]
  <2>1. held' = [held EXCEPT ![c] = @ \cup {CustomerLock(s)}]
    BY DEF CustomerFor, Take, SignInLocks
  <2>2. held[c] \cup {CustomerLock(s)} = Holding(q)  BY <1>4
  <2>. HIDE DEF q
  <2>. QED  BY <2>1, <2>2
<1>6. \A d \in Calls \ {c} : Holding(q) \cap held[d] = {}
  BY <1>4 DEF CustomerFor, Free
<1>7. LockInv'
  <2>. HIDE DEF q
  <2>. QED  BY <1>1, <1>5, <1>6, LocksStayApart DEF q
<1>8. Tables'  BY <1>1, <1>2, <1>3 DEF Tables
<1>9. SubjectInv'  BY <1>3 DEF SubjectInv
<1>10. ASSUME NEW d \in Calls, d # c PROVE call[d].row # r /\ RowOk(d)'
  <2>1. RowOk(d)  BY DEF RowInv
  <2>2. RowOk(d)'  BY <1>3, <1>10, <2>1 DEF RowOk
  <2>3. call[d].at \in SignedIn => call[d].who # s
    BY <1>4, <1>6, <1>10 DEF Holding
  <2>4. s # None /\ s # Erased /\ r # None  BY SessionsAssumption
  <2>5. call[d].row # r  BY <1>1, <2>1, <2>3, <2>4 DEF RowOk
  <2>. QED  BY <2>2, <2>5
<1>11. RowOk(c)'
  BY <1>1, <1>2, <1>3 DEF RowOk, SignedIn
<1>12. RowInv'
  <2>1. \A d \in Calls : RowOk(d)'  BY <1>10, <1>11
  <2>2. ASSUME NEW d \in Calls, NEW e \in Calls, d # e, call'[d].row # None
        PROVE  call'[d].row # call'[e].row
    <3>1. CASE d = c  BY <1>2, <1>3, <1>10, <2>2, <3>1
    <3>2. CASE e = c  BY <1>2, <1>3, <1>10, <2>2, <3>2
    <3>3. CASE d # c /\ e # c  BY <1>3, <2>2, <3>3 DEF RowInv
    <3>. QED  BY <3>1, <3>2, <3>3
  <2>. QED  BY <2>1, <2>2 DEF RowInv
<1>. QED  BY <1>1, <1>7, <1>8, <1>9, <1>12

\* A request goes on under the same subject, with the same row and more locks.
LEMMA MoveKeeps ==
  ASSUME Sess, approved' = approved, subjectOf' = subjectOf, NEW c \in Calls, NEW q \in Calling,
         call' = [call EXCEPT ![c] = q], held' = [held EXCEPT ![c] = Holding(q)],
         \A d \in Calls \ {c} : Holding(q) \cap held[d] = {},
         q.at \in SignedIn <=> call[c].at \in SignedIn,
         q.row = call[c].row, q.at \in SignedIn => q.who = call[c].who
  PROVE  Sess'
<1>. USE DEF Sess
<1>1. call'[c] = q /\ \A d \in Calls \ {c} : call'[d] = call[d]  BY DEF Tables
<1>2. LockInv'  BY LocksStayApart
<1>3. Tables'  BY DEF Tables
<1>4. SubjectInv'  BY DEF SubjectInv
<1>5. ASSUME NEW d \in Calls PROVE RowOk(d)' /\ call'[d].row = call[d].row
  <2>1. RowOk(d)  BY DEF RowInv
  <2>2. CASE d = c  BY <1>1, <2>1, <2>2 DEF RowOk
  <2>3. CASE d # c  BY <1>1, <2>1, <2>3 DEF RowOk
  <2>. QED  BY <2>2, <2>3
<1>6. RowInv'  BY <1>5 DEF RowInv
<1>. QED  BY <1>2, <1>3, <1>4, <1>6

\* A request ends: only a row that was not there changes, and becomes its subject's.
LEMMA EndKeeps ==
  ASSUME Sess, approved' = approved, NEW c \in Calls, Commit(c) \/ Rollback(c)
  PROVE  /\ Sess'
         /\ call' = [call EXCEPT ![c] = Ended]
         /\ \A r \in Rows : \/ subjectOf'[r] = subjectOf[r]
                            \/ r = call[c].row /\ subjectOf[r] = None
<1>. USE DEF Sess
<1>1. call' = [call EXCEPT ![c] = Ended] /\ held' = [held EXCEPT ![c] = {}]
  BY DEF Commit, Rollback, Ends
<1>2. call'[c] = Ended /\ \A d \in Calls \ {c} : call'[d] = call[d]  BY <1>1 DEF Tables
<1>3. /\ Holding(Ended) = {} /\ Ended \in Calling /\ Ended.at = "ended" /\ Ended.row = None
      /\ Ended.at \notin SignedIn
  BY DEF Holding, Ended, Request, Calling, Stages, SignedIn, ListStages, CartStages, Targets
<1>4. LockInv'
  <2>1. held' = [held EXCEPT ![c] = Holding(Ended)]
        /\ \A d \in Calls \ {c} : Holding(Ended) \cap held[d] = {}
    BY <1>1, <1>3
  <2>. QED  BY <1>1, <2>1, LocksStayApart
<1>5. RowOk(c) /\ call[c].row \in Rows \cup {None}  BY DEF RowInv, Tables, Calling
<1>6. /\ subjectOf' \in [Rows -> Subjects \cup {Erased, None}]
      /\ \A r \in Rows : \/ subjectOf'[r] = subjectOf[r]
                         \/ /\ r = call[c].row /\ subjectOf[r] = None
                            /\ call[c].at \in SignedIn /\ subjectOf'[r] = call[c].who
  <2>1. CASE call[c].row = None \/ Rollback(c)
    BY <2>1 DEF Commit, Rollback, Tables
  <2>2. CASE call[c].row # None /\ Commit(c)
    <3>1. call[c].at \in SignedIn /\ call[c].who \in Subjects /\ call[c].row \in Rows
      BY <1>5, <2>2 DEF RowOk
    <3>2. subjectOf' = [subjectOf EXCEPT ![call[c].row] = IF @ = None THEN call[c].who ELSE @]
      BY <2>2 DEF Commit
    <3>. QED  BY <3>1, <3>2 DEF Tables
  <2>. QED  BY <2>1, <2>2
<1>7. Tables'  BY <1>1, <1>3, <1>6 DEF Tables
<1>8. call[c].at \in SignedIn =>
        /\ call[c].who \in Subjects
        /\ \A r \in Rows : subjectOf[r] = call[c].who => r = call[c].row
  BY <1>5 DEF RowOk
<1>9. SubjectInv'
  <2>1. ASSUME NEW r1 \in Rows, NEW r2 \in Rows, subjectOf'[r1] = subjectOf'[r2],
               subjectOf'[r1] \in Subjects
        PROVE  r1 = r2
    BY <1>6, <1>8, <2>1 DEF SubjectInv
  <2>2. \A r \in approved : subjectOf'[r] = Erased
    BY <1>6, SessionsAssumption DEF SubjectInv, Tables
  <2>. QED  BY <2>1, <2>2 DEF SubjectInv
<1>10. ASSUME NEW d \in Calls, d # c PROVE RowOk(d)'
  <2>1. RowOk(d) /\ call'[d] = call[d]  BY <1>2, <1>10 DEF RowInv
  <2>2. CASE call[d].at \in SignedIn
    <3>1. call[d].row # None /\ call[d].row \in Rows /\ call[d].row # call[c].row
      BY <1>10, <2>1, <2>2, SessionsAssumption DEF RowOk, RowInv
    <3>2. subjectOf'[call[d].row] = subjectOf[call[d].row]  BY <1>6, <3>1
    <3>3. ASSUME call[c].at \in SignedIn PROVE call[c].who # call[d].who
      <4>1. Holding(call[c]) \cap Holding(call[d]) = {}  BY <1>10 DEF LockInv
      <4>. QED  BY <3>3, <2>2, <4>1 DEF Holding
    <3>4. \A r \in Rows : subjectOf'[r] = call[d].who => r = call[d].row
      BY <1>6, <2>1, <2>2, <3>3 DEF RowOk
    <3>. QED  BY <2>1, <2>2, <3>1, <3>2, <3>4 DEF RowOk
  <2>3. CASE call[d].at \notin SignedIn  BY <2>1, <2>3 DEF RowOk
  <2>. QED  BY <2>2, <2>3
<1>11. RowOk(c)'  BY <1>2, <1>3 DEF RowOk
<1>12. RowInv'
  <2>1. \A d \in Calls : RowOk(d)'  BY <1>10, <1>11
  <2>2. ASSUME NEW d \in Calls, NEW e \in Calls, d # e, call'[d].row # None
        PROVE  call'[d].row # call'[e].row
    <3>1. d # c  BY <1>2, <1>3, <2>2
    <3>2. CASE e = c  BY <1>2, <1>3, <2>2, <3>2
    <3>3. CASE e # c  BY <1>2, <2>2, <3>1, <3>3 DEF RowInv
    <3>. QED  BY <3>2, <3>3
  <2>. QED  BY <2>1, <2>2 DEF RowInv
<1>13. Sess'  BY <1>4, <1>7, <1>9, <1>12
<1>. QED  BY <1>1, <1>6, <1>13

\* A request that takes one more lock, which is free, and keeps its subject and row.
LEMMA TakeKeeps ==
  ASSUME Sess, approved' = approved, subjectOf' = subjectOf, NEW c \in Calls, NEW q \in Calling,
         NEW L, Take(c, L), call' = [call EXCEPT ![c] = q], \A l \in L : Free(l),
         Holding(q) = Holding(call[c]) \cup L,
         q.at \in SignedIn <=> call[c].at \in SignedIn,
         q.row = call[c].row, q.at \in SignedIn => q.who = call[c].who
  PROVE  Sess'
<1>1. \A d \in Calls : held[d] = Holding(call[d])  BY DEF Sess, LockInv
<1>2. held' = [held EXCEPT ![c] = Holding(q)]  BY <1>1 DEF Take
<1>3. \A d \in Calls \ {c} : Holding(q) \cap held[d] = {}  BY <1>1 DEF Sess, LockInv, Free
<1>. QED  BY <1>2, <1>3, MoveKeeps

\* The changes of a request that moves on, in the form of TakeKeeps.
LEMMA CallTypes ==
  ASSUME Tables, NEW c \in Calls
  PROVE  call[c] \in Calling
BY DEF Tables

LEMMA MoveAt ==
  ASSUME Tables, NEW c \in Calls, NEW at \in Stages, call' = [call EXCEPT ![c].at = at]
  PROVE  /\ [call[c] EXCEPT !.at = at] \in Calling
         /\ call' = [call EXCEPT ![c] = [call[c] EXCEPT !.at = at]]
<1>1. call[c] \in Calling  BY DEF Tables
<1>2. [call[c] EXCEPT !.at = at] \in Calling  BY <1>1 DEF Calling
<1>3. call' = [call EXCEPT ![c] = [call[c] EXCEPT !.at = at]]  BY DEF Tables
<1>. QED  BY <1>2, <1>3

LEMMA MoveInto ==
  ASSUME Tables, NEW c \in Calls, NEW at \in Stages, NEW into \in Targets,
         call' = [call EXCEPT ![c].at = at, ![c].into = into]
  PROVE  /\ [call[c] EXCEPT !.at = at, !.into = into] \in Calling
         /\ call' = [call EXCEPT ![c] = [call[c] EXCEPT !.at = at, !.into = into]]
<1>1. call[c] \in Calling  BY DEF Tables
<1>2. [call[c] EXCEPT !.at = at, !.into = into] \in Calling  BY <1>1 DEF Calling
<1>3. call' = [call EXCEPT ![c] = [call[c] EXCEPT !.at = at, !.into = into]]
  BY <1>1 DEF Tables, Calling
<1>. QED  BY <1>2, <1>3

LEMMA MovePlan ==
  ASSUME Tables, NEW c \in Calls, NEW at \in Stages, NEW plan \in SUBSET Wishes,
         call' = [call EXCEPT ![c].at = at, ![c].plan = plan]
  PROVE  /\ [call[c] EXCEPT !.at = at, !.plan = plan] \in Calling
         /\ call' = [call EXCEPT ![c] = [call[c] EXCEPT !.at = at, !.plan = plan]]
<1>1. call[c] \in Calling  BY DEF Tables
<1>2. [call[c] EXCEPT !.at = at, !.plan = plan] \in Calling  BY <1>1 DEF Calling
<1>3. call' = [call EXCEPT ![c] = [call[c] EXCEPT !.at = at, !.plan = plan]]
  BY <1>1 DEF Tables, Calling
<1>. QED  BY <1>2, <1>3

\* Its locks by its stage.
LEMMA HoldingByStage ==
  ASSUME NEW q \in Calling
  PROVE  /\ q.at \in {"idle", "ended"} => Holding(q) = {}
         /\ q.at = "checked" => Holding(q) = {WishlistLock(q.on)}
         /\ q.at = "resolved" => Holding(q) = {CustomerLock(q.who)}
         /\ q.at \in {"one_list", "two_lists"} =>
              Holding(q) = {CustomerLock(q.who), WishlistLock(q.on)}
         /\ q.at = "copied" =>
              Holding(q) = {CustomerLock(q.who), WishlistLock(q.on), WishlistLock(q.into)}
         /\ q.at \in {"guest", "one_cart"} =>
              Holding(q) = {CustomerLock(q.who), CartLock(q.on)}
         /\ q.at = "two_carts" =>
              Holding(q) = {CustomerLock(q.who), CartLock(q.on), CartLock(q.into)}
<1>1. CASE q.at \in {"idle", "ended"}
  BY <1>1 DEF Holding, SignedIn, ListStages, CartStages
<1>2. CASE q.at = "checked"
  BY <1>2 DEF Holding, SignedIn, ListStages, CartStages
<1>3. CASE q.at = "resolved"
  BY <1>3 DEF Holding, SignedIn, ListStages, CartStages
<1>4. CASE q.at \in {"one_list", "two_lists"}
  BY <1>4 DEF Holding, SignedIn, ListStages, CartStages
<1>5. CASE q.at = "copied"
  BY <1>5 DEF Holding, SignedIn, ListStages, CartStages
<1>6. CASE q.at \in {"guest", "one_cart"}
  BY <1>6 DEF Holding, SignedIn, ListStages, CartStages
<1>7. CASE q.at = "two_carts"
  BY <1>7 DEF Holding, SignedIn, ListStages, CartStages
<1>. QED  BY <1>1, <1>2, <1>3, <1>4, <1>5, <1>6, <1>7

LEMMA AddPieceBegins ==
  ASSUME Sess, approved' = approved, NEW c \in Calls, NEW w \in Lists,
         NEW s \in Subjects \cup {None}, NEW p \in Wishes, BeginAddPiece(c, w, s, p)
  PROVE  Sess'
<1>. DEFINE q == Request("add_piece", "checked", s, None, w, None, {p})
<1>1. /\ q \in Calling /\ q.at = "checked" /\ q.on = w /\ q.row = None
      /\ q.at \notin SignedIn
  BY DEF Request, Calling, Ops, Stages, SignedIn, ListStages, CartStages, Targets
<1>2. call[c] = Idle /\ Idle.at = "idle" /\ Idle.row = None /\ Idle.at \notin SignedIn
  BY DEF BeginAddPiece, Idle, Request, SignedIn, ListStages, CartStages
<1>3. Holding(q) = {WishlistLock(w)} /\ Holding(call[c]) = {}
  BY <1>1, <1>2, CallTypes, HoldingByStage DEF Sess
<1>4. /\ Take(c, {WishlistLock(w)}) /\ Free(WishlistLock(w)) /\ subjectOf' = subjectOf
      /\ call' = [call EXCEPT ![c] = q]
  BY DEF BeginAddPiece, ListLocks
<1>. HIDE DEF q
<1>. QED  BY <1>1, <1>2, <1>3, <1>4, TakeKeeps

LEMMA SourceListLocked ==
  ASSUME Sess, approved' = approved, NEW c \in Calls, FindLists(c)
  PROVE  Sess'
<1>1. CASE Rollback(c)  BY <1>1, EndKeeps
<1>2. CASE ~Rollback(c)
  <2>. DEFINE w == call[c].on
  <2>1. /\ call[c].at = "resolved" /\ Free(WishlistLock(w)) /\ Take(c, {WishlistLock(w)})
        /\ subjectOf' = subjectOf
        /\ \/ call' = [call EXCEPT ![c].at = "one_list"]
           \/ \E target \in Lists :
                call' = [call EXCEPT ![c].at = "two_lists", ![c].into = target]
    BY <1>2 DEF FindLists, At, ListLocks, Moves, OfRow
  <2>2. PICK q \in Calling :
          /\ call' = [call EXCEPT ![c] = q] /\ q.at \in {"one_list", "two_lists"}
          /\ q.on = w /\ q.row = call[c].row /\ q.who = call[c].who
    <3>1. CASE call' = [call EXCEPT ![c].at = "one_list"]
      <4>. DEFINE q == [call[c] EXCEPT !.at = "one_list"]
      <4>0. "one_list" \in Stages /\ Tables  BY DEF Stages, SignedIn, ListStages, Sess
      <4>1. q \in Calling /\ call' = [call EXCEPT ![c] = q]  BY <3>1, <4>0, MoveAt
      <4>2. q.at = "one_list" /\ q.on = w /\ q.row = call[c].row /\ q.who = call[c].who
        BY CallTypes DEF Calling, Sess
      <4>. QED  BY <4>1, <4>2
    <3>2. ASSUME NEW target \in Lists,
                 call' = [call EXCEPT ![c].at = "two_lists", ![c].into = target]
          PROVE  \E q \in Calling :
                   /\ call' = [call EXCEPT ![c] = q] /\ q.at \in {"one_list", "two_lists"}
                   /\ q.on = w /\ q.row = call[c].row /\ q.who = call[c].who
      <4>. DEFINE q == [call[c] EXCEPT !.at = "two_lists", !.into = target]
      <4>0. "two_lists" \in Stages /\ target \in Targets /\ Tables
        BY DEF Stages, SignedIn, ListStages, Targets, Sess
      <4>1. q \in Calling /\ call' = [call EXCEPT ![c] = q]  BY <3>2, <4>0, MoveInto
      <4>2. q.at = "two_lists" /\ q.on = w /\ q.row = call[c].row /\ q.who = call[c].who
        BY CallTypes DEF Calling, Sess
      <4>. QED  BY <4>1, <4>2
    <3>. QED  BY <2>1, <3>1, <3>2
  <2>. HIDE DEF w
  <2>3. Holding(q) = Holding(call[c]) \cup {WishlistLock(w)}
    <3>1. Holding(call[c]) = {CustomerLock(call[c].who)}
      BY <2>1, CallTypes, HoldingByStage DEF Sess
    <3>2. Holding(q) = {CustomerLock(q.who), WishlistLock(q.on)}
      BY <2>2, HoldingByStage
    <3>. QED  BY <2>2, <3>1, <3>2
  <2>4. q.at \in SignedIn /\ call[c].at \in SignedIn
    BY <2>1, <2>2 DEF SignedIn, ListStages
  <2>5. /\ subjectOf' = subjectOf /\ Take(c, {WishlistLock(w)})
        /\ \A l \in {WishlistLock(w)} : Free(l)
    BY <2>1
  <2>. QED  BY <2>2, <2>3, <2>4, <2>5, TakeKeeps
<1>. QED  BY <1>1, <1>2

\* The account's list, and what is copied to it.
LEMMA TargetListLocked ==
  ASSUME Sess, Data, ListInv, approved' = approved, NEW c \in Calls, LockTarget(c)
  PROVE  Sess'
<1>. DEFINE into == call[c].into
<1>1. /\ call[c].at = "two_lists" /\ Free(WishlistLock(into)) /\ Take(c, {WishlistLock(into)})
      /\ subjectOf' = subjectOf
  BY DEF LockTarget, At, ListLocks
<1>2. call[c].on \in Lists /\ into \in Lists
  BY <1>1 DEF ListInv, ListOk, ListStages
<1>3. PICK S \in SUBSET Wishes : call' = [call EXCEPT ![c].at = "copied", ![c].plan = S]
  BY <1>2 DEF LockTarget, Fitting, Data, WishRow
<1>. DEFINE q == [call[c] EXCEPT !.at = "copied", !.plan = S]
<1>4. q \in Calling /\ call' = [call EXCEPT ![c] = q]
  <2>1. "copied" \in Stages /\ Tables  BY DEF Stages, SignedIn, ListStages, Sess
  <2>. QED  BY <1>3, <2>1, MovePlan
<1>5. /\ q.at = "copied" /\ q.on = call[c].on /\ q.into = into
      /\ q.row = call[c].row /\ q.who = call[c].who
  BY CallTypes DEF Calling, Sess
<1>. HIDE DEF q, into
<1>6. Holding(q) = Holding(call[c]) \cup {WishlistLock(into)}
  <2>1. Holding(call[c]) = {CustomerLock(call[c].who), WishlistLock(call[c].on)}
    BY <1>1, CallTypes, HoldingByStage DEF Sess
  <2>2. Holding(q) = {CustomerLock(q.who), WishlistLock(q.on), WishlistLock(q.into)}
    BY <1>4, <1>5, HoldingByStage
  <2>. QED  BY <1>5, <2>1, <2>2
<1>7. q.at \in SignedIn /\ call[c].at \in SignedIn
  BY <1>1, <1>5 DEF SignedIn, ListStages
<1>8. /\ subjectOf' = subjectOf /\ Take(c, {WishlistLock(into)})
      /\ \A l \in {WishlistLock(into)} : Free(l)
  BY <1>1
<1>. QED  BY <1>4, <1>5, <1>6, <1>7, <1>8, TakeKeeps

LEMMA GuestCartLocked ==
  ASSUME Sess, approved' = approved, NEW c \in Calls, LoadGuest(c)
  PROVE  Sess'
<1>1. CASE Rollback(c)  BY <1>1, EndKeeps
<1>2. CASE ~Rollback(c)
  <2>. DEFINE k == call[c].on
              q == [call[c] EXCEPT !.at = "guest"]
  <2>1. /\ call[c].at = "resolved" /\ Free(CartLock(k)) /\ Take(c, {CartLock(k)})
        /\ subjectOf' = subjectOf /\ call' = [call EXCEPT ![c].at = "guest"]
    BY <1>2 DEF LoadGuest, At, Moves
  <2>2. q \in Calling /\ call' = [call EXCEPT ![c] = q]
    <3>1. "guest" \in Stages /\ Tables  BY DEF Stages, SignedIn, CartStages, Sess
    <3>. QED  BY <2>1, <3>1, MoveAt
  <2>3. q.at = "guest" /\ q.on = k /\ q.row = call[c].row /\ q.who = call[c].who
    BY CallTypes DEF Calling, Sess
  <2>. HIDE DEF q, k
  <2>4. Holding(q) = Holding(call[c]) \cup {CartLock(k)}
    <3>1. Holding(call[c]) = {CustomerLock(call[c].who)}
      BY <2>1, CallTypes, HoldingByStage DEF Sess
    <3>2. Holding(q) = {CustomerLock(q.who), CartLock(q.on)}
      BY <2>2, <2>3, HoldingByStage
    <3>. QED  BY <2>3, <3>1, <3>2
  <2>5. q.at \in SignedIn /\ call[c].at \in SignedIn
    BY <2>1, <2>3 DEF SignedIn, CartStages
  <2>6. /\ subjectOf' = subjectOf /\ Take(c, {CartLock(k)})
        /\ \A l \in {CartLock(k)} : Free(l)
    BY <2>1
  <2>. QED  BY <2>2, <2>3, <2>4, <2>5, <2>6, TakeKeeps
<1>. QED  BY <1>1, <1>2

LEMMA SavedCartLocked ==
  ASSUME Sess, approved' = approved, NEW c \in Calls, FindSaved(c)
  PROVE  Sess'
<1>1. call[c].at = "guest" /\ subjectOf' = subjectOf  BY DEF FindSaved, At
<1>2. Holding(call[c]) = {CustomerLock(call[c].who), CartLock(call[c].on)}
  BY <1>1, CallTypes, HoldingByStage DEF Sess
<1>3. call[c].at \in SignedIn  BY <1>1 DEF SignedIn, CartStages
<1>4. ASSUME NEW k \in Carts, Free(CartLock(k)), Take(c, {CartLock(k)}),
             call' = [call EXCEPT ![c].at = "two_carts", ![c].into = k]
      PROVE  Sess'
  <2>. DEFINE q == [call[c] EXCEPT !.at = "two_carts", !.into = k]
  <2>1. q \in Calling /\ call' = [call EXCEPT ![c] = q]
    <3>1. "two_carts" \in Stages /\ k \in Targets /\ Tables
      BY DEF Stages, SignedIn, CartStages, Targets, Sess
    <3>. QED  BY <1>4, <3>1, MoveInto
  <2>2. /\ q.at = "two_carts" /\ q.on = call[c].on /\ q.into = k
        /\ q.row = call[c].row /\ q.who = call[c].who
    BY CallTypes DEF Calling, Sess
  <2>. HIDE DEF q
  <2>3. Holding(q) = Holding(call[c]) \cup {CartLock(k)}
    <3>1. Holding(q) = {CustomerLock(q.who), CartLock(q.on), CartLock(q.into)}
      BY <2>1, <2>2, HoldingByStage
    <3>. QED  BY <1>2, <2>2, <3>1
  <2>4. q.at \in SignedIn  BY <2>2 DEF SignedIn, CartStages
  <2>5. Take(c, {CartLock(k)}) /\ \A l \in {CartLock(k)} : Free(l)  BY <1>4
  <2>6. call[c].at \in SignedIn /\ subjectOf' = subjectOf  BY <1>1, <1>3
  <2>. QED  BY <2>6, <2>1, <2>2, <2>3, <2>4, <2>5, TakeKeeps
<1>5. ASSUME Moves(c, "one_cart"), UNCHANGED held PROVE Sess'
  <2>. DEFINE q == [call[c] EXCEPT !.at = "one_cart"]
  <2>1. q \in Calling /\ call' = [call EXCEPT ![c] = q]
    <3>1. "one_cart" \in Stages /\ Tables  BY DEF Stages, SignedIn, CartStages, Sess
    <3>. QED  BY <1>5, <3>1, MoveAt DEF Moves
  <2>2. q.at = "one_cart" /\ q.on = call[c].on /\ q.row = call[c].row /\ q.who = call[c].who
    BY CallTypes DEF Calling, Sess
  <2>. HIDE DEF q
  <2>3. Holding(q) = Holding(call[c])
    <3>1. Holding(q) = {CustomerLock(q.who), CartLock(q.on)}
      BY <2>1, <2>2, HoldingByStage
    <3>. QED  BY <1>2, <2>2, <3>1
  <2>4. q.at \in SignedIn  BY <2>2 DEF SignedIn, CartStages
  <2>5. /\ held' = [held EXCEPT ![c] = Holding(q)]
        /\ \A d \in Calls \ {c} : Holding(q) \cap held[d] = {}
    BY <1>5, <2>3 DEF Sess, LockInv
  <2>6. call[c].at \in SignedIn /\ subjectOf' = subjectOf
    BY <1>1, <1>3
  <2>. QED  BY <2>1, <2>2, <2>4, <2>5, <2>6, MoveKeeps
<1>. QED  BY <1>4, <1>5 DEF FindSaved, OtherCarts, OpenCarts

\* What the requests of each module do to their session and to approved.
LEMMA ProfileSteps ==
  ASSUME NEW c \in Calls, ProfileNext(c)
  PROVE  /\ approved' = approved
         /\ \/ \E s \in Subjects : CustomerFor(c, "profile", s, None)
            \/ At(c, "profile", "resolved") /\ (Commit(c) \/ Rollback(c))
BY DEF ProfileNext, BeginProfile, ReadProfile, UpdateProfile, AddAddress, AddConsent, CreateCase,
       DeleteAddress, AddMessage, Reply, Refused, RequestErasure, Writes, privacyVars

LEMMA SessNext ==
  ASSUME IInv, Next
  PROVE  Sess'
<1>0. Sess /\ Data /\ ListInv  BY DEF IInv
<1>1. ASSUME NEW c \in Calls, ProfileNext(c) PROVE Sess'
  BY <1>0, <1>1, ProfileSteps, SignInKeeps, EndKeeps DEF Ops, Targets
<1>2. ASSUME NEW c \in Calls, WishlistNext(c), approved' = approved PROVE Sess'
  <2>1. ASSUME NEW s \in Subjects, BeginCreateList(c, s) PROVE Sess'
    BY <1>0, <1>2, <2>1, SignInKeeps DEF BeginCreateList, Ops, Targets
  <2>2. ASSUME NEW s \in Subjects, NEW w \in Lists, BeginMergeList(c, s, w) PROVE Sess'
    BY <1>0, <1>2, <2>2, SignInKeeps DEF BeginMergeList, Ops, Targets
  <2>3. ASSUME Commit(c) \/ Rollback(c) PROVE Sess'  BY <1>0, <1>2, <2>3, EndKeeps
  <2>4. ASSUME NEW w \in Lists, NEW s \in Subjects \cup {None}, NEW p \in Wishes,
               BeginAddPiece(c, w, s, p) \/ RemovePiece(c, w, s, p)
        PROVE  Sess'
    BY <1>0, <1>2, <2>3, <2>4, AddPieceBegins DEF RemovePiece
  <2>5. ASSUME \/ CreateAccountList(c) \/ AddPiece(c) \/ AdoptList(c) \/ MergeLists(c)
               \/ \E w \in Lists : CreateGuestList(c, w)
        PROVE  Sess'
    BY <2>3, <2>5 DEF CreateAccountList, AddPiece, AdoptList, MergeLists, CreateGuestList
  <2>6. FindLists(c) => Sess'  BY <1>0, <1>2, SourceListLocked
  <2>7. LockTarget(c) => Sess'  BY <1>0, <1>2, TargetListLocked
  <2>. QED  BY <1>2, <2>1, <2>2, <2>4, <2>5, <2>6, <2>7 DEF WishlistNext
<1>3. ASSUME NEW c \in Calls, SavedCartNext(c), approved' = approved PROVE Sess'
  <2>1. ASSUME NEW s \in Subjects, BeginSavedCart(c, s) PROVE Sess'
    BY <1>0, <1>3, <2>1, SignInKeeps DEF BeginSavedCart, Ops, Targets
  <2>2. ASSUME NEW s \in Subjects, NEW k \in Carts, BeginMergeCart(c, s, k) PROVE Sess'
    BY <1>0, <1>3, <2>2, SignInKeeps DEF BeginMergeCart, Ops, Targets
  <2>3. ASSUME OpenSavedCart(c) \/ KeepGuest(c) \/ MergeCarts(c) PROVE Sess'
    BY <1>0, <1>3, <2>3, EndKeeps DEF OpenSavedCart, KeepGuest, MergeCarts
  <2>4. LoadGuest(c) => Sess'  BY <1>0, <1>3, GuestCartLocked
  <2>5. FindSaved(c) => Sess'  BY <1>0, <1>3, SavedCartLocked
  <2>. QED  BY <1>3, <2>1, <2>2, <2>3, <2>4, <2>5 DEF SavedCartNext
<1>4. ASSUME UNCHANGED <<sessionVars, approved>> PROVE Sess'
  BY <1>0, <1>4 DEF sessionVars, Sess, Tables, LockInv, RowInv, RowOk, SubjectInv
<1>5. ShopperNext /\ UNCHANGED privacyVars => Sess'
  BY <1>4 DEF ShopperNext, CreateCart, AddItem, UpdateItem, RemoveItem, Edit, privacyVars
<1>6. ASSUME NEW k \in Carts, PlaceOrder(k) PROVE Sess'
  BY <1>4, <1>6 DEF PlaceOrder, ConvertCart
<1>7. ASSUME NEW r \in Rows, PruneMessages(r) PROVE Sess'
  BY <1>4, <1>7 DEF PruneMessages
<1>8. ASSUME NEW r \in Rows, NEW checker \in Checkers, EraseAccount(r, checker) PROVE Sess'
  <2>1. /\ subjectOf' = [subjectOf EXCEPT ![r] = Erased] /\ approved' = approved \cup {r}
        /\ held' = held /\ call' = call
    BY <1>8 DEF EraseAccount, ApproveErasure, NewSubject
  <2>2. Tables' /\ LockInv'  BY <1>0, <2>1 DEF Sess, Tables, LockInv
  <2>3. SubjectInv'  BY <1>0, <2>1, SessionsAssumption DEF Sess, Tables, SubjectInv
  <2>4. ASSUME NEW c \in Calls PROVE RowOk(c)'
    <3>1. RowOk(c)  BY <1>0 DEF Sess, RowInv
    <3>. QED  BY <1>0, <2>1, <3>1, SessionsAssumption DEF Sess, Tables, RowOk
  <2>5. RowInv'  BY <1>0, <2>1, <2>4 DEF Sess, RowInv
  <2>. QED  BY <2>2, <2>3, <2>5 DEF Sess
<1>. QED
  BY <1>1, <1>2, <1>3, <1>5, <1>6, <1>7, <1>8 DEF Next, privacyVars

-------------------------------------------------------------------------------
(* Lists *)

LEMMA Counted ==
  ASSUME NEW P \in SUBSET Wishes
  PROVE  /\ IsFiniteSet(P) /\ Cardinality(P) \in Nat
         /\ \A Q \in SUBSET P : /\ Cardinality(Q) <= Cardinality(P)
                                /\ Cardinality(Q) = Cardinality(P) => Q = P
         /\ \A p \in Wishes \ P : Cardinality(P \cup {p}) = Cardinality(P) + 1
         /\ Cardinality({}) = 0
<1>1. IsFiniteSet(P)  BY LimitAssumption, FS_Subset
<1>2. Cardinality(P) \in Nat  BY <1>1, FS_CardinalityType
<1>3. ASSUME NEW Q \in SUBSET P
      PROVE  Cardinality(Q) <= Cardinality(P) /\ (Cardinality(Q) = Cardinality(P) => Q = P)
  BY <1>1, FS_Subset
<1>4. \A p \in Wishes \ P : Cardinality(P \cup {p}) = Cardinality(P) + 1
  BY <1>1, FS_AddElement
<1>. QED  BY <1>1, <1>2, <1>3, <1>4, FS_EmptySet

\* What a merge copies fits, and is all there is or fills the list.
LEMMA FittingFits ==
  ASSUME NEW source \in SUBSET Wishes, NEW target \in SUBSET Wishes,
         Cardinality(target) <= Limit, NEW S \in Fitting(source, target)
  PROVE  /\ S \in SUBSET Wishes
         /\ Cardinality(target \cup S) <= Limit
         /\ source \subseteq target \cup S \/ Cardinality(target \cup S) = Limit
<1>. DEFINE new == source \ target
<1>1. /\ S \in SUBSET new
      /\ Cardinality(S) = IF Cardinality(new) <= Room(target) THEN Cardinality(new)
                          ELSE Room(target)
  BY DEF Fitting
<1>2. /\ new \in SUBSET Wishes /\ S \in SUBSET Wishes /\ target \cap S = {}
  BY <1>1
<1>3. Cardinality(target \cup S) = Cardinality(target) + Cardinality(S)
  <2>1. IsFiniteSet(target) /\ IsFiniteSet(S)  BY <1>2, Counted
  <2>2. Cardinality(target) \in Nat /\ Cardinality(S) \in Nat /\ Cardinality(target \cap S) = 0
    BY <1>2, Counted
  <2>3. Cardinality(target \cup S)
          = Cardinality(target) + Cardinality(S) - Cardinality(target \cap S)
    BY <2>1, FS_Union
  <2>. QED  BY <2>2, <2>3
<1>4. /\ Cardinality(target) \in Nat /\ Cardinality(S) \in Nat /\ Cardinality(new) \in Nat
      /\ Cardinality(S) = Cardinality(new) => S = new
  BY <1>1, <1>2, Counted
<1>5. Room(target) \in Nat /\ Cardinality(target) + Room(target) = Limit
  BY <1>4, LimitAssumption DEF Room
<1>6. CASE Cardinality(new) <= Room(target)
  <2>1. S = new  BY <1>1, <1>4, <1>6
  <2>2. source \subseteq target \cup S  BY <2>1
  <2>. HIDE DEF new
  <2>. QED  BY <1>1, <1>2, <1>3, <1>4, <1>5, <1>6, <2>2, LimitAssumption
<1>7. CASE ~(Cardinality(new) <= Room(target))
  <2>. HIDE DEF new
  <2>. QED  BY <1>1, <1>2, <1>3, <1>4, <1>5, <1>7, LimitAssumption
<1>. QED  BY <1>6, <1>7

\* A change of a list that does not concern a request: nobody had used the list, or the
\* request has no lock on it and it is not, or remains, its customer's.
Spares(d, w) ==
  \/ lists'[w] = lists[w]
  \/ lists[w].state = "unused"
  \/ /\ lists[w] # Deleted /\ WishlistLock(w) \notin held[d]
     /\ call[d].row \in Rows /\ lists[w].row = call[d].row
          => There(w)' /\ lists'[w].row = lists[w].row

LEMMA ListLocksHeld ==
  ASSUME Sess, NEW d \in Calls
  PROVE  /\ call[d].at \in {"checked"} \cup ListStages => WishlistLock(call[d].on) \in held[d]
         /\ call[d].at = "copied" => WishlistLock(call[d].into) \in held[d]
         /\ call[d].at \in ListStages => call[d].row \in Rows
         /\ call[d].at \in CartStages => CartLock(call[d].on) \in held[d] /\ call[d].row \in Rows
         /\ call[d].at = "two_carts" => CartLock(call[d].into) \in held[d]
<1>1. held[d] = Holding(call[d]) /\ RowOk(d)  BY DEF Sess, LockInv, RowInv
<1>. QED  BY <1>1 DEF Holding, RowOk, SignedIn

LEMMA ListKept ==
  ASSUME Sess, NEW d \in Calls, ListOk(d), call'[d] = call[d], approved' = approved,
         \A w \in Lists : Spares(d, w)
  PROVE  ListOk(d)'
<1>. DEFINE q == call[d]
<1>1. ASSUME NEW w \in Lists, WishlistLock(w) \in held[d], lists[w].state # "unused"
      PROVE  lists'[w] = lists[w]
  BY <1>1 DEF Spares
<1>2. ASSUME q.at \in {"checked"} \cup ListStages
      PROVE  q.on \in Lists /\ lists[q.on].state # "unused" /\ lists'[q.on] = lists[q.on]
  BY <1>1, <1>2, ListLocksHeld DEF ListOk
<1>3. ASSUME q.at \in {"two_lists", "copied"}
      PROVE  /\ q.into \in Lists \ {q.on}
             /\ \/ (There(q.into) /\ lists[q.into].row = q.row)'
                \/ lists'[q.into] = Deleted /\ approved # {}
             /\ q.at = "copied" => lists'[q.into] = lists[q.into]
  <2>1. /\ q.into \in Lists \ {q.on} /\ Spares(d, q.into) /\ q.row \in Rows
        /\ \/ There(q.into) /\ lists[q.into].row = q.row
           \/ lists[q.into] = Deleted /\ approved # {}
    BY <1>3, ListLocksHeld DEF ListOk, ListStages
  <2>2. Deleted.state = "deleted"  BY DEF Deleted, List
  <2>3. lists[q.into].state # "unused"  BY <2>1, <2>2 DEF There
  <2>4. q.at = "copied" => lists'[q.into] = lists[q.into]
    BY <1>1, <2>1, <2>3, ListLocksHeld
  <2>5. CASE There(q.into) /\ lists[q.into].row = q.row
    BY <2>1, <2>3, <2>4, <2>5 DEF Spares, There
  <2>6. CASE lists[q.into] = Deleted /\ approved # {}
    BY <2>1, <2>2, <2>3, <2>4, <2>6 DEF Spares, There
  <2>. QED  BY <2>1, <2>4, <2>5, <2>6
<1>4. q.op = "merge_wishlist" /\ q.at = "resolved" => q.on \in Lists  BY DEF ListOk
<1>5. q.at = "checked" => Fits(q.on, q.plan)'
  BY <1>2 DEF ListOk, Fits, There
<1>6. q.at \in ListStages => lists'[q.on].row \in {None, q.row}
  BY <1>2 DEF ListOk
<1>7. q.at = "copied" =>
        /\ Fits(q.into, q.plan)'
        /\ There(q.on)' /\ There(q.into)' =>
            \/ lists'[q.on].pieces \subseteq lists'[q.into].pieces \cup q.plan
            \/ Cardinality(lists'[q.into].pieces \cup q.plan) = Limit
  BY <1>2, <1>3 DEF ListOk, Fits, There, ListStages
<1>. QED  BY <1>2, <1>3, <1>4, <1>5, <1>6, <1>7 DEF ListOk, There

\* A step of one request keeps what the others know.
LEMMA ListInvKept ==
  ASSUME IInv, NEW c \in Calls, \A d \in Calls \ {c} : call'[d] = call[d], approved' = approved,
         \A d \in Calls \ {c} : \A w \in Lists : Spares(d, w),
         ListOk(c)', \A w \in Lists : Cardinality(lists'[w].pieces) <= Limit
  PROVE  ListInv'
<1>1. ASSUME NEW d \in Calls PROVE ListOk(d)'
  <2>1. ListOk(d) /\ Sess  BY DEF IInv, ListInv
  <2>2. CASE d = c  BY <2>2
  <2>3. CASE d # c  BY <2>1, <2>3, ListKept
  <2>. QED  BY <2>2, <2>3
<1>. QED  BY <1>1 DEF ListInv

LEMMA CrossInvKept ==
  ASSUME IInv, NEW c \in Calls, \A d \in Calls \ {c} : call'[d] = call[d],
         call'[c].at # "two_lists"
  PROVE  CrossInv'
<1>1. ASSUME NEW d \in Calls, NEW e \in Calls,
             call'[d].at = "two_lists", call'[e].at = "two_lists"
      PROVE  call'[d].into # call'[e].on
  BY <1>1 DEF IInv, CrossInv
<1>. QED  BY <1>1 DEF CrossInv

\* Two requests: their rows and their locks.
LEMMA OtherRequest ==
  ASSUME Sess, NEW c \in Calls, NEW d \in Calls, c # d
  PROVE  /\ call[c].row \in Rows => call[d].row # call[c].row
         /\ held[c] \cap held[d] = {}
BY SessionsAssumption DEF Sess, RowInv, LockInv

\* A list that a request has locked, and that is its customer's or nobody's, is not
\* another customer's; what happens to it concerns no other request.
LEMMA LockedSpares ==
  ASSUME Sess, lists \in [Lists -> WishRow],
         NEW c \in Calls, NEW d \in Calls, c # d, NEW w \in Lists,
         lists[w] = Deleted => lists'[w] = lists[w],
         WishlistLock(w) \in held[c],
         \/ lists[w].row \in {None, call[c].row} /\ call[c].row \in Rows
         \/ There(w)' /\ lists'[w].row = lists[w].row
  PROVE  Spares(d, w)
<1>1. WishlistLock(w) \notin held[d]  BY OtherRequest
<1>2. CASE There(w)' /\ lists'[w].row = lists[w].row
  BY <1>1, <1>2 DEF Spares
<1>3. CASE lists[w].row \in {None, call[c].row} /\ call[c].row \in Rows
  <2>1. ~(call[d].row \in Rows /\ lists[w].row = call[d].row)
    BY <1>3, OtherRequest, SessionsAssumption
  <2>. QED  BY <1>1, <2>1 DEF Spares
<1>. QED  BY <1>2, <1>3

LEMMA EndedList ==
  ASSUME NEW c \in Calls, call'[c] = Ended
  PROVE  ListOk(c)' /\ CartOk(c)' /\ call'[c].at # "two_lists"
BY DEF Ended, Request, ListOk, CartOk, ListStages, CartStages

\* A request that ends and has changed lists nobody else uses.
LEMMA ListEnd ==
  ASSUME IInv, NEW c \in Calls, Commit(c) \/ Rollback(c), approved' = approved,
         \A d \in Calls \ {c} : \A w \in Lists : Spares(d, w),
         \A w \in Lists : Cardinality(lists'[w].pieces) <= Limit
  PROVE  ListInv' /\ CrossInv'
<1>1. call' = [call EXCEPT ![c] = Ended]  BY EndKeeps DEF IInv
<1>2. call'[c] = Ended /\ \A d \in Calls \ {c} : call'[d] = call[d]
  BY <1>1 DEF IInv, Sess, Tables
<1>3. ListOk(c)' /\ call'[c].at # "two_lists"  BY <1>2, EndedList
<1>. QED  BY <1>2, <1>3, ListInvKept, CrossInvKept

LEMMA SameLists ==
  ASSUME NEW d \in Calls, lists' = lists
  PROVE  \A w \in Lists : Spares(d, w)
BY DEF Spares

\* Requests that begin, in Wishlists and in the other modules.
LEMMA ListBegin ==
  ASSUME IInv, NEW c \in Calls, NEW op \in Ops, NEW s \in Subjects, NEW on \in Targets,
         op = "merge_wishlist" => on \in Lists,
         CustomerFor(c, op, s, on), approved' = approved, lists' = lists
  PROVE  ListInv' /\ CrossInv'
<1>1. PICK r \in Rows : call' = [call EXCEPT ![c] = Request(op, "resolved", s, r, on, None, {})]
  BY SignInKeeps DEF IInv
<1>2. /\ call'[c] = Request(op, "resolved", s, r, on, None, {})
      /\ \A d \in Calls \ {c} : call'[d] = call[d]
  BY <1>1 DEF IInv, Sess, Tables
<1>3. ListOk(c)' /\ call'[c].at # "two_lists"  BY <1>2 DEF Request, ListOk, ListStages
<1>4. \A w \in Lists : Cardinality(lists'[w].pieces) <= Limit  BY DEF IInv, ListInv
<1>5. \A d \in Calls \ {c} : \A w \in Lists : Spares(d, w)  BY SameLists
<1>. QED  BY <1>2, <1>3, <1>4, <1>5, ListInvKept, CrossInvKept

LEMMA CreateGuestListKeeps ==
  ASSUME IInv, NEW c \in Calls, NEW w \in Lists, CreateGuestList(c, w), approved' = approved
  PROVE  ListInv' /\ CrossInv'
<1>1. /\ lists' = [lists EXCEPT ![w] = List("there", None, {})] /\ lists[w].state = "unused"
      /\ Commit(c)
  BY DEF CreateGuestList, NoList, List
<1>2. \A d \in Calls \ {c} : \A v \in Lists : Spares(d, v)
  BY <1>1 DEF Spares, IInv, Data
<1>3. \A v \in Lists : Cardinality(lists'[v].pieces) <= Limit
  BY <1>1, Counted, LimitAssumption DEF IInv, Data, ListInv, List
<1>. QED  BY <1>1, <1>2, <1>3, ListEnd

LEMMA CreateAccountListKeeps ==
  ASSUME IInv, NEW c \in Calls, CreateAccountList(c), approved' = approved
  PROVE  ListInv' /\ CrossInv'
<1>1. CASE lists' = lists
  BY <1>1, SameLists, ListEnd DEF CreateAccountList, IInv, ListInv
<1>2. ASSUME NEW w \in Lists, lists[w] = NoList,
             lists' = [lists EXCEPT ![w] = List("there", call[c].row, {})]
      PROVE  ListInv' /\ CrossInv'
  <2>1. lists[w].state = "unused" /\ Commit(c)
    BY <1>2 DEF CreateAccountList, NoList, List
  <2>2. \A d \in Calls \ {c} : \A v \in Lists : Spares(d, v)
    BY <1>2, <2>1 DEF Spares, IInv, Data
  <2>3. \A v \in Lists : Cardinality(lists'[v].pieces) <= Limit
    BY <1>2, Counted, LimitAssumption DEF IInv, Data, ListInv, List
  <2>. QED  BY <2>1, <2>2, <2>3, ListEnd
<1>. QED  BY <1>1, <1>2 DEF CreateAccountList

LEMMA BeginAddPieceKeeps ==
  ASSUME IInv, NEW c \in Calls, NEW w \in Lists, NEW s \in Subjects \cup {None}, NEW p \in Wishes,
         BeginAddPiece(c, w, s, p), approved' = approved
  PROVE  ListInv' /\ CrossInv'
<1>1. /\ There(w) /\ p \notin lists[w].pieces /\ Room(lists[w].pieces) > 0 /\ lists' = lists
      /\ call' = [call EXCEPT ![c] = Request("add_piece", "checked", s, None, w, None, {p})]
  BY DEF BeginAddPiece, Owned
<1>2. /\ call'[c] = Request("add_piece", "checked", s, None, w, None, {p})
      /\ \A d \in Calls \ {c} : call'[d] = call[d]
  BY <1>1 DEF IInv, Sess, Tables
<1>3. Cardinality(lists[w].pieces \cup {p}) <= Limit
  <2>1. lists[w].pieces \in SUBSET Wishes /\ Cardinality(lists[w].pieces) <= Limit
    BY DEF IInv, Data, WishRow, ListInv
  <2>2. /\ Cardinality(lists[w].pieces) \in Nat
        /\ Cardinality(lists[w].pieces \cup {p}) = Cardinality(lists[w].pieces) + 1
    BY <1>1, <2>1, Counted
  <2>. QED  BY <1>1, <2>1, <2>2, LimitAssumption DEF Room
<1>4. ListOk(c)' /\ call'[c].at # "two_lists"
  BY <1>1, <1>2, <1>3 DEF Request, ListOk, ListStages, Fits, There
<1>5. \A v \in Lists : Cardinality(lists'[v].pieces) <= Limit  BY <1>1 DEF IInv, ListInv
<1>6. \A d \in Calls \ {c} : \A v \in Lists : Spares(d, v)  BY <1>1, SameLists
<1>. QED  BY <1>2, <1>4, <1>5, <1>6, ListInvKept, CrossInvKept

LEMMA AddPieceKeeps ==
  ASSUME IInv, NEW c \in Calls, AddPiece(c), approved' = approved
  PROVE  ListInv' /\ CrossInv'
<1>1. CASE lists' = lists
  BY <1>1, SameLists, ListEnd DEF AddPiece, IInv, ListInv
<1>2. CASE lists' # lists
  <2>1. PICK w \in Lists :
          /\ There(w) /\ Commit(c) /\ WishlistLock(w) \in held[c]
          /\ lists' = [lists EXCEPT ![w].pieces = @ \cup call[c].plan]
          /\ Cardinality(lists[w].pieces \cup call[c].plan) <= Limit
    <3>1. /\ There(call[c].on) /\ Commit(c) /\ call[c].at = "checked"
          /\ lists' = [lists EXCEPT ![call[c].on].pieces = @ \cup call[c].plan]
      BY <1>2 DEF AddPiece, At
    <3>2. /\ call[c].on \in Lists /\ WishlistLock(call[c].on) \in held[c]
          /\ Cardinality(lists[call[c].on].pieces \cup call[c].plan) <= Limit
      BY <3>1, ListLocksHeld DEF IInv, ListInv, ListOk, Fits
    <3>. QED  BY <3>1, <3>2
  <2>3. There(w)' /\ lists'[w].row = lists[w].row
    BY <2>1 DEF There, IInv, Data, WishRow
  <2>4. \A d \in Calls \ {c} : \A v \in Lists : Spares(d, v)
    <3>1. ASSUME NEW d \in Calls \ {c} PROVE Spares(d, w)
      BY <2>1, <2>3, LockedSpares DEF IInv, Data, There, Deleted, List
    <3>2. ASSUME NEW d \in Calls \ {c}, NEW v \in Lists \ {w} PROVE Spares(d, v)
      BY <2>1 DEF Spares, IInv, Data
    <3>. QED  BY <3>1, <3>2
  <2>5. \A v \in Lists : Cardinality(lists'[v].pieces) <= Limit
    BY <2>1 DEF IInv, Data, WishRow, ListInv
  <2>. QED  BY <2>1, <2>4, <2>5, ListEnd
<1>. QED  BY <1>1, <1>2

LEMMA RemovePieceKeeps ==
  ASSUME IInv, NEW c \in Calls, NEW w \in Lists, NEW s, NEW p \in Wishes,
         RemovePiece(c, w, s, p), approved' = approved
  PROVE  ListInv' /\ CrossInv'
<1>1. /\ There(w) /\ Commit(c) /\ Free(WishlistLock(w))
      /\ lists' = [lists EXCEPT ![w].pieces = @ \ {p}]
  BY DEF RemovePiece, Owned
<1>2. There(w)' /\ lists'[w].row = lists[w].row
      /\ \A v \in Lists \ {w} : lists'[v] = lists[v]
  BY <1>1 DEF There, IInv, Data, WishRow
<1>3. \A d \in Calls \ {c} : \A v \in Lists : Spares(d, v)
  <2>1. ASSUME NEW d \in Calls PROVE Spares(d, w)
    BY <1>1, <1>2 DEF Spares, Free, There, Deleted, List
  <2>2. ASSUME NEW d \in Calls, NEW v \in Lists \ {w} PROVE Spares(d, v)  BY <1>2 DEF Spares
  <2>. QED  BY <2>1, <2>2
<1>4. \A v \in Lists : Cardinality(lists'[v].pieces) <= Limit
  <2>1. lists[w].pieces \in SUBSET Wishes /\ lists'[w].pieces = lists[w].pieces \ {p}
    BY <1>1 DEF IInv, Data, WishRow
  <2>2. lists'[w].pieces \in SUBSET Wishes
        /\ Cardinality(lists'[w].pieces) <= Cardinality(lists[w].pieces)
    BY <2>1, Counted
  <2>3. Cardinality(lists'[w].pieces) \in Nat /\ Cardinality(lists[w].pieces) \in Nat
    BY <2>1, <2>2, Counted
  <2>4. \A v \in Lists : Cardinality(lists[v].pieces) <= Limit  BY DEF IInv, ListInv
  <2>. QED  BY <1>2, <2>2, <2>3, <2>4, LimitAssumption
<1>. QED  BY <1>1, <1>3, <1>4, ListEnd

LEMMA FindListsKeeps ==
  ASSUME IInv, NEW c \in Calls, FindLists(c), approved' = approved
  PROVE  ListInv' /\ CrossInv'
<1>0. Sess /\ ListInv /\ lists' = lists  BY DEF IInv, FindLists
<1>1. CASE Rollback(c)
  BY <1>0, <1>1, SameLists, ListEnd DEF ListInv
<1>2. CASE ~Rollback(c)
  <2>1. PICK w \in Lists :
          /\ w = call[c].on /\ Free(WishlistLock(w)) /\ call[c].at = "resolved"
          /\ \E token \in BOOLEAN : Owned(w, call[c].who, token)
          /\ \/ call' = [call EXCEPT ![c].at = "one_list"]
             \/ \E target \in OfRow(call[c].row) \ {w} :
                  call' = [call EXCEPT ![c].at = "two_lists", ![c].into = target]
    <3>1. call[c].on \in Lists  BY <1>0 DEF FindLists, At, ListInv, ListOk
    <3>. QED  BY <1>2, <3>1 DEF FindLists, At, Moves
  <2>2. There(w) /\ lists[w].row \in {None, call[c].row} /\ call[c].row \in Rows
    <3>1. RowOk(c) /\ call[c].at \in SignedIn  BY <1>0, <2>1 DEF Sess, RowInv, SignedIn
    <3>2. ASSUME lists[w].row # None PROVE lists[w].row = call[c].row
      <4>1. lists[w].row = RowOf(call[c].who) /\ RowOf(call[c].who) # None
        BY <2>1, <3>2 DEF Owned
      <4>2. RowOf(call[c].who) \in Rows /\ subjectOf[RowOf(call[c].who)] = call[c].who
        BY <4>1 DEF RowOf
      <4>. QED  BY <3>1, <4>1, <4>2 DEF RowOk
    <3>. QED  BY <2>1, <3>1, <3>2 DEF Owned, RowOk
  <2>3. call[c] \in Calling /\ \A d \in Calls \ {c} : call'[d] = call[d]
    BY <1>0, <2>1 DEF Sess, Tables
  <2>4. \/ call'[c] = [call[c] EXCEPT !.at = "one_list"]
        \/ \E target \in OfRow(call[c].row) \ {w} :
             call'[c] = [call[c] EXCEPT !.at = "two_lists", !.into = target]
    BY <1>0, <2>1 DEF Sess, Tables
  <2>5. /\ call'[c].on = w /\ call'[c].row = call[c].row
        /\ \/ call'[c].at = "one_list"
           \/ /\ call'[c].at = "two_lists" /\ call'[c].into \in Lists \ {w}
              /\ There(call'[c].into) /\ lists[call'[c].into].row = call[c].row
    BY <2>1, <2>3, <2>4 DEF Calling, OfRow
  <2>6. ListOk(c)'
    BY <1>0, <2>1, <2>2, <2>5 DEF ListOk, ListStages, There
  <2>7. ListInv'
    <3>1. \A d \in Calls \ {c} : \A v \in Lists : Spares(d, v)  BY <1>0, SameLists
    <3>2. \A v \in Lists : Cardinality(lists'[v].pieces) <= Limit  BY <1>0 DEF ListInv
    <3>. QED  BY <2>3, <2>6, <3>1, <3>2, ListInvKept
  <2>8. ASSUME NEW d \in Calls \ {c}, call[d].at = "two_lists", call'[c].at = "two_lists"
        PROVE  call[d].into # w /\ call'[c].into # call[d].on
    <3>1. /\ call[d].row # call[c].row /\ call[d].row \in Rows /\ call[c].row # None
          /\ ListOk(d)
      BY <1>0, <2>2, <2>8, OtherRequest, ListLocksHeld, SessionsAssumption DEF ListStages, ListInv
    <3>2. /\ lists[call[d].on].row \in {None, call[d].row}
          /\ call[d].into \in Lists
          /\ \/ There(call[d].into) /\ lists[call[d].into].row = call[d].row
             \/ lists[call[d].into] = Deleted
      BY <2>8, <3>1 DEF ListOk, ListStages
    <3>3. call[d].into # w
      BY <2>2, <3>1, <3>2, SessionsAssumption DEF Deleted, List, There
    <3>4. call'[c].into # call[d].on  BY <2>5, <2>8, <3>1, <3>2
    <3>. QED  BY <3>3, <3>4
  <2>9. CrossInv'
    <3>1. ASSUME NEW d \in Calls, NEW e \in Calls,
                 call'[d].at = "two_lists", call'[e].at = "two_lists"
          PROVE  call'[d].into # call'[e].on
      <4>1. CASE d = c /\ e = c  BY <2>5, <3>1, <4>1
      <4>2. CASE d = c /\ e # c  BY <2>3, <2>8, <3>1, <4>2
      <4>3. CASE d # c /\ e = c  BY <2>3, <2>5, <2>8, <3>1, <4>3
      <4>4. CASE d # c /\ e # c  BY <2>3, <3>1, <4>4 DEF IInv, CrossInv
      <4>. QED  BY <4>1, <4>2, <4>3, <4>4
    <3>. QED  BY <3>1 DEF CrossInv
  <2>. QED  BY <2>7, <2>9
<1>. QED  BY <1>1, <1>2

LEMMA AdoptListKeeps ==
  ASSUME IInv, NEW c \in Calls, AdoptList(c), approved' = approved
  PROVE  ListInv' /\ CrossInv'
<1>0. Sess /\ ListInv /\ lists \in [Lists -> WishRow]  BY DEF IInv, Data
<1>1. PICK w \in Lists :
        /\ WishlistLock(w) \in held[c] /\ Commit(c) /\ call[c].row \in Rows
        /\ lists[w].row \in {None, call[c].row} /\ lists[w].state # "unused"
        /\ lists' = IF There(w) THEN [lists EXCEPT ![w].row = call[c].row] ELSE lists
  BY <1>0, ListLocksHeld DEF AdoptList, At, ListInv, ListOk, ListStages
<1>2. \A v \in Lists : /\ lists'[v].pieces = lists[v].pieces
                       /\ v # w => lists'[v] = lists[v]
                       /\ ~There(w) => lists'[v] = lists[v]
  BY <1>0, <1>1 DEF WishRow
<1>3. \A d \in Calls \ {c} : \A v \in Lists : Spares(d, v)
  <2>1. ASSUME NEW d \in Calls \ {c} PROVE Spares(d, w)
    BY <1>0, <1>1, <1>2, LockedSpares DEF There, Deleted, List
  <2>2. ASSUME NEW d \in Calls, NEW v \in Lists \ {w} PROVE Spares(d, v)  BY <1>2 DEF Spares
  <2>. QED  BY <2>1, <2>2
<1>4. \A v \in Lists : Cardinality(lists'[v].pieces) <= Limit  BY <1>0, <1>2 DEF ListInv
<1>. QED  BY <1>1, <1>3, <1>4, ListEnd

LEMMA LockTargetKeeps ==
  ASSUME IInv, NEW c \in Calls, LockTarget(c), approved' = approved
  PROVE  ListInv' /\ CrossInv'
<1>0. Sess /\ ListInv /\ lists \in [Lists -> WishRow] /\ lists' = lists
  BY DEF IInv, Data, LockTarget
<1>1. call[c].at = "two_lists"  BY DEF LockTarget, At
<1>2. PICK w \in Lists, t \in Lists :
        /\ t # w /\ w = call[c].on /\ t = call[c].into /\ lists[w].state # "unused"
        /\ lists[w].row \in {None, call[c].row}
        /\ \/ There(t) /\ lists[t].row = call[c].row
           \/ lists[t] = Deleted /\ approved # {}
  BY <1>0, <1>1 DEF ListInv, ListOk, ListStages
<1>3. PICK S \in Fitting(lists[w].pieces, lists[t].pieces) :
        call' = [call EXCEPT ![c].at = "copied", ![c].plan = S]
  BY <1>2 DEF LockTarget
<1>4. /\ Cardinality(lists[t].pieces \cup S) <= Limit
      /\ \/ lists[w].pieces \subseteq lists[t].pieces \cup S
         \/ Cardinality(lists[t].pieces \cup S) = Limit
  BY <1>0, <1>2, FittingFits DEF WishRow, ListInv
<1>5. /\ call[c] \in Calling /\ \A d \in Calls \ {c} : call'[d] = call[d]
      /\ call'[c] = [call[c] EXCEPT !.at = "copied", !.plan = S]
  BY <1>0, <1>3 DEF Sess, Tables
<1>6. /\ call'[c].at = "copied" /\ call'[c].on = w /\ call'[c].into = t /\ call'[c].plan = S
      /\ call'[c].row = call[c].row
  BY <1>2, <1>5 DEF Calling
<1>7. ListOk(c)'
  BY <1>0, <1>2, <1>4, <1>6 DEF ListOk, ListStages, There, Fits
<1>8. \A d \in Calls \ {c} : \A v \in Lists : Spares(d, v)  BY <1>0, SameLists
<1>9. \A v \in Lists : Cardinality(lists'[v].pieces) <= Limit  BY <1>0 DEF ListInv
<1>10. call'[c].at # "two_lists"  BY <1>6
<1>. QED  BY <1>5, <1>7, <1>8, <1>9, <1>10, ListInvKept, CrossInvKept

\* What a merge finds when it writes.
Copied(c, w, t) ==
  /\ t # w /\ w = call[c].on /\ t = call[c].into /\ call[c].row \in Rows
  /\ WishlistLock(w) \in held[c] /\ WishlistLock(t) \in held[c]
  /\ lists[w].state # "unused" /\ lists[w].row \in {None, call[c].row}
  /\ \/ There(t) /\ lists[t].row = call[c].row
     \/ lists[t] = Deleted /\ approved # {}
  /\ Fits(t, call[c].plan) /\ call[c].plan \in SUBSET Wishes
  /\ There(w) /\ There(t) => \/ lists[w].pieces \subseteq lists[t].pieces \cup call[c].plan
                             \/ Cardinality(lists[t].pieces \cup call[c].plan) = Limit

LEMMA CopiedLists ==
  ASSUME IInv, NEW c \in Calls, call[c].at = "copied"
  PROVE  \E w, t \in Lists : Copied(c, w, t)
<1>1. Sess /\ ListOk(c) /\ call[c] \in Calling  BY DEF IInv, ListInv, Sess, Tables
<1>. QED  BY <1>1, ListLocksHeld DEF ListOk, ListStages, Calling, Copied

LEMMA MergeListsKeeps ==
  ASSUME IInv, NEW c \in Calls, MergeLists(c), approved' = approved
  PROVE  ListInv' /\ CrossInv'
<1>0. Sess /\ ListInv /\ lists \in [Lists -> WishRow]  BY DEF IInv, Data
<1>1. CASE lists' = lists
  BY <1>0, <1>1, SameLists, ListEnd DEF MergeLists, ListInv
<1>2. CASE lists' # lists
  <2>0. call[c].at = "copied"  BY DEF MergeLists, At
  <2>1. PICK w, t \in Lists : Copied(c, w, t)  BY <2>0, CopiedLists
  <2>2. /\ Commit(c) /\ (There(t) \/ call[c].plan = {})
        /\ lists' = [lists EXCEPT ![w] = Deleted, ![t].pieces = @ \cup call[c].plan]
    BY <1>2, <2>1 DEF MergeLists, Copied
  <2>3. /\ lists'[w] = Deleted
        /\ lists'[t] = [lists[t] EXCEPT !.pieces = @ \cup call[c].plan]
        /\ \A v \in Lists \ {w, t} : lists'[v] = lists[v]
    BY <1>0, <2>1, <2>2 DEF Copied
  <2>4. /\ lists'[t].state = lists[t].state /\ lists'[t].row = lists[t].row
        /\ lists'[t].pieces = lists[t].pieces \cup call[c].plan
        /\ lists[t] = Deleted => lists'[t] = lists[t]
    BY <1>0, <2>2, <2>3 DEF WishRow, There, Deleted, List
  <2>5. \A d \in Calls \ {c} : \A v \in Lists : Spares(d, v)
    <3>1. ASSUME NEW d \in Calls \ {c} PROVE Spares(d, w)
      BY <1>0, <2>1, <2>3, LockedSpares DEF Copied
    <3>2. ASSUME NEW d \in Calls \ {c} PROVE Spares(d, t)
      BY <1>0, <2>1, <2>4, LockedSpares DEF There, Spares, Copied
    <3>3. ASSUME NEW d \in Calls, NEW v \in Lists \ {w, t} PROVE Spares(d, v)
      BY <2>3 DEF Spares
    <3>. QED  BY <3>1, <3>2, <3>3
  <2>6. \A v \in Lists : Cardinality(lists'[v].pieces) <= Limit
    <3>1. Cardinality(lists'[w].pieces) <= Limit
      BY <2>3, Counted, LimitAssumption DEF Deleted, List
    <3>2. Cardinality(lists'[t].pieces) <= Limit
      BY <1>0, <2>1, <2>2, <2>4 DEF Fits, ListInv, Copied
    <3>. QED  BY <1>0, <2>3, <3>1, <3>2 DEF ListInv
  <2>. QED  BY <2>2, <2>5, <2>6, ListEnd
<1>. QED  BY <1>1, <1>2

\* An erasure deletes the lists of the row; the others stay as they are.
LEMMA EraseListsKeeps ==
  ASSUME IInv, NEW r \in Rows, NEW checker \in Checkers, EraseAccount(r, checker)
  PROVE  ListInv' /\ CrossInv'
<1>0. Sess /\ ListInv /\ CrossInv /\ lists \in [Lists -> WishRow]  BY DEF IInv, Data
<1>1. /\ call' = call /\ approved' = approved \cup {r}
      /\ \A w \in Lists : \/ lists'[w] = lists[w]
                          \/ There(w) /\ lists'[w] = Deleted
  <2>1. call' = call /\ approved' = approved \cup {r}  BY DEF EraseAccount, ApproveErasure
  <2>2. \A w \in Lists : lists'[w] = IF w \in OfRow(r) THEN Deleted ELSE lists[w]
    BY DEF EraseAccount
  <2>. QED  BY <2>1, <2>2 DEF OfRow
<1>2. /\ Deleted.state = "deleted" /\ Deleted.row = None /\ Deleted.pieces = {}
      /\ \A w \in Lists : There(w)' => lists'[w] = lists[w]
  BY <1>1 DEF Deleted, List, There
<1>3. ASSUME NEW c \in Calls PROVE ListOk(c)'
  <2>1. ListOk(c)  BY <1>0 DEF ListInv
  <2>2. call[c].at \in {"two_lists", "copied"} =>
          /\ call[c].into \in Lists \ {call[c].on}
          /\ \/ There(call[c].into)' /\ lists'[call[c].into].row = call[c].row
             \/ lists'[call[c].into] = Deleted /\ approved' # {}
    <3>1. ASSUME call[c].at \in {"two_lists", "copied"}
          PROVE  /\ call[c].into \in Lists \ {call[c].on}
                 /\ \/ There(call[c].into) /\ lists[call[c].into].row = call[c].row
                    \/ lists[call[c].into] = Deleted
      BY <2>1, <3>1 DEF ListOk
    <3>. QED  BY <1>1, <3>1 DEF There
  <2>3. call[c].at \in {"checked"} \cup ListStages =>
          call[c].on \in Lists /\ lists'[call[c].on].state # "unused"
    BY <1>1, <1>2, <2>1 DEF ListOk
  <2>4. call[c].at \in ListStages => lists'[call[c].on].row \in {None, call[c].row}
    BY <1>1, <1>2, <2>1, <2>3 DEF ListOk
  <2>5. ASSUME call[c].at = "checked" PROVE Fits(call[c].on, call[c].plan)'
    <3>1. /\ Fits(call[c].on, call[c].plan) /\ call[c].on \in Lists
          /\ There(call[c].on)' => There(call[c].on) /\ lists'[call[c].on] = lists[call[c].on]
      BY <1>1, <1>2, <2>1, <2>3, <2>5 DEF ListOk, There
    <3>. QED  BY <1>1, <3>1 DEF Fits
  <2>6. call[c].at = "copied" =>
          /\ Fits(call[c].into, call[c].plan)'
          /\ There(call[c].on)' /\ There(call[c].into)' =>
               \/ lists'[call[c].on].pieces \subseteq lists'[call[c].into].pieces \cup call[c].plan
               \/ Cardinality(lists'[call[c].into].pieces \cup call[c].plan) = Limit
    <3>1. ASSUME call[c].at = "copied"
          PROVE  /\ Fits(call[c].into, call[c].plan)
                 /\ There(call[c].on) /\ There(call[c].into) =>
                     \/ lists[call[c].on].pieces
                          \subseteq lists[call[c].into].pieces \cup call[c].plan
                     \/ Cardinality(lists[call[c].into].pieces \cup call[c].plan) = Limit
      BY <2>1, <3>1 DEF ListOk
    <3>2. ASSUME call[c].at = "copied"
          PROVE  /\ There(call[c].on)' =>
                      There(call[c].on) /\ lists'[call[c].on] = lists[call[c].on]
                 /\ There(call[c].into)' =>
                      There(call[c].into) /\ lists'[call[c].into] = lists[call[c].into]
      BY <1>1, <1>2, <2>2, <2>3, <3>2 DEF ListStages, There
    <3>. QED  BY <1>1, <3>1, <3>2 DEF Fits
  <2>7. call[c].op = "merge_wishlist" /\ call[c].at = "resolved" => call[c].on \in Lists
    BY <2>1 DEF ListOk
  <2>. QED  BY <1>1, <2>2, <2>3, <2>4, <2>5, <2>6, <2>7 DEF ListOk
<1>4. \A w \in Lists : Cardinality(lists'[w].pieces) <= Limit
  BY <1>0, <1>1, <1>2, Counted, LimitAssumption DEF ListInv
<1>5. CrossInv'  BY <1>0, <1>1 DEF CrossInv
<1>. QED  BY <1>3, <1>4, <1>5 DEF ListInv

LEMMA ListNext ==
  ASSUME IInv, Next
  PROVE  ListInv' /\ CrossInv'
<1>0. Sess /\ ListInv /\ CrossInv  BY DEF IInv
<1>1. ASSUME NEW c \in Calls, Commit(c) \/ Rollback(c), approved' = approved, lists' = lists
      PROVE  ListInv' /\ CrossInv'
  BY <1>0, <1>1, SameLists, ListEnd DEF ListInv
<1>2. ASSUME NEW c \in Calls, ProfileNext(c), lists' = lists PROVE ListInv' /\ CrossInv'
  <2>1. ASSUME NEW s \in Subjects, CustomerFor(c, "profile", s, None), approved' = approved
        PROVE  ListInv' /\ CrossInv'
    BY <1>2, <2>1, ListBegin DEF Ops, Targets
  <2>. QED  BY <1>1, <1>2, <2>1, ProfileSteps
<1>3. ASSUME NEW c \in Calls, WishlistNext(c), approved' = approved PROVE ListInv' /\ CrossInv'
  <2>1. ASSUME NEW s \in Subjects, BeginCreateList(c, s) PROVE ListInv' /\ CrossInv'
    BY <1>3, <2>1, ListBegin DEF BeginCreateList, Ops, Targets
  <2>2. ASSUME NEW s \in Subjects, NEW w \in Lists, BeginMergeList(c, s, w)
        PROVE  ListInv' /\ CrossInv'
    BY <1>3, <2>2, ListBegin DEF BeginMergeList, Ops, Targets
  <2>. QED
    BY <1>3, <2>1, <2>2, CreateGuestListKeeps, CreateAccountListKeeps, BeginAddPieceKeeps,
       AddPieceKeeps, RemovePieceKeeps, FindListsKeeps, AdoptListKeeps, LockTargetKeeps,
       MergeListsKeeps
    DEF WishlistNext
<1>4. ASSUME NEW c \in Calls, SavedCartNext(c), approved' = approved, lists' = lists
      PROVE  ListInv' /\ CrossInv'
  <2>1. ASSUME NEW s \in Subjects, BeginSavedCart(c, s) PROVE ListInv' /\ CrossInv'
    BY <1>4, <2>1, ListBegin DEF BeginSavedCart, Ops, Targets
  <2>2. ASSUME NEW s \in Subjects, NEW k \in Carts, BeginMergeCart(c, s, k)
        PROVE  ListInv' /\ CrossInv'
    BY <1>4, <2>2, ListBegin DEF BeginMergeCart, Ops, Targets
  <2>3. ASSUME OpenSavedCart(c) \/ KeepGuest(c) \/ MergeCarts(c) PROVE ListInv' /\ CrossInv'
    BY <1>1, <1>4, <2>3 DEF OpenSavedCart, KeepGuest, MergeCarts
  <2>4. ASSUME \/ call' = [call EXCEPT ![c].at = "guest"]
               \/ call' = [call EXCEPT ![c].at = "one_cart"]
               \/ \E k : call' = [call EXCEPT ![c].at = "two_carts", ![c].into = k]
        PROVE  ListInv' /\ CrossInv'
    <3>1. \A d \in Calls \ {c} : call'[d] = call[d]  BY <1>0, <2>4 DEF Sess, Tables
    <3>2. call'[c].at \in CartStages  BY <1>0, <2>4 DEF Sess, Tables, Calling, CartStages
    <3>3. ListOk(c)' /\ call'[c].at # "two_lists"
      BY <3>2 DEF CartStages, ListOk, ListStages
    <3>4. \A d \in Calls \ {c} : \A v \in Lists : Spares(d, v)  BY <1>4, SameLists
    <3>5. \A v \in Lists : Cardinality(lists'[v].pieces) <= Limit  BY <1>0, <1>4 DEF ListInv
    <3>. QED  BY <1>4, <3>1, <3>3, <3>4, <3>5, ListInvKept, CrossInvKept
  <2>5. LoadGuest(c) => ListInv' /\ CrossInv'
    BY <1>1, <1>4, <2>4 DEF LoadGuest, Moves
  <2>6. FindSaved(c) => ListInv' /\ CrossInv'
    BY <2>4 DEF FindSaved, Moves
  <2>. QED  BY <1>4, <2>1, <2>2, <2>3, <2>5, <2>6 DEF SavedCartNext
<1>5. ASSUME UNCHANGED <<call, approved, lists>> PROVE ListInv' /\ CrossInv'
  BY <1>0, <1>5 DEF ListInv, ListOk, ListStages, Fits, There, CrossInv
<1>6. ShopperNext /\ UNCHANGED <<privacyVars, lists>> => ListInv' /\ CrossInv'
  BY <1>5 DEF ShopperNext, CreateCart, AddItem, UpdateItem, RemoveItem, Edit, privacyVars,
              sessionVars
<1>7. ASSUME NEW k \in Carts, PlaceOrder(k) PROVE ListInv' /\ CrossInv'
  BY <1>5, <1>7 DEF PlaceOrder, ConvertCart, sessionVars
<1>8. ASSUME NEW r \in Rows, PruneMessages(r), lists' = lists PROVE ListInv' /\ CrossInv'
  BY <1>5, <1>8 DEF PruneMessages, sessionVars
<1>. QED
  BY <1>2, <1>3, <1>4, <1>6, <1>7, <1>8, EraseListsKeeps DEF Next, privacyVars

-------------------------------------------------------------------------------
(* Carts *)

\* A change of a cart that does not concern a request: it has no lock on the cart, which
\* does not become its customer's.
LeavesCart(d, k) ==
  \/ carts'[k] = carts[k]
  \/ /\ Open(k) => CartLock(k) \notin held[d]
     /\ call[d].row \in Rows /\ Open(k)' /\ carts'[k].row = call[d].row
          => Open(k) /\ carts[k].row = call[d].row

LEMMA CartKept ==
  ASSUME Sess, NEW d \in Calls, CartOk(d), call'[d] = call[d], \A k \in Carts : LeavesCart(d, k)
  PROVE  CartOk(d)'
<1>1. ASSUME NEW k \in Carts, Open(k), CartLock(k) \in held[d] PROVE carts'[k] = carts[k]
  BY <1>1 DEF LeavesCart
<1>2. ASSUME call[d].at \in CartStages
      PROVE  /\ call[d].on \in Carts /\ Open(call[d].on) /\ call[d].row \in Rows
             /\ carts[call[d].on].row \in {None, call[d].row}
             /\ carts'[call[d].on] = carts[call[d].on]
  BY <1>1, <1>2, ListLocksHeld DEF CartOk
<1>3. ASSUME call[d].at = "one_cart" PROVE OtherCarts(d)' = {}
  <2>1. OtherCarts(d) = {} /\ call[d].row \in Rows  BY <1>2, <1>3 DEF CartOk, CartStages
  <2>2. ASSUME NEW k \in OtherCarts(d)' PROVE k \in OtherCarts(d)
    BY <2>1, <2>2 DEF OtherCarts, OpenCarts, Open, LeavesCart
  <2>. QED  BY <2>1, <2>2
<1>4. ASSUME call[d].at = "two_carts" PROVE call[d].into \in OtherCarts(d)'
  <2>1. call[d].into \in OtherCarts(d) /\ CartLock(call[d].into) \in held[d]
    BY <1>4, ListLocksHeld DEF CartOk
  <2>2. carts'[call[d].into] = carts[call[d].into]
    BY <1>1, <2>1 DEF OtherCarts, OpenCarts
  <2>. QED  BY <2>1, <2>2 DEF OtherCarts, OpenCarts, Open
<1>. QED  BY <1>2, <1>3, <1>4 DEF CartOk, Open

LEMMA CartInvKept ==
  ASSUME IInv, NEW c \in Calls, \A d \in Calls \ {c} : call'[d] = call[d],
         \A d \in Calls \ {c} : \A k \in Carts : LeavesCart(d, k),
         CartOk(c)', \A r \in Rows : \A k1, k2 \in OpenCarts(r)' : k1 = k2
  PROVE  CartInv'
<1>1. ASSUME NEW d \in Calls PROVE CartOk(d)'
  <2>1. CartOk(d) /\ Sess  BY DEF IInv, CartInv
  <2>2. CASE d = c  BY <2>2
  <2>3. CASE d # c  BY <2>1, <2>3, CartKept
  <2>. QED  BY <2>2, <2>3
<1>. QED  BY <1>1 DEF CartInv

\* A step of somebody who is not signed in, and what becomes of the carts of a row.
LEMMA CartInvShopper ==
  ASSUME IInv, call' = call, \A d \in Calls : \A k \in Carts : LeavesCart(d, k),
         \A r \in Rows : \A k \in OpenCarts(r)' : k \in OpenCarts(r)
  PROVE  CartInv'
<1>1. ASSUME NEW d \in Calls PROVE CartOk(d)'
  <2>1. CartOk(d) /\ Sess /\ call'[d] = call[d]  BY DEF IInv, CartInv
  <2>. QED  BY <2>1, CartKept
<1>. QED  BY <1>1 DEF CartInv, IInv

LEMMA SameCarts ==
  ASSUME carts' = carts
  PROVE  /\ \A d \in Calls : \A k \in Carts : LeavesCart(d, k)
         /\ \A r \in Rows : OpenCarts(r)' = OpenCarts(r)
BY DEF LeavesCart, OpenCarts, Open

LEMMA CartEnd ==
  ASSUME IInv, NEW c \in Calls, Commit(c) \/ Rollback(c), approved' = approved,
         \A d \in Calls \ {c} : \A k \in Carts : LeavesCart(d, k),
         \A r \in Rows : \A k1, k2 \in OpenCarts(r)' : k1 = k2
  PROVE  CartInv'
<1>1. call' = [call EXCEPT ![c] = Ended]  BY EndKeeps DEF IInv
<1>2. call'[c] = Ended /\ \A d \in Calls \ {c} : call'[d] = call[d]
  BY <1>1 DEF IInv, Sess, Tables
<1>3. CartOk(c)'  BY <1>2, EndedList
<1>. QED  BY <1>2, <1>3, CartInvKept

LEMMA CartBegin ==
  ASSUME IInv, NEW c \in Calls, NEW op \in Ops, NEW s \in Subjects, NEW on \in Targets,
         op = "merge_cart" => on \in Carts,
         CustomerFor(c, op, s, on), approved' = approved, carts' = carts
  PROVE  CartInv'
<1>1. PICK r \in Rows : call' = [call EXCEPT ![c] = Request(op, "resolved", s, r, on, None, {})]
  BY SignInKeeps DEF IInv
<1>2. /\ call'[c] = Request(op, "resolved", s, r, on, None, {})
      /\ \A d \in Calls \ {c} : call'[d] = call[d]
  BY <1>1 DEF IInv, Sess, Tables
<1>3. CartOk(c)'  BY <1>2 DEF Request, CartOk, CartStages
<1>4. \A r2 \in Rows : \A k1, k2 \in OpenCarts(r2)' : k1 = k2
  BY SameCarts DEF IInv, CartInv
<1>. QED  BY <1>2, <1>3, <1>4, SameCarts, CartInvKept

LEMMA OpenSavedCartKeeps ==
  ASSUME IInv, NEW c \in Calls, OpenSavedCart(c), approved' = approved
  PROVE  CartInv'
<1>0. Sess /\ CartInv /\ carts \in [Carts -> CartRow]  BY DEF IInv, Data
<1>1. CASE carts' = carts
  <2>1. \A r \in Rows : \A k1, k2 \in OpenCarts(r)' : k1 = k2
    BY <1>0, <1>1, SameCarts DEF CartInv
  <2>. QED  BY <1>1, <2>1, SameCarts, CartEnd DEF OpenSavedCart
<1>2. ASSUME NEW k \in Carts, carts[k] = NoCart, OpenCarts(call[c].row) = {},
             carts' = [carts EXCEPT ![k] = Opened(call[c].row)]
      PROVE  CartInv'
  <2>1. call[c].row \in Rows /\ Commit(c)
    BY <1>0 DEF OpenSavedCart, At, Sess, RowInv, RowOk, SignedIn
  <2>2. /\ ~Open(k) /\ carts'[k].row = call[c].row
        /\ \A j \in Carts \ {k} : carts'[j] = carts[j]
    BY <1>0, <1>2 DEF NoCart, Opened, Cart, Open
  <2>3. \A d \in Calls \ {c} : \A j \in Carts : LeavesCart(d, j)
    BY <1>0, <2>1, <2>2, OtherRequest DEF LeavesCart
  <2>4. ASSUME NEW r \in Rows, NEW k1 \in OpenCarts(r)', NEW k2 \in OpenCarts(r)' PROVE k1 = k2
    BY <1>0, <1>2, <2>2 DEF OpenCarts, Open, CartInv
  <2>. QED  BY <2>1, <2>3, <2>4, CartEnd
<1>. QED  BY <1>1, <1>2 DEF OpenSavedCart

\* A request that goes on with its cart.
LEMMA CartMove ==
  ASSUME IInv, NEW c \in Calls, \A d \in Calls \ {c} : call'[d] = call[d],
         CartOk(c)', carts' = carts
  PROVE  CartInv'
<1>1. \A r \in Rows : \A k1, k2 \in OpenCarts(r)' : k1 = k2
  BY SameCarts DEF IInv, CartInv
<1>. QED  BY <1>1, SameCarts, CartInvKept

LEMMA LoadGuestKeeps ==
  ASSUME IInv, NEW c \in Calls, LoadGuest(c), approved' = approved
  PROVE  CartInv'
<1>0. Sess /\ CartInv /\ carts' = carts  BY DEF IInv, LoadGuest
<1>1. CASE Rollback(c)
  <2>1. \A r \in Rows : \A k1, k2 \in OpenCarts(r)' : k1 = k2
    BY <1>0, SameCarts DEF CartInv
  <2>. QED  BY <1>0, <1>1, <2>1, SameCarts, CartEnd
<1>2. CASE ~Rollback(c)
  <2>1. /\ call' = [call EXCEPT ![c].at = "guest"] /\ call[c].on \in Carts /\ Open(call[c].on)
        /\ carts[call[c].on].row \in {None, call[c].row}
    BY <1>0, <1>2 DEF LoadGuest, Moves, At, CartInv, CartOk
  <2>2. \A d \in Calls \ {c} : call'[d] = call[d]  BY <1>0, <2>1 DEF Sess, Tables
  <2>3. call'[c].at = "guest" /\ call'[c].on = call[c].on /\ call'[c].row = call[c].row
    BY <1>0, <2>1 DEF Sess, Tables, Calling
  <2>4. CartOk(c)'  BY <1>0, <2>1, <2>3 DEF CartOk, CartStages, Open
  <2>. QED  BY <1>0, <2>2, <2>4, CartMove
<1>. QED  BY <1>1, <1>2

LEMMA FindSavedKeeps ==
  ASSUME IInv, NEW c \in Calls, FindSaved(c)
  PROVE  CartInv'
<1>0. Sess /\ CartInv /\ carts' = carts /\ call[c].at = "guest" /\ call[c] \in Calling
  BY DEF IInv, FindSaved, At, Sess, Tables
<1>1. CartOk(c)  BY <1>0 DEF CartInv
<1>2. ASSUME NEW k \in OtherCarts(c),
             call' = [call EXCEPT ![c].at = "two_carts", ![c].into = k]
      PROVE  CartInv'
  <2>1. \A d \in Calls \ {c} : call'[d] = call[d]  BY <1>0, <1>2 DEF Sess, Tables
  <2>2. /\ call'[c].at = "two_carts" /\ call'[c].on = call[c].on /\ call'[c].into = k
        /\ call'[c].row = call[c].row
    BY <1>0, <1>2 DEF Sess, Tables, Calling
  <2>3. CartOk(c)'
    BY <1>0, <1>1, <1>2, <2>2 DEF CartOk, CartStages, Open, OtherCarts, OpenCarts
  <2>. QED  BY <1>0, <2>1, <2>3, CartMove
<1>3. ASSUME OtherCarts(c) = {}, call' = [call EXCEPT ![c].at = "one_cart"] PROVE CartInv'
  <2>1. \A d \in Calls \ {c} : call'[d] = call[d]  BY <1>0, <1>3 DEF Sess, Tables
  <2>2. /\ call'[c].at = "one_cart" /\ call'[c].on = call[c].on /\ call'[c].row = call[c].row
    BY <1>0, <1>3 DEF Sess, Tables, Calling
  <2>3. CartOk(c)'
    BY <1>0, <1>1, <1>3, <2>2 DEF CartOk, CartStages, Open, OtherCarts, OpenCarts
  <2>. QED  BY <1>0, <2>1, <2>3, CartMove
<1>. QED  BY <1>2, <1>3 DEF FindSaved, Moves

\* What a merge leaves in a cart.
LEMMA BagTypes ==
  ASSUME NEW a \in [Pieces -> Quantities], NEW b \in [Pieces -> Quantities]
  PROVE  /\ Trimmed(a, b) \in [Pieces -> Quantities]
         /\ [p \in Pieces |-> Larger(a[p], b[p])] \in [Pieces -> Quantities]
BY DEF Trimmed, Larger, Smaller

\* Only the request that has found no other cart of its customer gives it the guest's.
LEMMA KeepGuestKeeps ==
  ASSUME IInv, NEW c \in Calls, KeepGuest(c), approved' = approved
  PROVE  CartInv'
<1>0. Sess /\ CartInv /\ carts \in [Carts -> CartRow]  BY DEF IInv, Data
<1>1. PICK k \in Carts, bag \in [Pieces -> Quantities] :
        /\ k = call[c].on /\ CartLock(k) \in held[c] /\ call[c].row \in Rows
        /\ OtherCarts(c) = {} /\ Commit(c)
        /\ carts' = [carts EXCEPT ![k] = Cart("open", call[c].row, Edited(k), bag)]
  <2>1. call[c].at = "one_cart" /\ CartOk(c)  BY <1>0 DEF KeepGuest, At, CartInv
  <2>2. call[c].on \in Carts /\ call[c].row \in Rows /\ CartLock(call[c].on) \in held[c]
    BY <1>0, <2>1, ListLocksHeld DEF CartOk, CartStages
  <2>3. carts[call[c].on].bag \in [Pieces -> Quantities]  BY <1>0, <2>2 DEF CartRow
  <2>4. PICK available \in [Pieces -> Quantities] :
          carts' = [carts EXCEPT ![call[c].on] = Cart("open", call[c].row, Edited(call[c].on),
                                                Trimmed(carts[call[c].on].bag, available))]
    BY DEF KeepGuest
  <2>5. OtherCarts(c) = {} /\ Commit(c)  BY <2>1 DEF KeepGuest, CartOk
  <2>. QED  BY <2>2, <2>3, <2>4, <2>5, BagTypes
<1>2. carts'[k].row = call[c].row /\ \A j \in Carts \ {k} : carts'[j] = carts[j]
  BY <1>0, <1>1 DEF Cart
<1>3. \A d \in Calls \ {c} : \A j \in Carts : LeavesCart(d, j)
  <2>1. ASSUME NEW d \in Calls \ {c} PROVE LeavesCart(d, k)
    BY <1>0, <1>1, <1>2, OtherRequest DEF LeavesCart
  <2>. QED  BY <1>2, <2>1 DEF LeavesCart
<1>4. ASSUME NEW r \in Rows, NEW k1 \in OpenCarts(r)', NEW k2 \in OpenCarts(r)' PROVE k1 = k2
  BY <1>0, <1>1, <1>2, <1>4 DEF OpenCarts, OtherCarts, Open, CartInv
<1>. QED  BY <1>1, <1>3, <1>4, CartEnd

LEMMA MergeCartsKeeps ==
  ASSUME IInv, NEW c \in Calls, MergeCarts(c), approved' = approved
  PROVE  CartInv'
<1>0. Sess /\ CartInv /\ carts \in [Carts -> CartRow]  BY DEF IInv, Data
<1>1. PICK g \in Carts, k \in Carts, bag \in [Pieces -> Quantities] :
        /\ CartLock(g) \in held[c] /\ CartLock(k) \in held[c] /\ k # g /\ Open(k) /\ Commit(c)
        /\ carts' = [carts EXCEPT ![g].status = "expired",
                                  ![k] = Cart("open", carts[k].row, Edited(k), bag)]
  <2>1. call[c].at = "two_carts" /\ CartOk(c)  BY <1>0 DEF MergeCarts, At, CartInv
  <2>2. /\ call[c].on \in Carts /\ call[c].into \in Carts \ {call[c].on} /\ Open(call[c].into)
        /\ CartLock(call[c].on) \in held[c] /\ CartLock(call[c].into) \in held[c]
    BY <1>0, <2>1, ListLocksHeld DEF CartOk, CartStages, OtherCarts, OpenCarts
  <2>. DEFINE both == [p \in Pieces |-> Larger(carts[call[c].on].bag[p],
                                                 carts[call[c].into].bag[p])]
  <2>3. /\ carts[call[c].on].bag \in [Pieces -> Quantities]
        /\ carts[call[c].into].bag \in [Pieces -> Quantities]
    BY <1>0, <2>2 DEF CartRow
  <2>4. both \in [Pieces -> Quantities]  BY <2>3, BagTypes
  <2>5. PICK available \in [Pieces -> Quantities] :
          carts' = [carts EXCEPT ![call[c].on].status = "expired",
                                 ![call[c].into] = Cart("open", carts[call[c].into].row,
                                                        Edited(call[c].into),
                                                        Trimmed(both, available))]
    BY DEF MergeCarts
  <2>6. Commit(c)  BY DEF MergeCarts
  <2>. HIDE DEF both
  <2>7. Trimmed(both, available) \in [Pieces -> Quantities]  BY <2>4, BagTypes
  <2>. QED  BY <2>2, <2>5, <2>6, <2>7
<1>2. /\ ~Open(g)' /\ carts'[k].row = carts[k].row
      /\ \A j \in Carts \ {g, k} : carts'[j] = carts[j]
  BY <1>0, <1>1 DEF Cart, CartRow, Open
<1>3. \A d \in Calls \ {c} : \A j \in Carts : LeavesCart(d, j)
  <2>1. ASSUME NEW d \in Calls \ {c} PROVE LeavesCart(d, g) /\ LeavesCart(d, k)
    BY <1>0, <1>1, <1>2, OtherRequest DEF LeavesCart
  <2>. QED  BY <1>2, <2>1 DEF LeavesCart
<1>4. ASSUME NEW r \in Rows, NEW j \in OpenCarts(r)' PROVE j \in OpenCarts(r)
  BY <1>1, <1>2, <1>4 DEF OpenCarts, Open
<1>5. \A r \in Rows : \A k1, k2 \in OpenCarts(r)' : k1 = k2
  BY <1>0, <1>4 DEF CartInv
<1>. QED  BY <1>1, <1>3, <1>5, CartEnd

LEMMA CartNext ==
  ASSUME IInv, Next
  PROVE  CartInv'
<1>0. Sess /\ CartInv /\ carts \in [Carts -> CartRow]  BY DEF IInv, Data
<1>1. ASSUME NEW c \in Calls, Commit(c) \/ Rollback(c), approved' = approved, carts' = carts
      PROVE  CartInv'
  <2>1. \A r \in Rows : \A k1, k2 \in OpenCarts(r)' : k1 = k2
    BY <1>0, <1>1, SameCarts DEF CartInv
  <2>. QED  BY <1>1, <2>1, SameCarts, CartEnd
<1>2. ASSUME NEW c \in Calls, ProfileNext(c), carts' = carts PROVE CartInv'
  <2>1. ASSUME NEW s \in Subjects, CustomerFor(c, "profile", s, None), approved' = approved
        PROVE  CartInv'
    BY <1>2, <2>1, CartBegin DEF Ops, Targets
  <2>. QED  BY <1>1, <1>2, <2>1, ProfileSteps
<1>3. ASSUME NEW c \in Calls, WishlistNext(c), approved' = approved, carts' = carts
      PROVE  CartInv'
  <2>1. ASSUME NEW s \in Subjects, BeginCreateList(c, s) PROVE CartInv'
    BY <1>3, <2>1, CartBegin DEF BeginCreateList, Ops, Targets
  <2>2. ASSUME NEW s \in Subjects, NEW w \in Lists, BeginMergeList(c, s, w) PROVE CartInv'
    BY <1>3, <2>2, CartBegin DEF BeginMergeList, Ops, Targets
  <2>3. ASSUME NEW q, call' = [call EXCEPT ![c] = q], q.at \in {"checked"} \cup ListStages
        PROVE  CartInv'
    <3>1. call'[c] = q /\ \A d \in Calls \ {c} : call'[d] = call[d]
      BY <1>0, <2>3 DEF Sess, Tables
    <3>2. CartOk(c)'  BY <2>3, <3>1 DEF CartOk, CartStages, ListStages
    <3>. QED  BY <1>3, <3>1, <3>2, CartMove
  <2>4. ASSUME NEW w \in Lists, NEW s \in Subjects \cup {None}, NEW p \in Wishes,
               BeginAddPiece(c, w, s, p)
        PROVE  CartInv'
    BY <2>3, <2>4 DEF BeginAddPiece, Request
  <2>5. ASSUME FindLists(c) \/ LockTarget(c) PROVE CartInv'
    <3>1. \/ Rollback(c)
          \/ call' = [call EXCEPT ![c].at = "one_list"]
          \/ \E t : call' = [call EXCEPT ![c].at = "two_lists", ![c].into = t]
          \/ \E S : call' = [call EXCEPT ![c].at = "copied", ![c].plan = S]
      BY <2>5 DEF FindLists, LockTarget, Moves
    <3>2. call[c] \in Calling /\ call \in [Calls -> Calling]  BY <1>0 DEF Sess, Tables
    <3>3. CASE call' = [call EXCEPT ![c].at = "one_list"]
      <4>. DEFINE q == [call[c] EXCEPT !.at = "one_list"]
      <4>1. call' = [call EXCEPT ![c] = q] /\ q.at \in {"checked"} \cup ListStages
        BY <3>2, <3>3 DEF Calling, ListStages
      <4>. QED  BY <2>3, <4>1
    <3>4. ASSUME NEW t, call' = [call EXCEPT ![c].at = "two_lists", ![c].into = t] PROVE CartInv'
      <4>. DEFINE q == [call[c] EXCEPT !.at = "two_lists", !.into = t]
      <4>1. call' = [call EXCEPT ![c] = q] /\ q.at \in {"checked"} \cup ListStages
        BY <3>2, <3>4 DEF Calling, ListStages
      <4>. QED  BY <2>3, <4>1
    <3>5. ASSUME NEW S, call' = [call EXCEPT ![c].at = "copied", ![c].plan = S] PROVE CartInv'
      <4>. DEFINE q == [call[c] EXCEPT !.at = "copied", !.plan = S]
      <4>1. call' = [call EXCEPT ![c] = q] /\ q.at \in {"checked"} \cup ListStages
        BY <3>2, <3>5 DEF Calling, ListStages
      <4>. QED  BY <2>3, <4>1
    <3>. QED  BY <1>1, <1>3, <3>1, <3>3, <3>4, <3>5
  <2>6. ASSUME \/ CreateAccountList(c) \/ AddPiece(c) \/ AdoptList(c) \/ MergeLists(c)
               \/ \E w \in Lists : CreateGuestList(c, w)
               \/ \E w \in Lists, s \in Subjects \cup {None}, p \in Wishes : RemovePiece(c, w, s, p)
        PROVE  CartInv'
    BY <1>1, <1>3, <2>6
    DEF CreateAccountList, AddPiece, AdoptList, MergeLists, CreateGuestList, RemovePiece
  <2>. QED  BY <1>3, <2>1, <2>2, <2>4, <2>5, <2>6 DEF WishlistNext
<1>4. ASSUME NEW c \in Calls, SavedCartNext(c), approved' = approved PROVE CartInv'
  <2>1. ASSUME NEW s \in Subjects, BeginSavedCart(c, s) PROVE CartInv'
    BY <1>4, <2>1, CartBegin DEF BeginSavedCart, Ops, Targets
  <2>2. ASSUME NEW s \in Subjects, NEW k \in Carts, BeginMergeCart(c, s, k) PROVE CartInv'
    BY <1>4, <2>2, CartBegin DEF BeginMergeCart, Ops, Targets
  <2>. QED
    BY <1>4, <2>1, <2>2, OpenSavedCartKeeps, LoadGuestKeeps, FindSavedKeeps, KeepGuestKeeps,
       MergeCartsKeeps
    DEF SavedCartNext
<1>5. ASSUME NEW k \in Carts, call' = call, held' = held,
             \/ carts[k] = NoCart /\ carts' = [carts EXCEPT ![k] = Opened(None)]
             \/ /\ Free(CartLock(k)) /\ \A j \in Carts \ {k} : carts'[j] = carts[j]
                /\ carts'[k].row = carts[k].row /\ (Open(k)' => Open(k))
      PROVE  CartInv'
  <2>1. /\ \A j \in Carts \ {k} : carts'[j] = carts[j]
        /\ \/ ~Open(k) /\ carts'[k].row = None
           \/ Free(CartLock(k)) /\ carts'[k].row = carts[k].row /\ (Open(k)' => Open(k))
    BY <1>0, <1>5 DEF NoCart, Opened, Cart, Open
  <2>2. \A d \in Calls : LeavesCart(d, k)
    BY <2>1, SessionsAssumption DEF LeavesCart, Free
  <2>3. \A d \in Calls : \A j \in Carts : LeavesCart(d, j)  BY <2>1, <2>2 DEF LeavesCart
  <2>4. ASSUME NEW r \in Rows, NEW j \in OpenCarts(r)' PROVE j \in OpenCarts(r)
    BY <2>1, <2>4, SessionsAssumption DEF OpenCarts, Open
  <2>. QED  BY <1>5, <2>3, <2>4, CartInvShopper
<1>6. ASSUME NEW k \in Carts, NEW p \in Pieces, NEW q \in Quantities, Edit(k, p, q) PROVE CartInv'
  <2>1. /\ Free(CartLock(k)) /\ \A j \in Carts \ {k} : carts'[j] = carts[j]
        /\ carts'[k].row = carts[k].row /\ (Open(k)' => Open(k))
    BY <1>0, <1>6 DEF Edit, Loadable, CartRow
  <2>. QED  BY <1>5, <1>6, <2>1 DEF Edit, sessionVars
<1>7. ShopperNext => CartInv'
  <2>1. ASSUME NEW k \in Carts, CreateCart(k) PROVE CartInv'
    BY <1>5, <2>1 DEF CreateCart, sessionVars
  <2>2. 0 \in Quantities  BY QuantityAssumption DEF Quantities
  <2>. QED  BY <1>6, <2>1, <2>2 DEF ShopperNext, AddItem, UpdateItem, RemoveItem
<1>8. ASSUME NEW k \in Carts, PlaceOrder(k) PROVE CartInv'
  <2>1. /\ Free(CartLock(k)) /\ carts' = [carts EXCEPT ![k].status = "converted"]
        /\ call' = call /\ held' = held /\ Open(k)
    BY <1>8 DEF PlaceOrder, ConvertCart, Loadable, sessionVars
  <2>2. carts'[k].row = carts[k].row /\ \A j \in Carts \ {k} : carts'[j] = carts[j]
    BY <1>0, <2>1 DEF CartRow
  <2>. QED  BY <1>5, <2>1, <2>2
<1>9. ASSUME call' = call, carts' = carts PROVE CartInv'
  <2>1. \A r \in Rows : \A k \in OpenCarts(r)' : k \in OpenCarts(r)  BY <1>9, SameCarts
  <2>. QED  BY <1>9, <2>1, SameCarts, CartInvShopper
<1>10. ASSUME NEW r \in Rows, NEW checker \in Checkers, EraseAccount(r, checker) PROVE CartInv'
  BY <1>9, <1>10 DEF EraseAccount, ApproveErasure
<1>11. ASSUME NEW r \in Rows, PruneMessages(r), carts' = carts PROVE CartInv'
  BY <1>9, <1>11 DEF PruneMessages, sessionVars
<1>. QED
  BY <1>2, <1>3, <1>4, <1>7, <1>8, <1>10, <1>11 DEF Next, privacyVars

-------------------------------------------------------------------------------
(* The types of the data *)

LEMMA PersonalKeeps ==
  ASSUME IInv, NEW c \in Calls, ProfileNext(c), UNCHANGED <<lists, carts>>
  PROVE  Data'
<1>0. /\ personal \in [Rows -> SUBSET Kinds] /\ requestedBy \in [Rows -> Subjects \cup {None}]
      /\ lists' \in [Lists -> WishRow] /\ carts' \in [Carts -> CartRow]
  BY DEF IInv, Data
<1>1. call[c].at = "resolved" => call[c].row \in Rows /\ call[c].who \in Subjects
  BY DEF IInv, Sess, RowInv, RowOk, SignedIn
<1>2. CASE personal' = personal /\ requestedBy' = requestedBy
  BY <1>0, <1>2 DEF Data
<1>3. ASSUME NEW data, data \subseteq Mine(c) \cup Kinds, Writes(c, data) PROVE Data'
  BY <1>0, <1>1, <1>3 DEF Writes, Mine, At, Data
<1>4. {"profile", "address", "consent", "case", "message", "reply"} \subseteq Kinds
  BY DEF Kinds, Erasable, Bodies
<1>5. ASSUME NEW r \in Rows, Reply(c, r) PROVE Data'
  BY <1>0, <1>4, <1>5 DEF Reply, Data
<1>6. ASSUME RequestErasure(c) PROVE Data'
  BY <1>0, <1>1, <1>6 DEF RequestErasure, At, Data
<1>7. ASSUME \/ ReadProfile(c) \/ UpdateProfile(c) \/ AddAddress(c) \/ AddConsent(c)
             \/ CreateCase(c) \/ DeleteAddress(c) \/ AddMessage(c)
      PROVE  Data'
  BY <1>3, <1>4, <1>7 DEF ReadProfile, UpdateProfile, AddAddress, AddConsent, CreateCase,
                          DeleteAddress, AddMessage
<1>. QED
  BY <1>2, <1>5, <1>6, <1>7 DEF ProfileNext, BeginProfile, Refused, privacyVars

LEMMA ListTypes ==
  ASSUME IInv, NEW c \in Calls, WishlistNext(c)
  PROVE  lists' \in [Lists -> WishRow]
<1>0. lists \in [Lists -> WishRow] /\ call[c] \in Calling /\ ListOk(c)
  BY DEF IInv, Data, Sess, Tables, ListInv
<1>1. Deleted \in WishRow /\ \A r \in Rows \cup {None} : List("there", r, {}) \in WishRow
  BY DEF Deleted, List, WishRow
<1>2. ASSUME NEW w \in Lists, CreateGuestList(c, w) PROVE lists' \in [Lists -> WishRow]
  BY <1>0, <1>1, <1>2 DEF CreateGuestList
<1>3. ASSUME CreateAccountList(c) PROVE lists' \in [Lists -> WishRow]
  BY <1>0, <1>1, <1>3 DEF CreateAccountList, Calling
<1>4. ASSUME AddPiece(c) PROVE lists' \in [Lists -> WishRow]
  <2>1. call[c].on \in Lists /\ call[c].plan \in SUBSET Wishes
    BY <1>0, <1>4 DEF AddPiece, At, ListOk, Calling
  <2>. QED  BY <1>0, <1>4, <2>1 DEF AddPiece, WishRow
<1>5. ASSUME NEW w \in Lists, NEW s, NEW p \in Wishes, RemovePiece(c, w, s, p)
      PROVE  lists' \in [Lists -> WishRow]
  BY <1>0, <1>5 DEF RemovePiece, WishRow
<1>6. ASSUME AdoptList(c) PROVE lists' \in [Lists -> WishRow]
  <2>1. call[c].on \in Lists /\ call[c].row \in Rows \cup {None}
    BY <1>0, <1>6 DEF AdoptList, At, ListOk, ListStages, Calling
  <2>. QED  BY <1>0, <1>6, <2>1 DEF AdoptList, WishRow
<1>7. ASSUME MergeLists(c) PROVE lists' \in [Lists -> WishRow]
  <2>1. /\ call[c].on \in Lists /\ call[c].into \in Lists \ {call[c].on}
        /\ call[c].plan \in SUBSET Wishes
    BY <1>0, <1>7 DEF MergeLists, At, ListOk, ListStages, Calling
  <2>2. CASE lists' = [lists EXCEPT ![call[c].on] = Deleted,
                                    ![call[c].into].pieces = @ \cup call[c].plan]
    <3>1. [lists[call[c].into] EXCEPT !.pieces = @ \cup call[c].plan] \in WishRow
      BY <1>0, <2>1 DEF WishRow
    <3>. QED  BY <1>0, <1>1, <2>1, <2>2, <3>1
  <2>. QED  BY <1>0, <1>7, <2>2 DEF MergeLists
<1>. QED
  BY <1>0, <1>2, <1>3, <1>4, <1>5, <1>6, <1>7
  DEF WishlistNext, BeginCreateList, BeginMergeList, BeginAddPiece, FindLists, LockTarget

LEMMA OpenedTypes ==
  ASSUME NEW r \in Rows \cup {None}
  PROVE  Opened(r) \in CartRow
BY QuantityAssumption DEF Opened, Cart, CartRow, EmptyBag, Quantities

LEMMA CartTypes ==
  ASSUME IInv, NEW c \in Calls, SavedCartNext(c)
  PROVE  carts' \in [Carts -> CartRow]
<1>0. carts \in [Carts -> CartRow] /\ call[c] \in Calling /\ CartOk(c)
  BY DEF IInv, Data, Sess, Tables, CartInv
<1>1. ASSUME NEW k \in Carts, NEW r \in Rows \cup {None}, NEW bag \in [Pieces -> Quantities]
      PROVE  Cart("open", r, Edited(k), bag) \in CartRow
  BY <1>0 DEF Cart, CartRow, Edited
<1>2. ASSUME OpenSavedCart(c) PROVE carts' \in [Carts -> CartRow]
  <2>1. Opened(call[c].row) \in CartRow  BY <1>0, OpenedTypes DEF Calling
  <2>. QED  BY <1>0, <1>2, <2>1 DEF OpenSavedCart
<1>3. ASSUME KeepGuest(c) PROVE carts' \in [Carts -> CartRow]
  <2>1. call[c].on \in Carts /\ call[c].row \in Rows \cup {None}
    BY <1>0, <1>3 DEF KeepGuest, At, CartOk, CartStages, Calling
  <2>2. carts[call[c].on].bag \in [Pieces -> Quantities]  BY <1>0, <2>1 DEF CartRow
  <2>3. PICK available \in [Pieces -> Quantities] :
          carts' = [carts EXCEPT ![call[c].on] = Cart("open", call[c].row, Edited(call[c].on),
                                                Trimmed(carts[call[c].on].bag, available))]
    BY <1>3 DEF KeepGuest
  <2>4. Trimmed(carts[call[c].on].bag, available) \in [Pieces -> Quantities]  BY <2>2, BagTypes
  <2>5. Cart("open", call[c].row, Edited(call[c].on),
             Trimmed(carts[call[c].on].bag, available)) \in CartRow
    BY <1>1, <2>1, <2>4
  <2>. QED  BY <1>0, <2>3, <2>5
<1>4. ASSUME MergeCarts(c) PROVE carts' \in [Carts -> CartRow]
  <2>1. call[c].on \in Carts /\ call[c].into \in Carts \ {call[c].on}
    BY <1>0, <1>4 DEF MergeCarts, At, CartOk, CartStages, OtherCarts, OpenCarts
  <2>. DEFINE g == call[c].on
              k == call[c].into
              both == [p \in Pieces |-> Larger(carts[g].bag[p], carts[k].bag[p])]
  <2>2. /\ carts[g].bag \in [Pieces -> Quantities] /\ carts[k].bag \in [Pieces -> Quantities]
        /\ carts[k].row \in Rows \cup {None}
    BY <1>0, <2>1 DEF CartRow
  <2>3. both \in [Pieces -> Quantities]  BY <2>2, BagTypes
  <2>4. PICK available \in [Pieces -> Quantities] :
          carts' = [carts EXCEPT ![g].status = "expired",
                                 ![k] = Cart("open", carts[k].row, Edited(k),
                                             Trimmed(both, available))]
    BY <1>4 DEF MergeCarts
  <2>. HIDE DEF both
  <2>5. Trimmed(both, available) \in [Pieces -> Quantities]  BY <2>3, BagTypes
  <2>6. Cart("open", carts[k].row, Edited(k), Trimmed(both, available)) \in CartRow
    BY <1>1, <2>1, <2>2, <2>5
  <2>7. [carts[g] EXCEPT !.status = "expired"] \in CartRow  BY <1>0, <2>1 DEF CartRow
  <2>. QED  BY <1>0, <2>1, <2>4, <2>6, <2>7
<1>. QED
  BY <1>0, <1>2, <1>3, <1>4
  DEF SavedCartNext, BeginSavedCart, BeginMergeCart, LoadGuest, FindSaved

LEMMA DataNext ==
  ASSUME IInv, Next
  PROVE  Data'
<1>0. /\ personal \in [Rows -> SUBSET Kinds] /\ requestedBy \in [Rows -> Subjects \cup {None}]
      /\ lists \in [Lists -> WishRow] /\ carts \in [Carts -> CartRow]
  BY DEF IInv, Data
<1>1. ASSUME NEW c \in Calls, WishlistNext(c), UNCHANGED <<privacyVars, carts>> PROVE Data'
  BY <1>0, <1>1, ListTypes DEF privacyVars, Data
<1>2. ASSUME NEW c \in Calls, SavedCartNext(c), UNCHANGED <<privacyVars, lists>> PROVE Data'
  BY <1>0, <1>2, CartTypes DEF privacyVars, Data
<1>3. ASSUME NEW k \in Carts, NEW p \in Pieces, NEW q \in Quantities, Edit(k, p, q)
      PROVE  carts' \in [Carts -> CartRow]
  <2>1. PICK b \in [Pieces -> Quantities] :
          carts' = [carts EXCEPT ![k].version = Edited(k), ![k].bag = b]
    <3>. DEFINE b == [carts[k].bag EXCEPT ![p] = q]
    <3>1. b \in [Pieces -> Quantities]  BY <1>0 DEF CartRow
    <3>2. carts' = [carts EXCEPT ![k].version = Edited(k), ![k].bag = b]
      BY <1>0, <1>3 DEF Edit, CartRow
    <3>. QED  BY <3>1, <3>2
  <2>2. [carts[k] EXCEPT !.version = Edited(k), !.bag = b] \in CartRow
    <3>1. carts[k] \in CartRow /\ Edited(k) \in Nat  BY <1>0 DEF CartRow, Edited
    <3>. QED  BY <3>1 DEF CartRow
  <2>. QED  BY <1>0, <2>1, <2>2
<1>4. ShopperNext => carts' \in [Carts -> CartRow]
  <2>1. ASSUME NEW k \in Carts, CreateCart(k) PROVE carts' \in [Carts -> CartRow]
    BY <1>0, <2>1, OpenedTypes DEF CreateCart
  <2>2. 0 \in Quantities  BY QuantityAssumption DEF Quantities
  <2>. QED  BY <1>3, <2>1, <2>2 DEF ShopperNext, AddItem, UpdateItem, RemoveItem
<1>5. ShopperNext /\ UNCHANGED <<privacyVars, lists>> => Data'
  BY <1>0, <1>4 DEF privacyVars, Data
<1>6. ASSUME NEW k \in Carts, PlaceOrder(k) PROVE Data'
  <2>1. carts' \in [Carts -> CartRow]
    BY <1>0, <1>6 DEF PlaceOrder, ConvertCart, CartRow
  <2>2. personal' \in [Rows -> SUBSET Kinds]
    BY <1>0, <1>6 DEF PlaceOrder, Kinds, Erasable
  <2>. QED  BY <1>0, <1>6, <2>1, <2>2 DEF PlaceOrder, Data
<1>7. ASSUME NEW r \in Rows, NEW checker \in Checkers, EraseAccount(r, checker) PROVE Data'
  <2>1. personal' \in [Rows -> SUBSET Kinds] /\ requestedBy' \in [Rows -> Subjects \cup {None}]
    BY <1>0, <1>7 DEF EraseAccount, ApproveErasure, Kept
  <2>2. lists' \in [Lists -> WishRow]
    BY <1>0, <1>7 DEF EraseAccount, Deleted, List, WishRow
  <2>. QED  BY <1>0, <1>7, <2>1, <2>2 DEF EraseAccount, Data
<1>8. ASSUME NEW r \in Rows, PruneMessages(r), UNCHANGED <<lists, carts>> PROVE Data'
  BY <1>0, <1>8 DEF PruneMessages, Data
<1>. QED
  BY <1>1, <1>2, <1>5, <1>6, <1>7, <1>8, PersonalKeeps DEF Next

-------------------------------------------------------------------------------
(* The invariant, and what it gives *)

LEMMA InitIInv ==
  ASSUME Init
  PROVE  IInv
<1>1. /\ call = [c \in Calls |-> Idle] /\ held = [c \in Calls |-> {}]
      /\ subjectOf \in [Rows -> Subjects \cup {None}]
      /\ personal = [r \in Rows |-> {}] /\ requestedBy = [r \in Rows |-> None] /\ approved = {}
  BY DEF Init, SessionsInit, PrivacyInit
<1>2. /\ Idle \in Calling /\ Idle.at = "idle" /\ Idle.row = None /\ Idle.op = None
      /\ Holding(Idle) = {}
  BY DEF Idle, Request, Calling, Stages, Targets, Holding, SignedIn, ListStages, CartStages
<1>3. Tables  BY <1>1, <1>2 DEF Tables
<1>4. LockInv  BY <1>1, <1>2 DEF LockInv
<1>5. RowInv  BY <1>1, <1>2 DEF RowInv, RowOk, SignedIn, ListStages, CartStages
<1>6. SubjectInv
  <2>1. ASSUME NEW r1 \in Rows, NEW r2 \in Rows, subjectOf[r1] = subjectOf[r2],
               subjectOf[r1] \in Subjects
        PROVE  r1 = r2
    BY <2>1, SessionsAssumption DEF Init, Known
  <2>. QED  BY <1>1, <2>1 DEF SubjectInv
<1>7. lists \in [Lists -> WishRow] /\ \A w \in Lists : Cardinality(lists[w].pieces) <= Limit
  BY DEF Init, NoList, Deleted, List, WishRow, Known
<1>8. carts \in [Carts -> CartRow]
  <2>1. NoCart \in CartRow /\ Expired \in CartRow
    BY QuantityAssumption DEF NoCart, Expired, Cart, CartRow, EmptyBag, Quantities
  <2>2. \A r \in Known \cup {None} : Opened(r) \in CartRow  BY OpenedTypes DEF Known
  <2>. QED  BY <2>1, <2>2 DEF Init
<1>9. Data  BY <1>1, <1>7, <1>8 DEF Data
<1>10. ListInv  BY <1>1, <1>2, <1>7 DEF ListInv, ListOk, ListStages
<1>11. CrossInv  BY <1>1, <1>2 DEF CrossInv
<1>12. ASSUME NEW r \in Rows, NEW k1 \in OpenCarts(r), NEW k2 \in OpenCarts(r), k1 # k2
       PROVE  FALSE
  <2>1. IsFiniteSet(OpenCarts(r)) /\ {k1, k2} \subseteq OpenCarts(r)
    BY CartsAssumption, FS_Subset DEF OpenCarts
  <2>2. Cardinality({k1, k2}) = 2
    <3>1. {k1, k2} = {k1} \cup {k2} /\ k2 \notin {k1}  BY <1>12
    <3>2. IsFiniteSet({k1}) /\ Cardinality({k1}) = 1  BY FS_Singleton
    <3>3. Cardinality({k1} \cup {k2}) = Cardinality({k1}) + 1
      BY <3>1, <3>2, FS_AddElement
    <3>. QED  BY <3>1, <3>2, <3>3
  <2>3. Cardinality({k1, k2}) <= Cardinality(OpenCarts(r))
        /\ Cardinality(OpenCarts(r)) \in Nat
    BY <2>1, FS_Subset, FS_CardinalityType
  <2>4. Cardinality(OpenCarts(r)) <= 1  BY DEF Init
  <2>. QED  BY <2>2, <2>3, <2>4
<1>13. CartInv
  BY <1>1, <1>2, <1>12 DEF CartInv, CartOk, CartStages
<1>. QED  BY <1>3, <1>4, <1>5, <1>6, <1>9, <1>10, <1>11, <1>13 DEF IInv, Sess

LEMMA NextIInv ==
  ASSUME IInv, [Next]_vars
  PROVE  IInv'
<1>1. CASE Next  BY <1>1, SessNext, DataNext, ListNext, CartNext DEF IInv
<1>2. CASE UNCHANGED vars
  <2>1. /\ subjectOf' = subjectOf /\ held' = held /\ call' = call /\ personal' = personal
        /\ requestedBy' = requestedBy /\ approved' = approved /\ lists' = lists /\ carts' = carts
    BY <1>2 DEF vars, sessionVars, privacyVars
  <2>2. Sess'  BY <2>1 DEF IInv, Sess, Tables, LockInv, RowInv, RowOk, SubjectInv
  <2>3. Data'  BY <2>1 DEF IInv, Data
  <2>4. ListInv' /\ CrossInv'
    BY <2>1 DEF IInv, ListInv, ListOk, ListStages, Fits, There, CrossInv
  <2>5. CartInv'
    <3>1. \A r \in Rows : \A k \in OpenCarts(r)' : k \in OpenCarts(r)  BY <2>1, SameCarts
    <3>. QED  BY <2>1, <3>1, SameCarts, CartInvShopper
  <2>. QED  BY <2>2, <2>3, <2>4, <2>5 DEF IInv
<1>. QED  BY <1>1, <1>2

\* The inductive invariant: the locks of requests are apart, a row is in the hands of at
\* most one of them, and each knows what it needs of the lists and carts it has locked.
THEOREM AccountsInvariant == Spec => []IInv
<1>1. Init => IInv  BY InitIInv
<1>2. IInv /\ [Next]_vars => IInv'  BY NextIInv
<1>. QED  BY <1>1, <1>2, PTL DEF Spec

\* The tables have their types, a subject has one row, and no list outgrows its limit.
THEOREM AccountsTypes == Spec => []TypeOK
<1>1. IInv => TypeOK
  <2>. SUFFICES ASSUME IInv PROVE TypeOK  OBVIOUS
  <2>1. \A w \in Lists : /\ lists[w].row \in Rows \cup {None}
                         /\ lists[w].pieces \in SUBSET Wishes
                         /\ Cardinality(lists[w].pieces) <= Limit
    BY DEF IInv, Data, WishRow, ListInv
  <2>2. \A k \in Carts : /\ carts[k].row \in Rows \cup {None}
                         /\ carts[k].bag \in [Pieces -> Quantities]
    BY DEF IInv, Data, CartRow
  <2>. QED  BY <2>1, <2>2 DEF IInv, Sess, Tables, SubjectInv, Data, TypeOK
<1>. QED  BY <1>1, AccountsInvariant, PTL

\* saved_cart and merge_cart never leave a customer two open carts: whoever opens one for
\* a row, or gives it a guest's, has the lock of its subject and has seen that it had none.
THEOREM CustomersHaveOneCart == Spec => []OneSavedCart
<1>1. IInv => OneSavedCart
  <2>. SUFFICES ASSUME IInv, NEW r \in Rows PROVE Cardinality(OpenCarts(r)) <= 1
    BY DEF OneSavedCart
  <2>1. \A k1, k2 \in OpenCarts(r) : k1 = k2  BY DEF IInv, CartInv
  <2>2. CASE OpenCarts(r) = {}  BY <2>2, FS_EmptySet
  <2>3. ASSUME NEW k \in OpenCarts(r) PROVE Cardinality(OpenCarts(r)) <= 1
    <3>1. OpenCarts(r) = {k}  BY <2>1
    <3>2. Cardinality({k}) = 1  BY FS_Singleton
    <3>. QED  BY <3>1, <3>2
  <2>. QED  BY <2>2, <2>3
<1>. QED  BY <1>1, AccountsInvariant, PTL

-------------------------------------------------------------------------------
(* No circle of waiting requests *)

\* Who waits for a lock has none of the kind he waits for, or is in the middle of a merge.
LEMMA Waiting ==
  ASSUME IInv, NEW c \in Calls, Wants(c) # {}
  PROVE  /\ \/ call[c].at = "resolved" /\ held[c] = {CustomerLock(call[c].who)}
            \/ /\ call[c].at = "two_lists" /\ Wants(c) = {WishlistLock(call[c].into)}
               /\ held[c] = {CustomerLock(call[c].who), WishlistLock(call[c].on)}
            \/ /\ call[c].at = "guest" /\ Wants(c) = {CartLock(k) : k \in OtherCarts(c)}
               /\ held[c] = {CustomerLock(call[c].who), CartLock(call[c].on)}
         /\ \A l \in Wants(c) : (\E x : l = WishlistLock(x)) \/ (\E x : l = CartLock(x))
<1>1. held[c] = Holding(call[c]) /\ call[c] \in Calling  BY DEF IInv, Sess, LockInv, Tables
<1>2. \/ At(c, "merge_wishlist", "resolved") /\ Wants(c) = {WishlistLock(call[c].on)}
      \/ At(c, "merge_wishlist", "two_lists") /\ Wants(c) = {WishlistLock(call[c].into)}
      \/ At(c, "merge_cart", "resolved") /\ Wants(c) = {CartLock(call[c].on)}
      \/ At(c, "merge_cart", "guest") /\ Wants(c) = {CartLock(k) : k \in OtherCarts(c)}
      \/ /\ At(c, "saved_cart", "resolved")
         /\ Wants(c) = {CartLock(k) : k \in OpenCarts(call[c].row)}
  BY DEF Wants, At
<1>3. \A l \in Wants(c) : (\E x : l = WishlistLock(x)) \/ (\E x : l = CartLock(x))
  BY <1>2
<1>4. call[c].at = "resolved" => held[c] = {CustomerLock(call[c].who)}
  BY <1>1, HoldingByStage
<1>5. call[c].at = "two_lists" => held[c] = {CustomerLock(call[c].who), WishlistLock(call[c].on)}
  BY <1>1, HoldingByStage
<1>6. call[c].at = "guest" => held[c] = {CustomerLock(call[c].who), CartLock(call[c].on)}
  BY <1>1, HoldingByStage
<1>. QED  BY <1>2, <1>3, <1>4, <1>5, <1>6 DEF At

\* Of requests that wait for each other, one that holds what another waits for is in the
\* middle of a merge, and nobody of them holds what it waits for.
LEMMA MergesWaitForNobodyWaiting ==
  ASSUME IInv, NEW d \in Calls, NEW e \in Calls, call[d].at \in {"two_lists", "guest"},
         Wants(e) # {}, Wants(d) \cap held[e] # {}
  PROVE  FALSE
<1>0. PICK l \in Wants(d) : l \in held[e]  OBVIOUS
<1>1. CASE call[d].at = "two_lists"
  <2>1. l = WishlistLock(call[d].into)  BY <1>0, <1>1, Waiting
  <2>2. call[e].at = "two_lists" /\ call[e].on = call[d].into
    BY <1>0, <2>1, Waiting DEF WishlistLock, CartLock, CustomerLock
  <2>. QED  BY <1>1, <2>2 DEF IInv, CrossInv
<1>2. CASE call[d].at = "guest"
  <2>1. PICK k \in OtherCarts(d) : l = CartLock(k)  BY <1>0, <1>2, Waiting
  <2>2. call[e].at = "guest" /\ call[e].on = k
    BY <1>0, <2>1, Waiting DEF WishlistLock, CartLock, CustomerLock
  <2>3. carts[k].row = call[d].row /\ k # call[d].on  BY <2>1 DEF OtherCarts, OpenCarts
  <2>4. /\ carts[k].row \in {None, call[e].row} /\ call[d].row \in Rows
    BY <1>2, <2>2, ListLocksHeld DEF IInv, CartInv, CartOk, CartStages
  <2>5. d # e  BY <2>2, <2>3
  <2>6. call[e].row # call[d].row  BY <2>4, <2>5, OtherRequest DEF IInv
  <2>. QED  BY <2>3, <2>4, <2>6, SessionsAssumption
<1>. QED  BY <1>1, <1>2

\* No number of merges, saved_cart requests and others wait for each other in a circle:
\* who waits for a list or cart of his own customer waits for one who is about to end.
THEOREM MergesNeverDeadlock == Spec => []NoWaitCircle
<1>1. IInv => NoWaitCircle
  <2>. SUFFICES ASSUME IInv, NEW S \in SUBSET Calls, S # {},
                       \A c \in S : \E d \in S : Wants(c) \cap held[d] # {}
                PROVE  FALSE
    BY DEF NoWaitCircle
  <2>1. PICK c \in S : TRUE  OBVIOUS
  <2>2. PICK d \in S : Wants(c) \cap held[d] # {}  OBVIOUS
  <2>3. PICK e \in S : Wants(d) \cap held[e] # {}  OBVIOUS
  <2>4. PICK f \in S : Wants(e) \cap held[f] # {}  OBVIOUS
  <2>5. Wants(c) # {} /\ Wants(d) # {} /\ Wants(e) # {}  BY <2>2, <2>3, <2>4
  <2>6. PICK l \in Wants(c) : l \in held[d]  BY <2>2
  <2>7. call[d].at \in {"two_lists", "guest"}
    BY <2>5, <2>6, Waiting DEF WishlistLock, CartLock, CustomerLock
  <2>. QED  BY <2>3, <2>5, <2>7, MergesWaitForNobodyWaiting
<1>. QED  BY <1>1, AccountsInvariant, PTL

-------------------------------------------------------------------------------
(* What a step may never do *)

\* The items of an open cart change only with its version.
LEMMA EditsCountUp ==
  ASSUME IInv, Next, NEW k \in Carts, Open(k), Open(k)', carts'[k].version = carts[k].version
  PROVE  carts'[k].bag = carts[k].bag
<1>0. carts \in [Carts -> CartRow] /\ carts[k].version \in Nat /\ Edited(k) # carts[k].version
  BY DEF IInv, Data, CartRow, Edited
<1>1. CASE carts' = carts  BY <1>1
<1>2. ASSUME NEW j \in Carts, NEW t, carts' = [carts EXCEPT ![j] = t],
             t.version = Edited(j) \/ t.bag = carts[j].bag
      PROVE  carts'[k].bag = carts[k].bag
  BY <1>0, <1>2
<1>3. ASSUME NEW c \in Calls, SavedCartNext(c) PROVE carts'[k].bag = carts[k].bag
  <2>1. ASSUME OpenSavedCart(c), carts' # carts PROVE carts'[k].bag = carts[k].bag
    <3>1. PICK j \in Carts : /\ carts[j] = NoCart
                             /\ carts' = [carts EXCEPT ![j] = Opened(call[c].row)]
      BY <2>1 DEF OpenSavedCart
    <3>2. j # k  BY <3>1 DEF NoCart, Cart, Open
    <3>. QED  BY <1>0, <3>1, <3>2
  <2>2. ASSUME KeepGuest(c) PROVE carts'[k].bag = carts[k].bag
    <3>1. PICK bag : carts' = [carts EXCEPT ![call[c].on] =
                                 Cart("open", call[c].row, Edited(call[c].on), bag)]
      BY <2>2 DEF KeepGuest
    <3>2. call[c].on # k  BY <1>0, <3>1 DEF Cart
    <3>. QED  BY <1>0, <3>1, <3>2
  <2>3. ASSUME MergeCarts(c) PROVE carts'[k].bag = carts[k].bag
    <3>1. PICK bag : carts' = [carts EXCEPT ![call[c].on].status = "expired",
                                 ![call[c].into] = Cart("open", carts[call[c].into].row,
                                                        Edited(call[c].into), bag)]
      BY <2>3 DEF MergeCarts
    <3>2. call[c].into # k  BY <1>0, <3>1 DEF Cart
    <3>. QED  BY <1>0, <3>1, <3>2 DEF CartRow
  <2>. QED
    BY <1>1, <1>3, <2>1, <2>2, <2>3
    DEF SavedCartNext, BeginSavedCart, BeginMergeCart, LoadGuest, FindSaved
<1>4. ASSUME NEW j \in Carts, NEW p \in Pieces, NEW q \in Quantities, Edit(j, p, q)
      PROVE  carts'[k].bag = carts[k].bag
  BY <1>0, <1>4 DEF Edit, CartRow
<1>5. ASSUME ShopperNext PROVE carts'[k].bag = carts[k].bag
  <2>1. ASSUME NEW j \in Carts, CreateCart(j) PROVE carts'[k].bag = carts[k].bag
    <3>1. j # k  BY <2>1 DEF CreateCart, NoCart, Cart, Open
    <3>. QED  BY <1>0, <2>1, <3>1 DEF CreateCart
  <2>2. 0 \in Quantities  BY QuantityAssumption DEF Quantities
  <2>. QED  BY <1>4, <1>5, <2>1, <2>2 DEF ShopperNext, AddItem, UpdateItem, RemoveItem
<1>6. ASSUME NEW j \in Carts, PlaceOrder(j) PROVE carts'[k].bag = carts[k].bag
  BY <1>0, <1>6 DEF PlaceOrder, ConvertCart, CartRow
<1>. QED
  BY <1>1, <1>3, <1>5, <1>6 DEF Next, EraseAccount

\* An edit that names the version of a cart never overwrites what its sender has not seen:
\* whoever changes the items, the merges included, counts the version up.
THEOREM VersionsTellBagsApart == Spec => SameVersionSameBag
<1>1. IInv /\ [Next]_vars =>
        [\A k \in Carts : Open(k) /\ Open(k)' /\ carts'[k].version = carts[k].version
                            => carts'[k].bag = carts[k].bag]_vars
  BY EditsCountUp
<1>. QED  BY <1>1, AccountsInvariant, PTL DEF Spec, SameVersionSameBag

\* Where the pieces of a guest's list are when it goes.
Saved(w) == \E t \in Lists \ {w} :
              \/ lists[t] = Deleted /\ approved # {}
              \/ /\ lists[t].pieces \subseteq lists'[t].pieces
                 /\ \/ lists[w].pieces \subseteq lists'[t].pieces
                    \/ Cardinality(lists'[t].pieces) = Limit

LEMMA MergesSave ==
  ASSUME IInv, Next, NEW w \in Lists, There(w), lists[w].row = None, lists'[w] = Deleted
  PROVE  Saved(w)
<1>0. lists \in [Lists -> WishRow] /\ lists' # lists /\ Deleted.state = "deleted"
  BY DEF IInv, Data, There, Deleted, List
<1>1. ASSUME NEW c \in Calls, MergeLists(c) PROVE Saved(w)
  <2>0. call[c].at = "copied"  BY <1>1 DEF MergeLists, At
  <2>1. PICK g, t \in Lists : Copied(c, g, t)  BY <2>0, CopiedLists
  <2>2. lists' = [lists EXCEPT ![g] = Deleted, ![t].pieces = @ \cup call[c].plan]
    BY <1>0, <1>1, <2>1 DEF MergeLists, Copied
  <2>3. lists'[t] = [lists[t] EXCEPT !.pieces = @ \cup call[c].plan]
        /\ \A v \in Lists \ {g, t} : lists'[v] = lists[v]
    BY <1>0, <2>1, <2>2 DEF Copied
  <2>4. lists'[t].pieces = lists[t].pieces \cup call[c].plan
        /\ lists'[t].state = lists[t].state
    BY <1>0, <2>3 DEF WishRow
  <2>5. w = g  BY <1>0, <2>3, <2>4 DEF There
  <2>. QED  BY <2>1, <2>4, <2>5 DEF Saved, Copied
<1>2. ASSUME NEW c \in Calls, WishlistNext(c), ~MergeLists(c) PROVE FALSE
  <2>1. ASSUME NEW v \in Lists, lists[v] = NoList \/ lists'[v].state = lists[v].state,
               \A x \in Lists \ {v} : lists'[x] = lists[x]
        PROVE  FALSE
    BY <1>0, <2>1 DEF There, NoList, List
  <2>2. ASSUME NEW v \in Lists, CreateGuestList(c, v) PROVE FALSE
    BY <1>0, <2>1, <2>2 DEF CreateGuestList
  <2>3. ASSUME CreateAccountList(c) PROVE FALSE
    BY <1>0, <2>1, <2>3 DEF CreateAccountList
  <2>4. ASSUME AddPiece(c) \/ AdoptList(c) PROVE FALSE
    <3>1. call[c].on \in Lists
      BY <2>4 DEF AddPiece, AdoptList, At, IInv, ListInv, ListOk, ListStages
    <3>2. lists'[call[c].on].state = lists[call[c].on].state
      BY <1>0, <2>4, <3>1 DEF AddPiece, AdoptList, WishRow
    <3>3. \A x \in Lists \ {call[c].on} : lists'[x] = lists[x]
      BY <1>0, <2>4, <3>1 DEF AddPiece, AdoptList
    <3>. QED  BY <2>1, <3>1, <3>2, <3>3
  <2>5. ASSUME NEW v \in Lists, NEW s, NEW p, RemovePiece(c, v, s, p) PROVE FALSE
    <3>1. lists'[v].state = lists[v].state /\ \A x \in Lists \ {v} : lists'[x] = lists[x]
      BY <1>0, <2>5 DEF RemovePiece, WishRow
    <3>. QED  BY <2>1, <3>1
  <2>. QED
    BY <1>0, <1>2, <2>2, <2>3, <2>4, <2>5
    DEF WishlistNext, BeginCreateList, BeginMergeList, BeginAddPiece, FindLists, LockTarget
<1>3. ASSUME NEW r \in Rows, NEW checker \in Checkers, EraseAccount(r, checker) PROVE FALSE
  <2>1. w \notin OfRow(r)  BY SessionsAssumption DEF OfRow
  <2>. QED  BY <1>0, <1>3, <2>1 DEF EraseAccount, There
<1>. QED
  BY <1>0, <1>1, <1>2, <1>3 DEF Next, PlaceOrder

\* A merge of lists loses nothing that fits: what goes with the guest's list is on the
\* account's, whoever adds to that meanwhile, or the account has been erased.
THEOREM ListMergesLoseNothing == Spec => MergesLoseNothing
<1>1. ASSUME IInv, [Next]_vars
      PROVE  [\A w \in Lists :
                There(w) /\ lists[w].row = None /\ lists'[w] = Deleted =>
                  \E t \in Lists \ {w} :
                     \/ lists[t] = Deleted /\ approved # {}
                     \/ /\ lists[t].pieces \subseteq lists'[t].pieces
                        /\ \/ lists[w].pieces \subseteq lists'[t].pieces
                           \/ Cardinality(lists'[t].pieces) = Limit]_vars
  BY <1>1, MergesSave DEF Saved
<1>. QED  BY <1>1, AccountsInvariant, PTL DEF Spec, MergesLoseNothing

\* Nobody gets hold of a row whose subject nobody signs in with.
LEMMA OutOfHands ==
  ASSUME IInv, Next, NEW r \in approved, ~InHands(r)
  PROVE  ~InHands(r)'
<1>0. /\ Sess /\ call \in [Calls -> Calling] /\ r \in Rows /\ r # None
      /\ subjectOf[r] = Erased /\ \A c \in Calls : call[c].row # r
  BY SessionsAssumption DEF IInv, Sess, Tables, SubjectInv, InHands
<1>1. CASE call' = call  BY <1>0, <1>1 DEF InHands
<1>2. ASSUME NEW c \in Calls, Ends(c) PROVE ~InHands(r)'
  BY <1>0, <1>2 DEF Ends, Ended, Request, InHands
<1>3. ASSUME NEW c \in Calls, NEW op \in Ops, NEW s \in Subjects, NEW on \in Targets,
             CustomerFor(c, op, s, on), approved' = approved
      PROVE  ~InHands(r)'
  <2>1. PICK x \in Rows :
          /\ call' = [call EXCEPT ![c] = Request(op, "resolved", s, x, on, None, {})]
          /\ subjectOf[x] \in {s, None}
    BY <1>0, <1>3, SignInKeeps
  <2>2. x # r  BY <1>0, <2>1, SessionsAssumption
  <2>. QED  BY <1>0, <2>1, <2>2 DEF Request, InHands
<1>4. ASSUME NEW c \in Calls, ProfileNext(c) PROVE ~InHands(r)'
  BY <1>2, <1>3, <1>4, ProfileSteps DEF Commit, Rollback, Ops, Targets
<1>5. ASSUME NEW c \in Calls, WishlistNext(c), approved' = approved PROVE ~InHands(r)'
  <2>1. ASSUME NEW s \in Subjects, BeginCreateList(c, s) PROVE ~InHands(r)'
    BY <1>3, <1>5, <2>1 DEF BeginCreateList, Ops, Targets
  <2>2. ASSUME NEW s \in Subjects, NEW w \in Lists, BeginMergeList(c, s, w) PROVE ~InHands(r)'
    BY <1>3, <1>5, <2>2 DEF BeginMergeList, Ops, Targets
  <2>3. ASSUME NEW w \in Lists, NEW s, NEW p, BeginAddPiece(c, w, s, p) PROVE ~InHands(r)'
    BY <1>0, <2>3 DEF BeginAddPiece, Request, InHands
  <2>4. FindLists(c) => ~InHands(r)'
    <3>1. ASSUME call' = [call EXCEPT ![c].at = "one_list"] PROVE ~InHands(r)'
      BY <1>0, <3>1 DEF InHands, Calling
    <3>2. ASSUME NEW t, call' = [call EXCEPT ![c].at = "two_lists", ![c].into = t]
          PROVE  ~InHands(r)'
      BY <1>0, <3>2 DEF InHands, Calling
    <3>. QED  BY <1>2, <3>1, <3>2 DEF FindLists, Rollback, Moves
  <2>5. LockTarget(c) => ~InHands(r)'
    BY <1>0 DEF LockTarget, InHands, Calling
  <2>6. ASSUME \/ CreateAccountList(c) \/ AddPiece(c) \/ AdoptList(c) \/ MergeLists(c)
               \/ \E w \in Lists : CreateGuestList(c, w)
               \/ \E w \in Lists, s \in Subjects \cup {None}, p \in Wishes : RemovePiece(c, w, s, p)
        PROVE  ~InHands(r)'
    BY <1>2, <2>6 DEF CreateAccountList, AddPiece, AdoptList, MergeLists, CreateGuestList,
                      RemovePiece, Commit, Rollback
  <2>. QED  BY <1>5, <2>1, <2>2, <2>3, <2>4, <2>5, <2>6 DEF WishlistNext
<1>6. ASSUME NEW c \in Calls, SavedCartNext(c), approved' = approved PROVE ~InHands(r)'
  <2>1. ASSUME NEW s \in Subjects, BeginSavedCart(c, s) PROVE ~InHands(r)'
    BY <1>3, <1>6, <2>1 DEF BeginSavedCart, Ops, Targets
  <2>2. ASSUME NEW s \in Subjects, NEW k \in Carts, BeginMergeCart(c, s, k) PROVE ~InHands(r)'
    BY <1>3, <1>6, <2>2 DEF BeginMergeCart, Ops, Targets
  <2>3. ASSUME NEW at, call' = [call EXCEPT ![c].at = at] PROVE ~InHands(r)'
    BY <1>0, <2>3 DEF InHands, Calling
  <2>4. ASSUME NEW k, call' = [call EXCEPT ![c].at = "two_carts", ![c].into = k]
        PROVE  ~InHands(r)'
    BY <1>0, <2>4 DEF InHands, Calling
  <2>5. OpenSavedCart(c) \/ KeepGuest(c) \/ MergeCarts(c) => ~InHands(r)'
    BY <1>2 DEF OpenSavedCart, KeepGuest, MergeCarts, Commit
  <2>6. LoadGuest(c) \/ FindSaved(c) => ~InHands(r)'
    BY <1>2, <2>3, <2>4 DEF LoadGuest, FindSaved, Rollback, Moves
  <2>. QED  BY <1>6, <2>1, <2>2, <2>5, <2>6 DEF SavedCartNext
<1>7. ShopperNext => call' = call
  BY DEF ShopperNext, CreateCart, AddItem, UpdateItem, RemoveItem, Edit, sessionVars
<1>8. \A k \in Carts : PlaceOrder(k) => call' = call
  BY DEF PlaceOrder, ConvertCart, sessionVars
<1>9. \A x \in Rows : PruneMessages(x) \/ (\E checker \in Checkers : EraseAccount(x, checker))
                       => call' = call
  BY DEF PruneMessages, EraseAccount, ApproveErasure, sessionVars
<1>. QED
  BY <1>1, <1>4, <1>5, <1>6, <1>7, <1>8, <1>9 DEF Next, privacyVars

\* A row that nobody has gets no list.
LEMMA NoNewLists ==
  ASSUME IInv, Next, NEW r \in Rows, ~InHands(r), OfRow(r) = {}
  PROVE  OfRow(r)' = {}
<1>0. /\ lists \in [Lists -> WishRow] /\ r # None /\ \A c \in Calls : call[c].row # r
      /\ \A w \in Lists : ~There(w) \/ lists[w].row # r
  BY SessionsAssumption DEF IInv, Data, InHands, OfRow
<1>1. SUFFICES ASSUME NEW w \in Lists, There(w)', lists'[w].row = r PROVE FALSE
  BY DEF OfRow, There
<1>2. ASSUME NEW v \in Lists, \A x \in Lists \ {v} : lists'[x] = lists[x],
             \/ lists'[v].row # r
             \/ lists'[v].row = lists[v].row /\ lists'[v].state = lists[v].state
      PROVE  FALSE
  BY <1>0, <1>1, <1>2 DEF There
<1>3. CASE lists' = lists  BY <1>0, <1>1, <1>3 DEF There
<1>4. ASSUME NEW c \in Calls, WishlistNext(c) PROVE FALSE
  <2>0. ListOk(c)  BY DEF IInv, ListInv
  <2>1. ASSUME NEW v \in Lists, CreateGuestList(c, v) PROVE FALSE
    BY <1>0, <1>2, <2>1 DEF CreateGuestList, List
  <2>2. ASSUME CreateAccountList(c) PROVE FALSE
    BY <1>0, <1>2, <1>3, <2>2 DEF CreateAccountList, List
  <2>3. ASSUME AddPiece(c) PROVE FALSE
    <3>1. call[c].on \in Lists  BY <2>0, <2>3 DEF AddPiece, At, ListOk
    <3>2. /\ \A x \in Lists \ {call[c].on} : lists'[x] = lists[x]
          /\ lists'[call[c].on].row = lists[call[c].on].row
          /\ lists'[call[c].on].state = lists[call[c].on].state
      BY <1>0, <2>3, <3>1 DEF AddPiece, WishRow
    <3>. QED  BY <1>2, <3>1, <3>2
  <2>4. ASSUME NEW v \in Lists, NEW s, NEW p, RemovePiece(c, v, s, p) PROVE FALSE
    <3>1. /\ \A x \in Lists \ {v} : lists'[x] = lists[x]
          /\ lists'[v].row = lists[v].row /\ lists'[v].state = lists[v].state
      BY <1>0, <2>4 DEF RemovePiece, WishRow
    <3>. QED  BY <1>2, <3>1
  <2>5. ASSUME AdoptList(c) PROVE FALSE
    <3>1. call[c].on \in Lists  BY <2>0, <2>5 DEF AdoptList, At, ListOk, ListStages
    <3>2. CASE There(call[c].on)
      <4>1. /\ \A x \in Lists \ {call[c].on} : lists'[x] = lists[x]
            /\ lists'[call[c].on].row = call[c].row
        BY <1>0, <2>5, <3>1, <3>2 DEF AdoptList, WishRow
      <4>. QED  BY <1>0, <1>2, <3>1, <4>1
    <3>. QED  BY <1>3, <2>5, <3>2 DEF AdoptList
  <2>6. ASSUME MergeLists(c), lists' # lists PROVE FALSE
    <3>1. call[c].on \in Lists /\ call[c].into \in Lists \ {call[c].on}
      BY <2>0, <2>6 DEF MergeLists, At, ListOk, ListStages
    <3>2. lists' = [lists EXCEPT ![call[c].on] = Deleted,
                                 ![call[c].into].pieces = @ \cup call[c].plan]
      BY <2>6 DEF MergeLists
    <3>3. /\ lists'[call[c].on] = Deleted
          /\ lists'[call[c].into].row = lists[call[c].into].row
          /\ lists'[call[c].into].state = lists[call[c].into].state
          /\ \A x \in Lists \ {call[c].on, call[c].into} : lists'[x] = lists[x]
      BY <1>0, <3>1, <3>2 DEF WishRow
    <3>. QED  BY <1>0, <1>1, <3>3 DEF There, Deleted, List
  <2>. QED
    BY <1>3, <1>4, <2>1, <2>2, <2>3, <2>4, <2>5, <2>6
    DEF WishlistNext, BeginCreateList, BeginMergeList, BeginAddPiece, FindLists, LockTarget
<1>5. ASSUME NEW x \in Rows, NEW checker \in Checkers, EraseAccount(x, checker) PROVE FALSE
  BY <1>0, <1>1, <1>5 DEF EraseAccount, There, Deleted, List
<1>. QED
  BY <1>3, <1>4, <1>5 DEF Next, PlaceOrder

\* Nor does it get personal data.
LEMMA NoNewData ==
  ASSUME IInv, Next, NEW r \in Rows, ~InHands(r), personal[r] \cap Private = {}
  PROVE  personal'[r] \cap Private = {}
<1>0. /\ personal \in [Rows -> SUBSET Kinds] /\ \A c \in Calls : call[c].row # r
  BY DEF IInv, Data, InHands
<1>1. CASE personal' = personal  BY <1>1
<1>2. ASSUME NEW c \in Calls, NEW data, Writes(c, data) PROVE personal'[r] = personal[r]
  BY <1>0, <1>2 DEF Writes
<1>3. ASSUME NEW c \in Calls, ProfileNext(c), personal' # personal
      PROVE  personal'[r] \cap Private = {}
  <2>1. ASSUME NEW x \in Rows, Reply(c, x) PROVE personal'[r] \cap Private = {}
    BY <1>0, <2>1 DEF Reply, Private
  <2>. QED
    BY <1>2, <1>3, <2>1
    DEF ProfileNext, BeginProfile, ReadProfile, UpdateProfile, AddAddress, AddConsent, CreateCase,
        DeleteAddress, AddMessage, Refused, RequestErasure, privacyVars
<1>4. ASSUME NEW k \in Carts, PlaceOrder(k) PROVE personal'[r] \cap Private = {}
  BY <1>0, <1>4 DEF PlaceOrder, Private
<1>5. ASSUME NEW x \in Rows, NEW checker \in Checkers, EraseAccount(x, checker)
      PROVE  personal'[r] \cap Private = {}
  BY <1>0, <1>5 DEF EraseAccount, ApproveErasure, Kept
<1>6. ASSUME NEW x \in Rows, PruneMessages(x) PROVE personal'[r] \cap Private = {}
  BY <1>0, <1>6 DEF PruneMessages
<1>. QED
  BY <1>1, <1>3, <1>4, <1>5, <1>6 DEF Next, privacyVars

\* An erased row is out of reach once the requests have ended that had it before: no
\* sign-in finds it, and what is clean of it stays clean.
THEOREM ErasedRowsStayOutOfReach == Spec => ErasureIsForGood
<1>1. ASSUME IInv, [Next]_vars
      PROVE  [\A r \in approved : ~InHands(r) => ~InHands(r)' /\ (Clean(r) => Clean(r)')]_vars
  <2>1. ASSUME Next, NEW r \in approved, ~InHands(r)
        PROVE  ~InHands(r)' /\ (Clean(r) => Clean(r)')
    <3>1. r \in Rows  BY <1>1 DEF IInv, Sess, Tables
    <3>2. ~InHands(r)'  BY <1>1, <2>1, OutOfHands
    <3>3. Clean(r) => Clean(r)'
      BY <1>1, <2>1, <3>1, NoNewLists, NoNewData DEF Clean
    <3>. QED  BY <3>2, <3>3
  <2>. QED  BY <1>1, <2>1
<1>. QED  BY <1>1, AccountsInvariant, PTL DEF Spec, ErasureIsForGood
===============================================================================
