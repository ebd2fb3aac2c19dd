-------------------------------- MODULE Sessions --------------------------------
(***************************************************************************)
(* What the handlers behind a sign-in share: the customers' rows, the      *)
(* locks that PostgreSQL keeps for a transaction until it ends, and the    *)
(* requests in flight.  Privacy, Wishlists and SavedCarts extend it with   *)
(* their tables, Accounts puts the three together.                         *)
(*                                                                         *)
(* A request is one call of one handler.  It stops where the code may have *)
(* to wait for a lock, and where what it has read may be overtaken before  *)
(* it writes; the statements in between are one step.                      *)
(***************************************************************************)
EXTENDS Naturals, FiniteSets

CONSTANTS Subjects,  \* auth subjects, as the identity provider knows them
          Rows,      \* ids of customers' rows
          Calls,     \* requests
          Erased,    \* stands for the auth_subject "erased:<uuid>"
          None

ASSUME SessionsAssumption == /\ None \notin Rows \cup Subjects
                             /\ Erased \notin Subjects \cup {None}

VARIABLES subjectOf,  \* auth_subject of each row, None when there is no such row
          held,       \* the locks of each call's transaction
          call        \* the request that each call runs, and how far it has got

sessionVars == <<subjectOf, held, call>>

-------------------------------------------------------------------------------
Request(op, at, s, r, on, into, plan) ==
  [op |-> op, at |-> at, who |-> s, row |-> r, on |-> on, into |-> into, plan |-> plan]

Idle  == Request(None, "idle", None, None, None, None, {})
Ended == Request(None, "ended", None, None, None, None, {})

SessionsInit == /\ held = [c \in Calls |-> {}]
                /\ call = [c \in Calls |-> Idle]

At(c, op, at) == call[c].op = op /\ call[c].at = at

-------------------------------------------------------------------------------
(* Locks *)

CustomerLock(s) == <<"customer", s>>

\* What customer_for locks.  SlipNoLock: nothing.
SlipNoLock(s)  == {}
SignInLocks(s) == {CustomerLock(s)}

Free(lock)      == \A c \in Calls : lock \notin held[c]
Take(c, locks)  == held' = [held EXCEPT ![c] = @ \cup locks]

Moves(c, at) == call' = [call EXCEPT ![c].at = at]

-------------------------------------------------------------------------------
(* customer_for *)

RowOf(s)  == IF \E r \in Rows : subjectOf[r] = s
             THEN CHOOSE r \in Rows : subjectOf[r] = s ELSE None

\* Ids nobody has used: a row that a transaction has inserted is not yet there for
\* the others.
Unused    == {r \in Rows : subjectOf[r] = None /\ \A c \in Calls : call[c].row # r}

\* A handler behind the sign-in begins: the lock of its subject, then the
\* customer's row, a new one if there is none.
CustomerFor(c, op, s, on) ==
  /\ call[c] = Idle
  /\ Free(CustomerLock(s))
  /\ Take(c, SignInLocks(s))
  /\ \/ /\ RowOf(s) # None
        /\ call' = [call EXCEPT ![c] = Request(op, "resolved", s, RowOf(s), on, None, {})]
     \/ /\ RowOf(s) = None
        /\ \E r \in Unused : call' = [call EXCEPT ![c] = Request(op, "resolved", s, r, on, None, {})]
  /\ UNCHANGED subjectOf

-------------------------------------------------------------------------------
(* The end of a transaction *)

Ends(c) == /\ held' = [held EXCEPT ![c] = {}]
           /\ call' = [call EXCEPT ![c] = Ended]

\* The commit makes the row that customer_for inserted visible.
Commit(c) == /\ Ends(c)
             /\ subjectOf' = IF call[c].row = None THEN subjectOf
                             ELSE [subjectOf EXCEPT ![call[c].row] =
                                     IF @ = None THEN call[c].who ELSE @]

Rollback(c) == Ends(c) /\ UNCHANGED subjectOf
===============================================================================
