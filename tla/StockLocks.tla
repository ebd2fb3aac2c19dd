------------------------------- MODULE StockLocks -------------------------------
(***************************************************************************)
(* The row locks of the transactions that move stock.  Inventory treats    *)
(* each of them as one step; here each takes its stock rows one at a time, *)
(* in the order of the code, waits while another has the next one, and     *)
(* gives all of them back when it commits.  PostgreSQL breaks a cycle of   *)
(* waiting transactions by failing one of them; nothing in the code tries  *)
(* again.                                                                  *)
(*                                                                         *)
(* Rows and variants are numbered in the order of their ids.  Locks on     *)
(* orders are left out: a transaction waits for one only before it has any *)
(* other lock, and the sweeper skips those it would wait for, so they      *)
(* close no cycle.  An order stands for all orders with its lines.         *)
(***************************************************************************)
EXTENDS WaitCircles, Sequences, FiniteSets, Functions

CONSTANTS Variants, Orders,
          Lines,      \* the variants of each order, by order_item id
          None

ASSUME RowsAssumption == /\ Rows \subseteq Nat /\ Variants \subseteq Nat /\ IsFiniteSet(Rows)
                         /\ VariantOf \in [Rows -> Variants]
ASSUME LinesAssumption == Lines \in [Orders -> Seq(Variants)]

Kinds == {"checkout", "cancel", "dispatch", "sweep", "adjust"}

ASSUME NoneAssumption == None \notin Txns /\ None \notin Kinds

vars == <<kind, todo, owner>>

-------------------------------------------------------------------------------
Init == /\ kind = [t \in Txns |-> None]
        /\ todo = [t \in Txns |-> {}]
        /\ owner = [r \in Rows |-> None]

\* reserve (and merge_cart, which looks at the stock): variant by variant.
ReserveLocks(V) == {<<VariantOf[r], r>> : r \in {s \in Rows : VariantOf[s] \in V}}

HoldsOf(o, H) == {r \in H : \E i \in DOMAIN Lines[o] : Lines[o][i] = VariantOf[r]}
\* Slip: the latest row first.
SlipLatestFirst(o, H) == {<<Cardinality({s \in H : s > r}), r>> : r \in HoldsOf(o, H)}
\* release: the rows of H on which the order has holds, by id alone.
ReleaseLocks(o, H) == {<<0, r>> : r \in HoldsOf(o, H)}

\* dispatch of the lines of V: line by line, and the holds of each.
DispatchLocks(o, H, V) ==
  {p \in (DOMAIN Lines[o]) \X H : Lines[o][p[1]] = VariantOf[p[2]] /\ VariantOf[p[2]] \in V}

\* The ways to arrange the orders of a batch.
Places(S) == Bijection(S, 1..Cardinality(S))
\* sweep_expired: order after order by their places in the batch, all in one transaction.
SweepLocks(place, H) ==
  UNION {{<<place[o], r>> : r \in HoldsOf(o, H)} : o \in DOMAIN place}

Begin(t, what, locks) == /\ kind[t] = None
                         /\ kind' = [kind EXCEPT ![t] = what]
                         /\ todo' = [todo EXCEPT ![t] = locks]
                         /\ UNCHANGED owner

Checkout(t, V) == Begin(t, "checkout", ReserveLocks(V))
Adjust(t, r) == Begin(t, "adjust", {<<0, r>>})
Cancel(t, o, H) == Begin(t, "cancel", ReleaseLocks(o, H))
Dispatch(t, o, H, V) == Begin(t, "dispatch", DispatchLocks(o, H, V))
Sweep(t, place, H) == Begin(t, "sweep", SweepLocks(place, H))

\* SELECT ... FOR UPDATE: the row is free, or the transaction's own already.
Lock(t) == \E p \in todo[t] :
  /\ IsNext(t, p) /\ owner[p[2]] \in {None, t}
  /\ owner' = [owner EXCEPT ![p[2]] = t]
  /\ todo' = [todo EXCEPT ![t] = @ \ {p}]
  /\ UNCHANGED kind

\* Slip: the locks outlive the transaction.
SlipKept(t) == owner
Freed(t) == [r \in Rows |-> IF owner[r] = t THEN None ELSE owner[r]]
End(t) == /\ owner' = Freed(t)
          /\ todo' = [todo EXCEPT ![t] = {}]
          /\ kind' = [kind EXCEPT ![t] = None]

Commit(t) == kind[t] # None /\ todo[t] = {} /\ End(t)

\* Too little stock, or more shipped than was bought: what was locked is given back.
Refused(t) == kind[t] \in {"checkout", "dispatch"} /\ End(t)

\* External: the database fails a transaction of a cycle.
Victim(t) == (\E S \in SUBSET Txns : t \in S /\ Cycle(S)) /\ End(t)

Next == \E t \in Txns :
  \/ Lock(t) \/ Commit(t) \/ Refused(t) \/ Victim(t)
  \/ \E V \in SUBSET Variants : Checkout(t, V)
  \/ \E r \in Rows : Adjust(t, r)
  \/ \E o \in Orders, H \in SUBSET Rows :
       \/ Cancel(t, o, H)
       \/ \E V \in SUBSET Variants : Dispatch(t, o, H, V)
  \/ \E S \in SUBSET Orders, H \in SUBSET Rows :
       \E place \in Places(S) : Sweep(t, place, H)

\* The database serves the transactions that wait for a row in turn.
Fairness == \A t \in Txns : /\ SF_vars(Lock(t)) /\ WF_vars(Commit(t))
                            /\ WF_vars(Victim(t))
Spec == Init /\ [][Next]_vars /\ Fairness

-------------------------------------------------------------------------------
(***************************************************************************)
(* Properties                                                              *)
(***************************************************************************)
\* A transaction commits or is failed: nobody waits for a row for ever.
EveryTransactionEnds == \A t \in Txns : kind[t] # None ~> kind[t] = None
===============================================================================
