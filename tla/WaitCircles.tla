------------------------------ MODULE WaitCircles ------------------------------
(***************************************************************************)
(* Transactions that have locked some stock rows and want others, and who  *)
(* of them waits for whom.  StockLocks says which rows each transaction of *)
(* the code wants, and in what order.                                      *)
(***************************************************************************)
EXTENDS Naturals

CONSTANTS Txns,       \* server processes, each with one transaction
          Rows,       \* of stock, numbered in the order of their ids
          VariantOf   \* the variant of each

VARIABLES kind,   \* of each transaction, None when there is none
          todo,   \* the rows it has yet to lock, each with its turn
          owner   \* the transaction that has locked the row

\* Rows are locked turn by turn, and those of one turn by id.
Before(p, q) == p[1] < q[1] \/ (p[1] = q[1] /\ p[2] < q[2])
IsNext(t, p) == p \in todo[t] /\ \A q \in todo[t] \ {p} : Before(p, q)

\* Every transaction of S waits for another one of S.
Cycle(S) == /\ S # {}
            /\ \A t \in S : \E p \in todo[t] : IsNext(t, p) /\ owner[p[2]] \in S \ {t}

\* It waits for a row that was created before one it has, though for a later variant's.
Backwards(t) == \E r \in Rows, p \in todo[t] :
  /\ owner[r] = t /\ IsNext(t, p)
  /\ p[2] < r /\ VariantOf[r] < VariantOf[p[2]]

\* Two kinds of circles are possible and no others: those with a dispatch or a sweep,
\* and those of cancellations with checkouts that go backwards, which takes a variant that
\* was stocked at another location after the next variant was.  Checkouts alone,
\* cancellations alone and adjustments never wait for each other in a circle.
CirclesHaveCauses == \A S \in SUBSET Txns : Cycle(S) =>
  \/ \E t \in S : kind[t] \in {"dispatch", "sweep"}
  \/ /\ \E t \in S : kind[t] = "cancel"
     /\ \E t \in S : kind[t] = "checkout" /\ Backwards(t)
===============================================================================
