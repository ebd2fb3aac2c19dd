---------------------------- MODULE OrderLifecycle ----------------------------
(***************************************************************************)
(* What an order promises, without attempts, events, retries or requests:  *)
(* stock is held when the order is placed, is committed exactly when the   *)
(* money arrives in time (or the order is cash on delivery), and goes back *)
(* when the order expires unpaid or is cancelled.  Module Payments         *)
(* implements it.                                                          *)
(***************************************************************************)
CONSTANT Orders

VARIABLES stage,   \* absent, unpaid, placed, allocated, cancelled, expired
          paid,    \* an online payment was captured
          stock,   \* none, held, committed, returned
          overdue  \* the stock is held beyond its time

vars == <<stage, paid, stock, overdue>>

Init == /\ stage   = [o \in Orders |-> "absent"]
        /\ paid    = [o \in Orders |-> FALSE]
        /\ stock   = [o \in Orders |-> "none"]
        /\ overdue = [o \in Orders |-> FALSE]

Place(o) == /\ stage[o] = "absent"
            /\ stage' = [stage EXCEPT ![o] = "unpaid"]
            /\ stock' = [stock EXCEPT ![o] = "held"]
            /\ UNCHANGED <<paid, overdue>>

PlaceCod(o) == /\ stage[o] = "absent"
               /\ stage' = [stage EXCEPT ![o] = "placed"]
               /\ stock' = [stock EXCEPT ![o] = "committed"]
               /\ UNCHANGED <<paid, overdue>>

Pay(o) == /\ stage[o] = "unpaid" /\ stock[o] = "held" /\ ~overdue[o]
          /\ stage' = [stage EXCEPT ![o] = "placed"]
          /\ stock' = [stock EXCEPT ![o] = "committed"]
          /\ paid'  = [paid EXCEPT ![o] = TRUE]
          /\ UNCHANGED overdue

TimeOut(o) == /\ stock[o] = "held" /\ ~overdue[o]
              /\ overdue' = [overdue EXCEPT ![o] = TRUE]
              /\ UNCHANGED <<stage, paid, stock>>

\* Several overdue orders may expire together.
Expire(S) == /\ S # {} /\ \A o \in S : stage[o] = "unpaid" /\ overdue[o]
             /\ stage'   = [o \in Orders |-> IF o \in S THEN "expired" ELSE stage[o]]
             /\ stock'   = [o \in Orders |-> IF o \in S THEN "returned" ELSE stock[o]]
             /\ overdue' = [o \in Orders |-> IF o \in S THEN FALSE ELSE overdue[o]]
             /\ UNCHANGED paid

Allocate(o) == /\ stage[o] = "placed"
               /\ stage' = [stage EXCEPT ![o] = "allocated"]
               /\ UNCHANGED <<paid, stock, overdue>>

Cancel(o) == /\ stage[o] \in {"placed", "allocated"}
             /\ stage' = [stage EXCEPT ![o] = "cancelled"]
             /\ stock' = [stock EXCEPT ![o] = "returned"]
             /\ UNCHANGED <<paid, overdue>>

Next == \/ \E o \in Orders : \/ Place(o) \/ PlaceCod(o) \/ Pay(o) \/ TimeOut(o)
                             \/ Allocate(o) \/ Cancel(o)
        \/ \E S \in SUBSET Orders : Expire(S)

\* No order stays overdue.
Fairness == \A o \in Orders : WF_vars(\E S \in SUBSET Orders : o \in S /\ Expire(S))

Spec == Init /\ [][Next]_vars /\ Fairness
===============================================================================
