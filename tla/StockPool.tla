------------------------------- MODULE StockPool -------------------------------
(***************************************************************************)
(* What the inventory promises, without locations, rows or statuses: the   *)
(* units of a variant that nobody was promised are sold once; an order is  *)
(* promised its units all at once, and they leave the house with it or go  *)
(* back to the pool.  Module Inventory implements it.                      *)
(***************************************************************************)
EXTENDS Naturals

CONSTANTS Orders, Variants

VARIABLES free,      \* units of each variant that can be promised
          promised,  \* units each order may still be sent
          sent       \* units each order was sent

vars == <<free, promised, sent>>

Nothing == [v \in Variants |-> 0]
Init == /\ free = Nothing
        /\ promised = [o \in Orders |-> Nothing]
        /\ sent = [o \in Orders |-> Nothing]

\* Stock comes in, is written off or corrected: never promised units.
Restock == /\ \E v \in Variants : /\ free'[v] \in Nat
                                  /\ free' = [free EXCEPT ![v] = free'[v]]
           /\ UNCHANGED <<promised, sent>>

Promise(o) == /\ promised[o] = Nothing /\ sent[o] = Nothing
              /\ promised'[o] \in [Variants -> Nat]
              /\ promised' = [promised EXCEPT ![o] = promised'[o]]
              /\ \A v \in Variants : promised'[o][v] <= free[v]
              /\ free' = [v \in Variants |-> free[v] - promised'[o][v]]
              /\ UNCHANGED sent

\* Only an order that was sent nothing gives its units back.
GiveBack(o) == /\ sent[o] = Nothing
               /\ free' = [v \in Variants |-> free[v] + promised[o][v]]
               /\ promised' = [promised EXCEPT ![o] = Nothing]
               /\ UNCHANGED sent

Send(o) == /\ sent'[o] \in [Variants -> Nat]
           /\ sent' = [sent EXCEPT ![o] = sent'[o]]
           /\ \A v \in Variants :
                /\ sent[o][v] <= sent'[o][v]
                /\ sent'[o][v] - sent[o][v] <= promised[o][v]
           /\ promised' = [promised EXCEPT ![o] =
                [v \in Variants |-> promised[o][v] - (sent'[o][v] - sent[o][v])]]
           /\ UNCHANGED free

Next == Restock \/ \E o \in Orders : Promise(o) \/ GiveBack(o) \/ Send(o)
Spec == Init /\ [][Next]_vars
===============================================================================
