------------------------------- MODULE Inventory -------------------------------
(***************************************************************************)
(* Stock and its reservations, from the checkout to the last shipment: the *)
(* reservation of an order's lines over the locations that have them, the  *)
(* commitment, release and expiry of the holds, staff adjustments, partial *)
(* dispatches that split holds, and delivery.                              *)
(*                                                                         *)
(* Each action is one transaction: all of them lock the order row first    *)
(* (adjustments and checkouts have none yet) and every stock row before    *)
(* they read it, so they are serialised on what they share.                *)
(*                                                                         *)
(* Rows of inventory_reservations of one order, stock row and status are   *)
(* represented by the sum of their quantities.                             *)
(***************************************************************************)
EXTENDS Integers, FiniteSets, Functions

CONSTANTS Orders, Variants,
          Locations,    \* in the order of the ids of their stock rows
          Shipments,    \* shipment identifiers (bounds the dispatches)
          MaxQuantity,  \* units per order line: 20 in the code
          MaxStock,     \* bound: units on hand per stock row
          SafetyStock   \* inventory_items.safety_stock

ASSUME LocationsAssumption == Locations \subseteq Nat
ASSUME QuantityAssumption == /\ MaxQuantity \in Nat \ {0} /\ MaxStock \in Nat
                             /\ SafetyStock \in Nat
ASSUME FiniteAssumption == /\ IsFiniteSet(Orders) /\ IsFiniteSet(Variants)
                           /\ IsFiniteSet(Locations) /\ IsFiniteSet(Shipments)

VARIABLES onHand, reserved,  \* inventory_items
          moved,             \* sum of the row's stock_movements
          hold,              \* inventory_reservations: units per status
          status, lines,     \* orders.status, order_items.quantity
          shipment,          \* shipments with their shipment_items
          fulfillment        \* fulfillments.status

stockVars == <<onHand, reserved, moved>>
vars == <<stockVars, hold, status, lines, shipment, fulfillment>>

-------------------------------------------------------------------------------
Items == Variants \X Locations
HoldStatus == {"held", "committed", "released", "expired", "consumed"}
OrderStatus == {"absent", "pending_payment", "expired", "confirmed", "allocated",
                "partially_fulfilled", "fulfilled", "delivered", "cancelled"}
Lines == [Variants -> 0..MaxQuantity]
NoLines == [v \in Variants |-> 0]
NoShipment == [status |-> "absent"]
Shipment == [status: {"dispatched", "delivered"}, order: Orders, lines: Lines \ {NoLines}]

TypeOK ==
  /\ onHand \in [Items -> Nat] /\ reserved \in [Items -> Nat] /\ moved \in [Items -> Int]
  /\ hold \in [Orders -> [Items -> [HoldStatus -> 0..MaxQuantity]]]
  /\ status \in [Orders -> OrderStatus]
  /\ lines \in [Orders -> Lines]
  /\ shipment \in [Shipments -> {NoShipment} \cup Shipment]
  /\ fulfillment \in [Orders -> {"absent", "allocated", "delivered", "cancelled"}]

Init ==
  /\ onHand = [i \in Items |-> SafetyStock] /\ moved = onHand
  /\ reserved = [i \in Items |-> 0]
  /\ hold = [o \in Orders |-> [i \in Items |-> [s \in HoldStatus |-> 0]]]
  /\ status = [o \in Orders |-> "absent"]
  /\ lines = [o \in Orders |-> NoLines]
  /\ shipment = [s \in Shipments |-> NoShipment]
  /\ fulfillment = [o \in Orders |-> "absent"]

-------------------------------------------------------------------------------
(***************************************************************************)
(* Stock                                                                   *)
(***************************************************************************)
Least(m, n) == IF m < n THEN m ELSE n

\* q units of variant v out of room[i] units per stock row, rows in order of
\* their id, each giving what it can.
Upto(room, i) == SumFunctionOnSet(room, {j \in Items : j[1] = i[1] /\ j[2] <= i[2]})
Taken(q, room) == [i \in Items |-> Least(q[i[1]], Upto(room, i))
                                     - Least(q[i[1]], Upto(room, i) - room[i])]
\* Slip: a shortage is not refused.
SlipAlwaysCovered(q, room) == TRUE
Covered(q, room) == \A v \in Variants :
  q[v] <= SumFunctionOnSet(room, {i \in Items : i[1] = v})

available == [i \in Items |-> onHand[i] - reserved[i] - SafetyStock]

Total(f, S) == SumFunctionOnSet(f, S)
Shift(h, from, to, n) == [h EXCEPT ![from] = @ - n, ![to] = @ + n]

\* adjust_stock: a delivery, a write-off or a correction by the staff.
\* Slip: nothing is looked at, or only the units on the shelf.
SlipAnyAmount(i, n) == TRUE
SlipShelfOnly(i, n) == onHand[i] + n >= 0
MayAdjust(i, n) == available[i] + n >= 0
AdjustStock(i, n) ==
  /\ MayAdjust(i, n) /\ onHand[i] + n <= MaxStock
  /\ onHand' = [onHand EXCEPT ![i] = @ + n]
  /\ moved' = [moved EXCEPT ![i] = @ + n]
  /\ UNCHANGED <<reserved, hold, status, lines, shipment, fulfillment>>

\* submit_checkout: reserve() for every line, all or nothing; with cash on
\* delivery the holds are committed at once.
Reserve(o, q, first) == LET taken == Taken(q, available) IN
  /\ status[o] = "absent"
  /\ Covered(q, available)
  /\ reserved' = [i \in Items |-> reserved[i] + taken[i]]
  /\ hold' = [hold EXCEPT ![o] = [i \in Items |->
       [@[i] EXCEPT ![IF first = "confirmed" THEN "committed" ELSE "held"] = taken[i]]]]
  /\ status' = [status EXCEPT ![o] = first]
  /\ lines' = [lines EXCEPT ![o] = q]
  /\ UNCHANGED <<onHand, moved, shipment, fulfillment>>

\* commit_reservations, on a capture in time.
Commit(o) ==
  /\ status[o] = "pending_payment"
  /\ hold' = [hold EXCEPT ![o] = [i \in Items |-> Shift(@[i], "held", "committed", @[i].held)]]
  /\ status' = [status EXCEPT ![o] = "confirmed"]
  /\ UNCHANGED <<stockVars, lines, shipment, fulfillment>>

Releasable == {"held", "committed"}
\* release: the units of the held and committed holds go back.
Release(o, to) ==
  LET back == [i \in Items |-> Total(hold[o][i], Releasable)] IN
  /\ reserved' = [i \in Items |-> reserved[i] - back[i]]
  /\ hold' = [hold EXCEPT ![o] = [i \in Items |-> [s \in HoldStatus |->
       CASE s \in Releasable -> 0 [] s = to -> @[i][s] + back[i] [] OTHER -> @[i][s]]]]
  /\ UNCHANGED <<onHand, moved>>

\* sweep_expired, order by order.
Expire(o) ==
  /\ status[o] = "pending_payment"
  /\ Release(o, "expired")
  /\ status' = [status EXCEPT ![o] = "expired"]
  /\ UNCHANGED <<lines, shipment, fulfillment>>

-------------------------------------------------------------------------------
(***************************************************************************)
(* Orders and shipments                                                    *)
(***************************************************************************)
\* order_action "allocated".
Allocate(o) ==
  /\ status[o] = "confirmed"
  /\ status' = [status EXCEPT ![o] = "allocated"]
  /\ fulfillment' = [fulfillment EXCEPT ![o] = "allocated"]
  /\ UNCHANGED <<stockVars, hold, lines, shipment>>

\* order_action "cancelled" by the staff, and cancel_order by the shopper, who
\* alone cancels the fulfillment too.
\* Slip: a partly shipped order can be cancelled.
SlipAlsoShipped == {"confirmed", "allocated", "partially_fulfilled"}
Cancellable == {"confirmed", "allocated"}
Cancel(o, shopper) ==
  /\ status[o] \in Cancellable
  /\ Release(o, "released")
  /\ status' = [status EXCEPT ![o] = "cancelled"]
  /\ fulfillment' = [fulfillment EXCEPT ![o] =
       IF shopper /\ @ # "absent" THEN "cancelled" ELSE @]
  /\ UNCHANGED <<lines, shipment>>

Of(o) == {s \in Shipments : shipment[s] # NoShipment /\ shipment[s].order = o}
ShippedOf(o, v) == Total([s \in Of(o) |-> shipment[s].lines[v]], Of(o))
Shipped(o) == [v \in Variants |-> ShippedOf(o, v)]

WithinOrder(o, q, v) == q[v] + ShippedOf(o, v) <= lines[o][v]
\* Slip: the shipped units stay reserved.
SlipStillReserved(taken) == reserved
ReservedLess(taken) == [i \in Items |-> reserved[i] - taken[i]]

\* dispatch: the shipped units leave the committed holds and the stock; the
\* order is fulfilled once everything was shipped.
Dispatch(o, s, q) ==
  LET committed == [i \in Items |-> hold[o][i].committed]
      taken == Taken(q, committed) IN
  /\ status[o] \in {"allocated", "partially_fulfilled"}
  /\ shipment[s] = NoShipment /\ q # NoLines
  /\ \A v \in Variants : WithinOrder(o, q, v)
  /\ Covered(q, committed)
  /\ onHand' = [i \in Items |-> onHand[i] - taken[i]]
  /\ moved' = [i \in Items |-> moved[i] - taken[i]]
  /\ reserved' = ReservedLess(taken)
  /\ hold' = [hold EXCEPT ![o] = [i \in Items |-> Shift(@[i], "committed", "consumed", taken[i])]]
  /\ shipment' = [shipment EXCEPT ![s] = [status |-> "dispatched", order |-> o, lines |-> q]]
  /\ status' = [status EXCEPT ![o] =
       IF \A v \in Variants : ShippedOf(o, v) + q[v] = lines[o][v]
         THEN "fulfilled" ELSE "partially_fulfilled"]
  /\ UNCHANGED <<lines, fulfillment>>

\* Slip: the first delivery of a fulfilled order delivers it.
SlipOneIsEnough(s) == {}
OtherPending(s) == {t \in Of(shipment[s].order) : t # s /\ shipment[t].status # "delivered"}
\* delivered: also the order, when nothing else is on its way.
Deliver(s) == LET o == shipment[s].order
                  done == OtherPending(s) = {} /\ status[o] = "fulfilled" IN
  /\ shipment[s] # NoShipment
  /\ shipment' = [shipment EXCEPT ![s].status = "delivered"]
  /\ status' = [status EXCEPT ![o] = IF done THEN "delivered" ELSE @]
  /\ fulfillment' = [fulfillment EXCEPT ![o] = IF done THEN "delivered" ELSE @]
  /\ UNCHANGED <<stockVars, hold, lines>>

Next ==
  \/ \E i \in Items, n \in -MaxStock..MaxStock : AdjustStock(i, n)
  \/ \E o \in Orders, q \in Lines \ {NoLines}, first \in {"pending_payment", "confirmed"} :
       Reserve(o, q, first)
  \/ \E o \in Orders : Commit(o) \/ Expire(o) \/ Allocate(o)
  \/ \E o \in Orders, shopper \in BOOLEAN : Cancel(o, shopper)
  \/ \E o \in Orders, s \in Shipments, q \in Lines : Dispatch(o, s, q)
  \/ \E s \in Shipments : Deliver(s)

Spec == Init /\ [][Next]_vars

-------------------------------------------------------------------------------
(***************************************************************************)
(* Properties                                                              *)
(***************************************************************************)
Active(o, i) == Total(hold[o][i], {"held", "committed"})
OfVariant(v) == {i \in Items : i[1] = v}

\* Nothing is sold twice, at no location: what is reserved and the safety
\* stock are on the shelf, and the table's stock_nonnegative constraint never
\* turns a transaction away.
NoOversell == \A i \in Items : reserved[i] >= 0 /\ onHand[i] >= reserved[i] + SafetyStock

\* The reserved column is exactly what the orders hold, and the stock on hand
\* is exactly the sum of its movements, after any split, release and dispatch.
StockIsAccounted == \A i \in Items :
  /\ reserved[i] = Total([o \in Orders |-> Active(o, i)], Orders)
  /\ onHand[i] = moved[i]

\* A paid order can be shipped to the last unit: its committed holds are what
\* it was not yet sent, so no dispatch within the order ends in a
\* reservation_shortfall.  An order that is over keeps no stock from the others, and
\* one that was cancelled or expired was sent nothing.
CommittedCoversUnshipped == \A o \in Orders :
  /\ status[o] \in {"confirmed", "allocated", "partially_fulfilled"} => \A v \in Variants :
       Total([i \in Items |-> hold[o][i].committed], OfVariant(v)) + ShippedOf(o, v) = lines[o][v]
  /\ status[o] \in {"expired", "cancelled", "fulfilled", "delivered"} =>
       \A i \in Items : Active(o, i) = 0
  /\ status[o] \in {"expired", "cancelled"} => Of(o) = {}

\* An order is delivered exactly when everything was shipped and every shipment
\* has arrived, in whatever order they arrive: none stays behind in "fulfilled".
DeliveredMeansAllArrived == \A o \in Orders :
  LET complete == status[o] # "absent" /\ Shipped(o) = lines[o]
      arrived == \A s \in Of(o) : shipment[s].status = "delivered" IN
  /\ status[o] = "delivered" <=> complete /\ arrived
  /\ status[o] = "fulfilled" <=> complete /\ ~arrived

\* Locations, rows and statuses are invisible to a shopper: the stock behaves
\* like one pool per variant.
Pool == INSTANCE StockPool WITH
  free <- [v \in Variants |-> Total(available, OfVariant(v))],
  promised <- [o \in Orders |-> [v \in Variants |->
                Total([i \in Items |-> Active(o, i)], OfVariant(v))]],
  sent <- [o \in Orders |-> Shipped(o)]
PoolSpec == Pool!Spec
===============================================================================
