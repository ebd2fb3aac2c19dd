---------------------------- MODULE InventoryProofs ----------------------------
(***************************************************************************)
(* The stock is never oversold and always accounted for, and a paid order  *)
(* can be shipped to the last unit, for every number of orders, variants,  *)
(* locations and shipments and every stock level.  Its last section is     *)
(* about the row locks that make each of Inventory's actions one step.     *)
(***************************************************************************)
EXTENDS Inventory, WaitCircles, Sequences, SumTheorems

-------------------------------------------------------------------------------
(***************************************************************************)
(* Taking units from several locations                                     *)
(***************************************************************************)
LEMMA ItemsFinite == IsFiniteSet(Items) /\ \A v : IsFiniteSet(OfVariant(v))
<1>1. IsFiniteSet(Items)  BY FiniteAssumption, FS_Product DEF Items
<1>. QED  BY <1>1, FS_Subset DEF OfVariant

\* The stock row with the largest identifier.
LEMMA LastRow ==
  ASSUME NEW S \in SUBSET Items, S # {}
  PROVE  \E m \in S : \A j \in S : j[2] <= m[2]
<1>. DEFINE Bad == {s \in SUBSET S : s # {} /\ ~ \E m \in s : \A j \in s : j[2] <= m[2]}
<1>1. SUFFICES ASSUME Bad # {} PROVE FALSE  OBVIOUS
<1>2. PICK b \in Bad : \A s \in Bad : s \subseteq b => s = b
  <2>1. Bad \in SUBSET (SUBSET S)  OBVIOUS
  <2>2. IsFiniteSet(S)  BY ItemsFinite, FS_Subset
  <2>. HIDE DEF Bad
  <2>. QED  BY <1>1, <2>1, <2>2, SmallestSet
<1>3. PICK x \in b : TRUE  BY <1>2
<1>4. b \in SUBSET S /\ \A j \in b : j[2] \in Nat
  BY LocationsAssumption DEF Items
<1>5. CASE b = {x}  BY <1>4, <1>5
<1>6. CASE b # {x}
  <2>1. b \ {x} # {} /\ b \ {x} # b /\ b \ {x} \notin Bad  BY <1>2, <1>3, <1>6
  <2>2. PICK y \in b \ {x} : \A j \in b \ {x} : j[2] <= y[2]  BY <1>4, <2>1
  <2>3. CASE x[2] <= y[2]
    <3>1. \A j \in b : j[2] <= y[2]  BY <2>2, <2>3
    <3>. QED  BY <2>2, <3>1
  <2>4. CASE ~(x[2] <= y[2])
    <3>1. \A j \in b : j[2] <= x[2]  BY <1>4, <2>2, <2>4
    <3>. QED  BY <1>3, <3>1
  <2>. QED  BY <2>3, <2>4
<1>. QED  BY <1>5, <1>6

\* Taken and Upto of the rows of S only.
UptoIn(S, room, i) == SumFunctionOnSet(room, {j \in S : j[2] <= i[2]})
TakenIn(S, n, room) == [i \in Items |-> Least(n, UptoIn(S, room, i))
                                          - Least(n, UptoIn(S, room, i) - room[i])]

\* Rows that each give what they can give, together, what is asked for or all.
LEMMA TakenInSum ==
  ASSUME NEW v, NEW n \in Nat, NEW room \in [Items -> Nat]
  PROVE  \A S \in SUBSET OfVariant(v) :
           SumFunctionOnSet(TakenIn(S, n, room), S) = Least(n, SumFunctionOnSet(room, S))
<1>. DEFINE Ok(S) ==
       SumFunctionOnSet(TakenIn(S, n, room), S) = Least(n, SumFunctionOnSet(room, S))
            Bad == {s \in SUBSET OfVariant(v) : ~Ok(s)}
<1>1. SUFFICES ASSUME Bad # {} PROVE FALSE  OBVIOUS
<1>2. PICK b \in Bad : \A s \in Bad : s \subseteq b => s = b
  <2>1. Bad \in SUBSET (SUBSET OfVariant(v))  OBVIOUS
  <2>2. IsFiniteSet(OfVariant(v))  BY ItemsFinite
  <2>. HIDE DEF Bad
  <2>. QED  BY <1>1, <2>1, <2>2, SmallestSet
<1>3. b \in SUBSET OfVariant(v) /\ b \in SUBSET Items /\ IsFiniteSet(b) /\ ~Ok(b)
  <2>1. b \in SUBSET OfVariant(v) /\ ~Ok(b)  BY <1>2
  <2>2. IsFiniteSet(b)  BY <2>1, ItemsFinite, FS_Subset
  <2>. QED  BY <2>1, <2>2 DEF OfVariant
<1>. HIDE DEF Bad
<1>4. b # {}
  <2>1. SumFunctionOnSet(room, {}) = 0 /\ SumFunctionOnSet(TakenIn({}, n, room), {}) = 0
    BY SumEmpty
  <2>2. Ok({})  BY <2>1 DEF Least
  <2>. HIDE DEF Ok
  <2>. QED  BY <1>3, <2>2
<1>5. PICK m \in b : \A j \in b : j[2] <= m[2]  BY <1>3, <1>4, LastRow
<1>. DEFINE c == b \ {m}
            f == TakenIn(b, n, room)
            g == TakenIn(c, n, room)
<1>6. IsFiniteSet(c) /\ c \in SUBSET OfVariant(v) /\ c \in SUBSET Items
  BY <1>3, FS_RemoveElement
<1>7. Ok(c)
  <2>1. c \subseteq b /\ c # b  BY <1>5
  <2>. HIDE DEF c, Ok
  <2>. QED  BY <1>2, <1>6, <2>1 DEF Bad
<1>8. \A i \in c : UptoIn(b, room, i) = UptoIn(c, room, i)
  <2>1. ASSUME NEW i \in c PROVE {j \in b : j[2] <= i[2]} = {j \in c : j[2] <= i[2]}
    <3>1. i[2] \in Nat /\ m[2] \in Nat /\ i[2] <= m[2]
      BY <1>3, <1>5, LocationsAssumption DEF Items
    <3>2. i[2] # m[2]
      BY <1>3, <1>5 DEF OfVariant, Items
    <3>3. ~(m[2] <= i[2])  BY <3>1, <3>2
    <3>. QED  BY <3>3
  <2>. QED  BY <2>1 DEF UptoIn
<1>9. UptoIn(b, room, m) = SumFunctionOnSet(room, b)
  <2>1. {j \in b : j[2] <= m[2]} = b  BY <1>5
  <2>. QED  BY <2>1 DEF UptoIn
<1>10. \A x \in b : room[x] \in Nat  BY <1>3
<1>11. \A S \in SUBSET b : SumFunctionOnSet(room, S) \in Nat
  <2>1. ASSUME NEW S \in SUBSET b PROVE SumFunctionOnSet(room, S) \in Nat
    <3>1. IsFiniteSet(S)  BY <1>3, FS_Subset
    <3>. QED  BY <1>10, <3>1, SumPart
  <2>. QED  BY <2>1
<1>12. \A i \in b : UptoIn(b, room, i) \in Nat
  <2>1. \A i : {j \in b : j[2] <= i[2]} \in SUBSET b  OBVIOUS
  <2>. QED  BY <1>11, <2>1 DEF UptoIn
<1>13. \A i \in b : f[i] \in Int
  BY <1>3, <1>10, <1>12 DEF TakenIn, Least
<1>14. \A i \in c : f[i] = g[i]  BY <1>6, <1>8 DEF TakenIn
<1>15. f[m] = Least(n, SumFunctionOnSet(room, b)) - Least(n, SumFunctionOnSet(room, b) - room[m])
  BY <1>3, <1>9 DEF TakenIn
<1>. HIDE DEF f, g
<1>16. SumFunctionOnSet(f, b) = f[m] + SumFunctionOnSet(f, c)  BY <1>3, <1>13, SumRemove
<1>17. SumFunctionOnSet(f, c) = SumFunctionOnSet(g, c)  BY <1>6, <1>14, SumSame
<1>18. SumFunctionOnSet(room, b) = room[m] + SumFunctionOnSet(room, c)
  BY <1>3, <1>10, SumRemove
<1>19. /\ SumFunctionOnSet(room, b) \in Nat /\ room[m] \in Nat
       /\ SumFunctionOnSet(room, c) \in Nat
  <2>1. b \in SUBSET b /\ c \in SUBSET b  OBVIOUS
  <2>. QED  BY <1>10, <1>11, <2>1
<1>20. SumFunctionOnSet(g, c) = Least(n, SumFunctionOnSet(room, c))  BY <1>7 DEF g
<1>21. SumFunctionOnSet(room, b) - room[m] = SumFunctionOnSet(room, c)  BY <1>18, <1>19
<1>22. SumFunctionOnSet(f, b) = Least(n, SumFunctionOnSet(room, b))
  <2>. HIDE DEF c
  <2>1. f[m] + SumFunctionOnSet(g, c) = Least(n, SumFunctionOnSet(room, b))
    BY <1>15, <1>19, <1>20, <1>21 DEF Least
  <2>. QED  BY <1>16, <1>17, <2>1
<1>. QED  BY <1>3, <1>22 DEF f

\* Taken gives at no row more than the row has, nor more than is asked for, and
\* where the rows cover what is asked for, exactly that.
LEMMA TakenOk ==
  ASSUME NEW q \in Lines, NEW room \in [Items -> Nat]
  PROVE  /\ Taken(q, room) \in [Items -> Nat]
         /\ \A i \in Items : /\ Taken(q, room)[i] <= room[i]
                             /\ Taken(q, room)[i] <= q[i[1]]
                             /\ q[i[1]] \in 0..MaxQuantity
         /\ Covered(q, room) => \A v \in Variants :
              SumFunctionOnSet(Taken(q, room), OfVariant(v)) = q[v]
<1>1. \A v \in Variants : q[v] \in Nat /\ q[v] <= MaxQuantity
  BY QuantityAssumption DEF Lines
<1>2. ASSUME NEW i \in Items
      PROVE  /\ Taken(q, room)[i] \in Nat /\ Taken(q, room)[i] <= room[i]
             /\ Taken(q, room)[i] <= q[i[1]]
  <2>. DEFINE S == {j \in Items : j[1] = i[1] /\ j[2] <= i[2]}
  <2>1. S \in SUBSET Items /\ IsFiniteSet(S)  BY ItemsFinite, FS_Subset
  <2>2. i \in S
    <3>1. i[2] \in Nat  BY LocationsAssumption DEF Items
    <3>2. i[2] <= i[2]  BY <3>1
    <3>. QED  BY <3>2
  <2>3. \A x \in S : room[x] \in Nat  BY <2>1
  <2>. HIDE DEF S
  <2>4. SumFunctionOnSet(room, S) \in Nat /\ room[i] <= SumFunctionOnSet(room, S)
    BY <2>1, <2>2, <2>3, SumPart
  <2>5. Upto(room, i) \in Nat /\ room[i] <= Upto(room, i) /\ room[i] \in Nat
    BY <2>2, <2>3, <2>4 DEF Upto, S
  <2>6. q[i[1]] \in Nat  BY <1>1 DEF Items
  <2>7. Taken(q, room)[i] = Least(q[i[1]], Upto(room, i))
                              - Least(q[i[1]], Upto(room, i) - room[i])
    BY DEF Taken
  <2>. QED  BY <2>5, <2>6, <2>7 DEF Least
<1>3. ASSUME Covered(q, room), NEW v \in Variants
      PROVE  SumFunctionOnSet(Taken(q, room), OfVariant(v)) = q[v]
  <2>. DEFINE S == OfVariant(v)
              f == Taken(q, room)
              g == TakenIn(S, q[v], room)
  <2>1. S \in SUBSET Items /\ IsFiniteSet(S) /\ S \in SUBSET S
    BY ItemsFinite DEF OfVariant
  <2>2. SumFunctionOnSet(g, S) = Least(q[v], SumFunctionOnSet(room, S))
    <3>. HIDE DEF S
    <3>. QED  BY <1>1, <2>1, TakenInSum DEF S
  <2>3. \A i \in S : f[i] = g[i]
    <3>1. ASSUME NEW i \in S
          PROVE  i[1] = v /\ {j \in Items : j[1] = i[1] /\ j[2] <= i[2]} = {j \in S : j[2] <= i[2]}
      BY DEF OfVariant
    <3>2. ASSUME NEW i \in S PROVE i[1] = v /\ Upto(room, i) = UptoIn(S, room, i)
      BY <3>1 DEF Upto, UptoIn
    <3>. QED  BY <2>1, <3>2 DEF Taken, TakenIn
  <2>. HIDE DEF f, g
  <2>4. SumFunctionOnSet(f, S) = SumFunctionOnSet(g, S)  BY <2>1, <2>3, SumSame
  <2>5. q[v] <= SumFunctionOnSet(room, S)  BY <1>3 DEF Covered, OfVariant
  <2>6. SumFunctionOnSet(room, S) \in Nat /\ q[v] \in Nat
    <3>1. \A i \in S : room[i] \in Nat  BY <2>1
    <3>. QED  BY <1>1, <2>1, <3>1, SumPart
  <2>7. SumFunctionOnSet(f, S) = Least(q[v], SumFunctionOnSet(room, S))  BY <2>2, <2>4
  <2>. HIDE DEF S
  <2>8. SumFunctionOnSet(f, S) = q[v]  BY <2>5, <2>6, <2>7 DEF Least
  <2>. QED  BY <2>8 DEF f, S
<1>4. Taken(q, room) \in [Items -> Nat]  BY <1>2 DEF Taken
<1>5. \A i \in Items : q[i[1]] \in 0..MaxQuantity  BY DEF Lines, Items
<1>. QED  BY <1>2, <1>3, <1>4, <1>5

-------------------------------------------------------------------------------
(***************************************************************************)
(* The holds of one order                                                  *)
(***************************************************************************)
HoldRow == [HoldStatus -> Nat]
HoldRows == [Items -> HoldRow]
\* The units of a row that the order may still be sent, and all that it had.
Live(h, i) == h[i].held + h[i].committed
Ever(h, i) == h[i].held + h[i].committed + h[i].released + h[i].expired + h[i].consumed

Held(h, v) == SumFunctionOnSet([i \in Items |-> h[i].held], OfVariant(v))
Committed(h, v) == SumFunctionOnSet([i \in Items |-> h[i].committed], OfVariant(v))

LEMMA RowFields ==
  ASSUME NEW r \in HoldRow
  PROVE  /\ r.held \in Nat /\ r.committed \in Nat /\ r.released \in Nat
         /\ r.expired \in Nat /\ r.consumed \in Nat
BY DEF HoldRow, HoldStatus

\* The sum over the two statuses that can be released.
LEMMA LiveTotal ==
  ASSUME NEW r \in HoldRow
  PROVE  Total(r, {"held", "committed"}) = r.held + r.committed
<1>. DEFINE S == {"held", "committed"}
<1>1. IsFiniteSet(S) /\ S \ {"held"} = {"committed"} /\ {"committed"} \ {"committed"} = {}
  <2>1. IsFiniteSet({"committed"} \cup {"held"})
    BY FS_Singleton, FS_AddElement
  <2>2. S = {"committed"} \cup {"held"}  OBVIOUS
  <2>. QED  BY <2>1, <2>2
<1>2. IsFiniteSet({"committed"})  BY FS_Singleton
<1>3. \A x \in S : r[x] \in Int  BY DEF HoldRow, HoldStatus
<1>4. r["held"] = r.held /\ r["committed"] = r.committed  OBVIOUS
<1>5. SumFunctionOnSet(r, S) = r["held"] + SumFunctionOnSet(r, {"committed"})
  <2>. HIDE DEF S
  <2>1. "held" \in S  BY DEF S
  <2>. QED  BY <1>1, <1>3, <2>1, SumRemove
<1>6. SumFunctionOnSet(r, {"committed"}) = r["committed"] + SumFunctionOnSet(r, {})
  <2>1. \A x \in {"committed"} : r[x] \in Int  BY <1>3
  <2>. QED  BY <1>1, <1>2, <2>1, SumRemove
<1>7. SumFunctionOnSet(r, {}) = 0  BY SumEmpty
<1>. QED  BY <1>4, <1>5, <1>6, <1>7, RowFields DEF Total

\* The sums over the rows of a variant: what they are made of, and what a sum
\* of zero means.
LEMMA RowSums ==
  ASSUME NEW h \in HoldRows, NEW v \in Variants
  PROVE  /\ Held(h, v) \in Nat /\ Committed(h, v) \in Nat
         /\ \A i \in OfVariant(v) : /\ h[i].held <= Held(h, v)
                                    /\ h[i].committed <= Committed(h, v)
<1>. DEFINE S == OfVariant(v)
            f == [i \in Items |-> h[i].held]
            g == [i \in Items |-> h[i].committed]
<1>1. S \in SUBSET Items /\ IsFiniteSet(S)  BY ItemsFinite DEF OfVariant
<1>2. \A i \in S : f[i] \in Nat /\ g[i] \in Nat  BY <1>1, RowFields DEF HoldRows
<1>3. /\ SumFunctionOnSet(f, S) \in Nat /\ \A i \in S : f[i] <= SumFunctionOnSet(f, S)
      /\ SumFunctionOnSet(g, S) \in Nat /\ \A i \in S : g[i] <= SumFunctionOnSet(g, S)
  <2>. HIDE DEF f, g, S
  <2>. QED  BY <1>1, <1>2, SumPart
<1>. QED  BY <1>1, <1>3 DEF Held, Committed

LEMMA ShiftRow ==
  ASSUME NEW r \in HoldRow, NEW from \in HoldStatus, NEW to \in HoldStatus, from # to,
         NEW n \in Nat, n <= r[from]
  PROVE  /\ Shift(r, from, to, n) \in HoldRow
         /\ \A s \in HoldStatus : Shift(r, from, to, n)[s] =
              IF s = from THEN r[from] - n ELSE IF s = to THEN r[to] + n ELSE r[s]
<1>1. \A s \in HoldStatus : r[s] \in Nat  BY DEF HoldRow
<1>2. \A s \in HoldStatus : Shift(r, from, to, n)[s] =
        IF s = from THEN r[from] - n ELSE IF s = to THEN r[to] + n ELSE r[s]
  BY DEF Shift, HoldRow
<1>3. \A s \in HoldStatus : Shift(r, from, to, n)[s] \in Nat
  <2>1. r[from] - n \in Nat /\ r[to] + n \in Nat  BY <1>1
  <2>. QED  BY <1>1, <1>2, <2>1
<1>4. Shift(r, from, to, n) = [s \in HoldStatus |-> Shift(r, from, to, n)[s]]
  BY DEF Shift, HoldRow
<1>. QED  BY <1>2, <1>3, <1>4 DEF HoldRow

\* What is known of an order with holds h, status st and lines ln that was sent
\* the units sent in the shipments of, of which pending have not arrived.
Quiet == {"absent", "pending_payment", "confirmed", "allocated", "expired", "cancelled"}
Open == {"confirmed", "allocated", "partially_fulfilled"}
Over == {"expired", "cancelled", "fulfilled", "delivered"}
OrderOk(h, st, ln, sent, of, pending) ==
  /\ h \in HoldRows /\ st \in OrderStatus /\ ln \in Lines
  /\ \A i \in Items : Ever(h, i) <= MaxQuantity
  /\ st = "absent" => ln = NoLines /\ \A i \in Items : Ever(h, i) = 0
  /\ st # "absent" => ln # NoLines
  /\ st \in Quiet => of = {}
  /\ st = "pending_payment" => /\ \A i \in Items : h[i].committed = 0
                               /\ \A v \in Variants : Held(h, v) = ln[v]
  /\ st \in Open => /\ \A i \in Items : h[i].held = 0
                    /\ \A v \in Variants : Committed(h, v) + sent[v] = ln[v]
  /\ st = "partially_fulfilled" => sent # ln
  /\ st \in Over => \A i \in Items : Live(h, i) = 0
  /\ st \in {"fulfilled", "delivered"} => sent = ln
  /\ st = "fulfilled" => pending # {}
  /\ st = "delivered" => pending = {}

\* The rows of an order after each operation; t: units of each row.
ReservedRows(h, first, t) == [i \in Items |->
  [h[i] EXCEPT ![IF first = "confirmed" THEN "committed" ELSE "held"] = t[i]]]
CommittedRows(h) == [i \in Items |-> Shift(h[i], "held", "committed", h[i].held)]
ReleasedRows(h, to) == [i \in Items |-> [s \in HoldStatus |->
  CASE s \in Releasable -> 0
    [] s = to -> h[i][s] + Total(h[i], Releasable)
    [] OTHER -> h[i][s]]]
ConsumedRows(h, t) == [i \in Items |-> Shift(h[i], "committed", "consumed", t[i])]

LEMMA NoRow ==
  ASSUME NEW h \in HoldRows, NEW i \in Items, Ever(h, i) = 0
  PROVE  /\ h[i].held = 0 /\ h[i].committed = 0 /\ h[i].released = 0
         /\ h[i].expired = 0 /\ h[i].consumed = 0
<1>1. /\ h[i].held \in Nat /\ h[i].committed \in Nat /\ h[i].released \in Nat
      /\ h[i].expired \in Nat /\ h[i].consumed \in Nat
  BY RowFields DEF HoldRows
<1>2. h[i].held + h[i].committed + h[i].released + h[i].expired + h[i].consumed = 0
  BY DEF Ever
<1>. DEFINE a == h[i].held
            b == h[i].committed
            c == h[i].released
            d == h[i].expired
            e == h[i].consumed
<1>3. a \in Nat /\ b \in Nat /\ c \in Nat /\ d \in Nat /\ e \in Nat /\ a + b + c + d + e = 0
  BY <1>1, <1>2
<1>. HIDE DEF a, b, c, d, e
<1>4. a = 0 /\ b = 0 /\ c = 0 /\ d = 0 /\ e = 0  BY <1>3
<1>. QED  BY <1>4 DEF a, b, c, d, e

\* The reservation of an order's lines.
LEMMA ReserveOrder ==
  ASSUME NEW h, NEW ln, OrderOk(h, "absent", ln, NoLines, {}, {}),
         NEW q \in Lines \ {NoLines}, NEW room \in [Items -> Nat], Covered(q, room),
         NEW first \in {"pending_payment", "confirmed"}, NEW k,
         k = ReservedRows(h, first, Taken(q, room))
  PROVE  /\ OrderOk(k, first, q, NoLines, {}, {})
         /\ \A i \in Items : Live(k, i) = Live(h, i) + Taken(q, room)[i]
<1>. DEFINE t == Taken(q, room)
<1>1. /\ t \in [Items -> Nat]
      /\ \A i \in Items : t[i] <= q[i[1]] /\ q[i[1]] \in 0..MaxQuantity
      /\ \A v \in Variants : SumFunctionOnSet(t, OfVariant(v)) = q[v]
  BY TakenOk
<1>. HIDE DEF t
<1>2. h \in HoldRows /\ \A i \in Items : Ever(h, i) = 0  BY DEF OrderOk
<1>3. ASSUME NEW i \in Items
      PROVE  /\ k[i] \in HoldRow /\ k[i].released = 0 /\ k[i].expired = 0 /\ k[i].consumed = 0
             /\ first = "confirmed" => k[i].committed = t[i] /\ k[i].held = 0
             /\ first = "pending_payment" => k[i].held = t[i] /\ k[i].committed = 0
             /\ Live(h, i) = 0
  <2>1. h[i] \in HoldRow /\ t[i] \in Nat  BY <1>1, <1>2 DEF HoldRows
  <2>2. /\ h[i].held = 0 /\ h[i].committed = 0 /\ h[i].released = 0
        /\ h[i].expired = 0 /\ h[i].consumed = 0
    BY <1>2, NoRow
  <2>3. CASE first = "confirmed"
    <3>1. k[i] = [h[i] EXCEPT !["committed"] = t[i]]  BY <2>3 DEF t, ReservedRows
    <3>. QED  BY <2>1, <2>2, <2>3, <3>1 DEF HoldRow, HoldStatus, Live
  <2>4. CASE first = "pending_payment"
    <3>1. k[i] = [h[i] EXCEPT !["held"] = t[i]]  BY <2>4 DEF t, ReservedRows
    <3>. QED  BY <2>1, <2>2, <2>4, <3>1 DEF HoldRow, HoldStatus, Live
  <2>. QED  BY <2>3, <2>4
<1>4. k \in HoldRows  BY <1>3 DEF HoldRows, ReservedRows
<1>5. \A i \in Items : Ever(k, i) <= MaxQuantity /\ Live(k, i) = Live(h, i) + t[i]
  <2>1. ASSUME NEW i \in Items
        PROVE  Ever(k, i) <= MaxQuantity /\ Live(k, i) = Live(h, i) + t[i]
    <3>1. t[i] \in Nat /\ t[i] <= MaxQuantity  BY <1>1, QuantityAssumption
    <3>. QED  BY <1>3, <3>1 DEF Ever, Live
  <2>. QED  BY <2>1
<1>6. ASSUME NEW v \in Variants
      PROVE  /\ first = "pending_payment" => Held(k, v) = q[v]
             /\ first = "confirmed" => Committed(k, v) = q[v]
  <2>. DEFINE a == [i \in Items |-> k[i].held]
              b == [i \in Items |-> k[i].committed]
              S == OfVariant(v)
  <2>1. IsFiniteSet(S) /\ S \subseteq Items  BY ItemsFinite DEF OfVariant
  <2>2. /\ first = "pending_payment" => \A i \in S : a[i] = t[i]
        /\ first = "confirmed" => \A i \in S : b[i] = t[i]
    BY <1>3, <2>1
  <2>3. SumFunctionOnSet(t, S) = q[v]  BY <1>1
  <2>. HIDE DEF a, b, S
  <2>4. /\ first = "pending_payment" => SumFunctionOnSet(a, S) = SumFunctionOnSet(t, S)
        /\ first = "confirmed" => SumFunctionOnSet(b, S) = SumFunctionOnSet(t, S)
    BY <2>1, <2>2, SumSame
  <2>. QED  BY <2>3, <2>4 DEF Held, Committed, a, b, S
<1>7. \A v \in Variants : NoLines[v] = 0 /\ q[v] \in Nat
  BY QuantityAssumption DEF NoLines, Lines
<1>8. first = "confirmed" => \A v \in Variants : Committed(k, v) + NoLines[v] = q[v]
  BY <1>6, <1>7
<1>. QED  BY <1>3, <1>4, <1>5, <1>6, <1>8 DEF OrderOk, OrderStatus, Open, Over, Quiet, t

\* A capture in time: what was held is committed.
LEMMA CommitOrder ==
  ASSUME NEW h, NEW ln, OrderOk(h, "pending_payment", ln, NoLines, {}, {}), NEW k,
         k = CommittedRows(h)
  PROVE  /\ OrderOk(k, "confirmed", ln, NoLines, {}, {})
         /\ \A i \in Items : Live(k, i) = Live(h, i)
<1>1. h \in HoldRows /\ ln \in Lines /\ ln # NoLines  BY DEF OrderOk
<1>2. ASSUME NEW i \in Items
      PROVE  /\ k[i] \in HoldRow /\ k[i].held = 0 /\ k[i].committed = h[i].held
             /\ Ever(k, i) = Ever(h, i) /\ Live(k, i) = Live(h, i)
  <2>1. h[i] \in HoldRow /\ h[i].committed = 0  BY <1>1 DEF HoldRows, OrderOk
  <2>. DEFINE r == h[i]
  <2>2. r \in HoldRow  BY <2>1
  <2>3. k[i] = Shift(r, "held", "committed", r["held"])  BY DEF CommittedRows
  <2>4. r["held"] \in Nat /\ r["held"] <= r["held"]  BY <2>2 DEF HoldRow, HoldStatus
  <2>. HIDE DEF r
  <2>5. /\ k[i] \in HoldRow
        /\ \A s \in HoldStatus : k[i][s] =
             IF s = "held" THEN r["held"] - r["held"]
             ELSE IF s = "committed" THEN r["committed"] + r["held"] ELSE r[s]
    <3>1. "held" \in HoldStatus /\ "committed" \in HoldStatus  BY DEF HoldStatus
    <3>. QED  BY <2>2, <2>3, <2>4, <3>1, ShiftRow
  <2>6. /\ k[i].held = r["held"] - r["held"] /\ k[i].committed = r["committed"] + r["held"]
        /\ k[i].released = r["released"] /\ k[i].expired = r["expired"]
        /\ k[i].consumed = r["consumed"]
    BY <2>5 DEF HoldStatus
  <2>7. /\ r["held"] = h[i].held /\ r["committed"] = h[i].committed
        /\ r["released"] = h[i].released /\ r["expired"] = h[i].expired
        /\ r["consumed"] = h[i].consumed
    BY DEF r
  <2>. QED  BY <2>1, <2>5, <2>6, <2>7, RowFields DEF Ever, Live
<1>3. k \in HoldRows  BY <1>2 DEF HoldRows, CommittedRows
<1>4. ASSUME NEW v \in Variants PROVE Committed(k, v) + NoLines[v] = ln[v]
  <2>1. [i \in Items |-> k[i].committed] = [i \in Items |-> h[i].held]  BY <1>2
  <2>2. Committed(k, v) = Held(h, v)  BY <2>1 DEF Committed, Held
  <2>3. Held(h, v) = ln[v] /\ ln[v] \in Nat /\ NoLines[v] = 0
    BY <1>1, QuantityAssumption DEF OrderOk, Lines, NoLines
  <2>. QED  BY <2>2, <2>3
<1>. QED  BY <1>1, <1>2, <1>3, <1>4 DEF OrderOk, OrderStatus, Open, Over, Quiet

\* The release of what an order still holds.
LEMMA ReleaseOrder ==
  ASSUME NEW h, NEW st, NEW ln, NEW sent, OrderOk(h, st, ln, sent, {}, {}), st # "absent",
         NEW to \in {"released", "expired"}, NEW over \in {"expired", "cancelled"}, NEW k,
         k = ReleasedRows(h, to)
  PROVE  /\ OrderOk(k, over, ln, sent, {}, {})
         /\ \A i \in Items : Live(k, i) = 0 /\ Total(h[i], Releasable) = Live(h, i)
<1>1. h \in HoldRows /\ ln \in Lines /\ ln # NoLines  BY DEF OrderOk
<1>2. ASSUME NEW i \in Items
      PROVE  /\ k[i] \in HoldRow /\ Live(k, i) = 0 /\ Ever(k, i) = Ever(h, i)
             /\ Total(h[i], Releasable) = Live(h, i)
  <2>. DEFINE r == h[i]
              n == Total(h[i], Releasable)
              t == k[i]
  <2>1. r \in HoldRow  BY <1>1 DEF HoldRows
  <2>2. n = r.held + r.committed  BY <2>1, LiveTotal DEF Releasable
  <2>3. /\ r.held \in Nat /\ r.committed \in Nat /\ r.released \in Nat
        /\ r.expired \in Nat /\ r.consumed \in Nat
    BY <2>1, RowFields
  <2>4. t = [s \in HoldStatus |->
              CASE s \in Releasable -> 0 [] s = to -> r[s] + n [] OTHER -> r[s]]
    BY DEF ReleasedRows
  <2>5. n = Live(h, i)  BY <2>2 DEF Live
  <2>6. Ever(h, i) = r.held + r.committed + r.released + r.expired + r.consumed
    BY DEF Ever
  <2>7. Live(k, i) = t.held + t.committed
        /\ Ever(k, i) = t.held + t.committed + t.released + t.expired + t.consumed
    BY DEF Live, Ever
  <2>. HIDE DEF r, n, t
  <2>8. /\ t.held = 0 /\ t.committed = 0 /\ t.consumed = r.consumed
        /\ to = "released" => t.released = r.released + n /\ t.expired = r.expired
        /\ to = "expired" => t.expired = r.expired + n /\ t.released = r.released
    BY <2>4 DEF HoldStatus, Releasable
  <2>9. n \in Nat  BY <2>2, <2>3
  <2>10. t \in HoldRow
    <3>1. \A s \in HoldStatus : r[s] \in Nat  BY <2>1 DEF HoldRow
    <3>2. \A s \in HoldStatus :
            (CASE s \in Releasable -> 0 [] s = to -> r[s] + n [] OTHER -> r[s]) \in Nat
      BY <2>9, <3>1
    <3>. QED  BY <2>4, <3>2 DEF HoldRow
  <2>11. Ever(k, i) = Ever(h, i)  BY <2>2, <2>3, <2>6, <2>7, <2>8
  <2>12. Live(k, i) = 0  BY <2>7, <2>8
  <2>. QED  BY <2>5, <2>10, <2>11, <2>12 DEF t, n
<1>3. k \in HoldRows  BY <1>2 DEF HoldRows, ReleasedRows
<1>4. \A i \in Items : Ever(k, i) <= MaxQuantity  BY <1>2 DEF OrderOk
<1>. QED  BY <1>1, <1>2, <1>3, <1>4 DEF OrderOk, OrderStatus, Open, Over, Quiet

DispatchEffect(h, k, t, over, ln, more, ships, way) ==
  /\ OrderOk(k, over, ln, more, ships, way)
  /\ \A i \in Items : Live(k, i) = Live(h, i) - t[i] /\ t[i] \in Nat /\ t[i] <= Live(h, i)

\* A dispatch of the units q, of which more are sent already.
LEMMA DispatchOrder ==
  ASSUME NEW h, NEW st, NEW ln, NEW sent \in [Variants -> Nat], NEW of, NEW pending,
         OrderOk(h, st, ln, sent, of, pending),
         st \in {"allocated", "partially_fulfilled"},
         NEW q \in Lines, NEW room, room = [i \in Items |-> h[i].committed], Covered(q, room),
         NEW k, k = ConsumedRows(h, Taken(q, room)),
         NEW more, more = [v \in Variants |-> sent[v] + q[v]],
         NEW over, over = IF more = ln THEN "fulfilled" ELSE "partially_fulfilled",
         NEW ships, NEW way, ships # {}, way # {}
  PROVE  DispatchEffect(h, k, Taken(q, room), over, ln, more, ships, way)
<1>. DEFINE t == Taken(q, room)
<1>1. h \in HoldRows /\ ln \in Lines /\ ln # NoLines /\ q \in [Variants -> Nat]
  BY QuantityAssumption DEF OrderOk, Lines
<1>2. room \in [Items -> Nat]  BY <1>1, RowFields DEF HoldRows
<1>3. /\ t \in [Items -> Nat]
      /\ \A i \in Items : t[i] <= room[i]
      /\ \A v \in Variants : SumFunctionOnSet(t, OfVariant(v)) = q[v]
  BY <1>2, TakenOk
<1>. HIDE DEF t
<1>4. ASSUME NEW i \in Items
      PROVE  /\ k[i] \in HoldRow /\ k[i].held = 0 /\ k[i].committed = h[i].committed - t[i]
             /\ Ever(k, i) = Ever(h, i) /\ Live(k, i) = Live(h, i) - t[i]
             /\ t[i] <= Live(h, i)
  <2>. DEFINE r == h[i]
              s == k[i]
  <2>1. r \in HoldRow /\ r.held = 0  BY <1>1 DEF HoldRows, OrderOk, Open
  <2>2. s = Shift(r, "committed", "consumed", t[i])  BY DEF t, ConsumedRows
  <2>3. t[i] \in Nat /\ t[i] <= r["committed"]  BY <1>3
  <2>4. /\ r.held \in Nat /\ r.committed \in Nat /\ r.released \in Nat
        /\ r.expired \in Nat /\ r.consumed \in Nat
    BY <2>1, RowFields
  <2>5. /\ Ever(h, i) = r.held + r.committed + r.released + r.expired + r.consumed
        /\ Live(h, i) = r.held + r.committed
    BY DEF Ever, Live
  <2>6. /\ Ever(k, i) = s.held + s.committed + s.released + s.expired + s.consumed
        /\ Live(k, i) = s.held + s.committed
    BY DEF Ever, Live
  <2>. HIDE DEF r, s
  <2>7. /\ s \in HoldRow
        /\ \A x \in HoldStatus : s[x] =
             IF x = "committed" THEN r["committed"] - t[i]
             ELSE IF x = "consumed" THEN r["consumed"] + t[i] ELSE r[x]
    <3>1. "consumed" \in HoldStatus /\ "committed" \in HoldStatus  BY DEF HoldStatus
    <3>. QED  BY <2>1, <2>2, <2>3, <3>1, ShiftRow
  <2>8. /\ s.held = r.held /\ s.committed = r.committed - t[i]
        /\ s.released = r.released /\ s.expired = r.expired /\ s.consumed = r.consumed + t[i]
    BY <2>7 DEF HoldStatus
  <2>9. /\ Ever(k, i) = Ever(h, i) /\ Live(k, i) = Live(h, i) - t[i]
        /\ t[i] <= Live(h, i)
    BY <2>3, <2>4, <2>5, <2>6, <2>8
  <2>. QED  BY <2>1, <2>7, <2>8, <2>9 DEF r, s
<1>5. k \in HoldRows  BY <1>4 DEF HoldRows, ConsumedRows
<1>6. ASSUME NEW v \in Variants PROVE Committed(k, v) + more[v] = ln[v]
  <2>. DEFINE a == [i \in Items |-> k[i].committed]
              b == [i \in Items |-> h[i].committed]
              S == OfVariant(v)
  <2>1. IsFiniteSet(S) /\ S \subseteq Items  BY ItemsFinite DEF OfVariant
  <2>2. \A i \in S : b[i] \in Nat /\ t[i] \in Nat /\ a[i] = b[i] - t[i]
    BY <1>2, <1>3, <1>4, <2>1
  <2>3. SumFunctionOnSet(t, S) = q[v]  BY <1>3
  <2>4. Committed(k, v) = SumFunctionOnSet(a, S) /\ Committed(h, v) = SumFunctionOnSet(b, S)
    BY DEF Committed
  <2>5. Committed(h, v) + sent[v] = ln[v]  BY DEF OrderOk, Open
  <2>. HIDE DEF a, b, S
  <2>6. \A i \in S : a[i] \in Int /\ t[i] \in Int /\ b[i] = a[i] + t[i]  BY <2>2
  <2>7. SumFunctionOnSet(b, S) = SumFunctionOnSet(a, S) + SumFunctionOnSet(t, S)
    BY <2>1, <2>6, SumPlus
  <2>8. SumFunctionOnSet(a, S) \in Int  BY <2>1, <2>6, SumInt
  <2>9. q[v] \in Nat /\ sent[v] \in Nat /\ more[v] = sent[v] + q[v]  BY <1>1
  <2>. QED  BY <2>3, <2>4, <2>5, <2>7, <2>8, <2>9
<1>7. \A i \in Items : Ever(k, i) <= MaxQuantity  BY <1>4 DEF OrderOk
<1>8. ASSUME more = ln, NEW i \in Items PROVE Live(k, i) = 0
  <2>1. PICK v \in Variants : i \in OfVariant(v)  BY DEF Items, OfVariant
  <2>2. ln[v] \in Nat  BY <1>1, QuantityAssumption DEF Lines
  <2>3. Committed(k, v) = 0
    <3>1. Committed(k, v) \in Nat  BY <1>5, RowSums
    <3>2. Committed(k, v) + ln[v] = ln[v]  BY <1>6, <1>8
    <3>. QED  BY <2>2, <3>1, <3>2
  <2>4. k[i].committed \in Nat /\ k[i].committed <= 0
    <3>1. k[i].committed <= Committed(k, v)  BY <1>5, <2>1, RowSums
    <3>. QED  BY <1>4, <2>3, <3>1, RowFields
  <2>5. k[i].committed = 0  BY <2>4
  <2>6. k[i].held = 0  BY <1>4
  <2>7. Live(k, i) = 0 + 0  BY <2>5, <2>6 DEF Live
  <2>. QED  BY <2>7
<1>9. more = ln => OrderOk(k, over, ln, more, ships, way)
  BY <1>1, <1>5, <1>7, <1>8 DEF OrderOk, OrderStatus, Open, Over, Quiet
<1>10. more # ln => OrderOk(k, over, ln, more, ships, way)
  BY <1>1, <1>4, <1>5, <1>6, <1>7 DEF OrderOk, OrderStatus, Open, Over, Quiet
<1>. QED  BY <1>3, <1>4, <1>9, <1>10 DEF t, DispatchEffect

-------------------------------------------------------------------------------
(***************************************************************************)
(* The shipments of an order                                               *)
(***************************************************************************)
ShipmentTable == [Shipments -> {NoShipment} \cup Shipment]
Ships(sh, o) == {s \in Shipments : sh[s] # NoShipment /\ sh[s].order = o}
Sent(sh, o) == [v \in Variants |->
                 SumFunctionOnSet([s \in Ships(sh, o) |-> sh[s].lines[v]], Ships(sh, o))]
OnTheWay(sh, o) == {s \in Ships(sh, o) : sh[s].status # "delivered"}

LEMMA ShippedIs ==
  ASSUME NEW o
  PROVE  /\ Of(o) = Ships(shipment, o) /\ Shipped(o) = Sent(shipment, o)
         /\ \A v \in Variants : ShippedOf(o, v) = Sent(shipment, o)[v]
<1>1. Of(o) = Ships(shipment, o)  BY DEF Of, Ships
<1>2. \A v \in Variants : ShippedOf(o, v) = Sent(shipment, o)[v]
  BY <1>1 DEF ShippedOf, Total, Sent
<1>3. Shipped(o) = Sent(shipment, o)  BY <1>1 DEF Shipped, ShippedOf, Total, Sent
<1>. QED  BY <1>1, <1>2, <1>3

LEMMA ShipmentRows ==
  ASSUME NEW sh \in ShipmentTable, NEW o
  PROVE  /\ Ships(sh, o) \in SUBSET Shipments /\ IsFiniteSet(Ships(sh, o))
         /\ \A s \in Ships(sh, o) : sh[s] \in Shipment
         /\ \A s \in Ships(sh, o), v \in Variants : sh[s].lines[v] \in Nat
<1>1. Ships(sh, o) \in SUBSET Shipments  BY DEF Ships
<1>2. \A s \in Ships(sh, o) : sh[s] \in Shipment  BY DEF Ships, ShipmentTable
<1>3. \A r \in Shipment, v \in Variants : r.lines[v] \in Nat
  BY QuantityAssumption DEF Shipment, Lines
<1>. QED  BY <1>1, <1>2, <1>3, FiniteAssumption, FS_Subset

LEMMA SentUnits ==
  ASSUME NEW sh \in ShipmentTable, NEW o
  PROVE  Sent(sh, o) \in [Variants -> Nat] /\ (Ships(sh, o) = {} => Sent(sh, o) = NoLines)
<1>1. ASSUME NEW v \in Variants
      PROVE  SumFunctionOnSet([s \in Ships(sh, o) |-> sh[s].lines[v]], Ships(sh, o)) \in Nat
  <2>. DEFINE S == Ships(sh, o)
              f == [s \in S |-> sh[s].lines[v]]
  <2>1. IsFiniteSet(S) /\ \A s \in S : f[s] \in Nat  BY ShipmentRows
  <2>. HIDE DEF f, S
  <2>2. SumFunctionOnSet(f, S) \in Nat  BY <2>1, SumPart
  <2>. QED  BY <2>2 DEF f, S
<1>2. ASSUME Ships(sh, o) = {}, NEW v \in Variants PROVE Sent(sh, o)[v] = 0
  BY <1>2, SumEmpty DEF Sent
<1>3. Ships(sh, o) = {} => Sent(sh, o) = NoLines  BY <1>2 DEF Sent, NoLines
<1>. QED  BY <1>1, <1>3 DEF Sent

SameShipments(sh, new, p) == /\ Ships(new, p) = Ships(sh, p) /\ Sent(new, p) = Sent(sh, p)
                             /\ OnTheWay(new, p) = OnTheWay(sh, p)
AddedEffect(sh, new, row) ==
  /\ new \in ShipmentTable
  /\ Ships(new, row.order) # {} /\ OnTheWay(new, row.order) # {}
  /\ Sent(new, row.order) = [v \in Variants |-> Sent(sh, row.order)[v] + row.lines[v]]
  /\ \A p : p # row.order => SameShipments(sh, new, p)

\* A new shipment counts for its order, and for no other.
LEMMA ShipmentAdded ==
  ASSUME NEW sh \in ShipmentTable, NEW s \in Shipments, sh[s] = NoShipment,
         NEW row \in Shipment, row.status = "dispatched", NEW new,
         new = [sh EXCEPT ![s] = row]
  PROVE  AddedEffect(sh, new, row)
<1>1. new \in ShipmentTable  BY DEF ShipmentTable
<1>2. row # NoShipment  BY DEF NoShipment
<1>3. new[s] = row /\ \A t \in Shipments : t # s => new[t] = sh[t]  BY DEF ShipmentTable
<1>4. s \in Ships(new, row.order) /\ s \in OnTheWay(new, row.order)
  BY <1>2, <1>3 DEF Ships, OnTheWay
<1>. DEFINE o == row.order
            S == Ships(sh, o)
            T == Ships(new, o)
<1>5. s \notin S /\ S \ {s} = T \ {s} /\ s \in T  BY <1>3, <1>4 DEF Ships
<1>6. ASSUME NEW v \in Variants PROVE Sent(new, o)[v] = Sent(sh, o)[v] + row.lines[v]
  <2>. DEFINE f == [t \in S |-> sh[t].lines[v]]
              g == [t \in T |-> new[t].lines[v]]
  <2>1. IsFiniteSet(S) /\ IsFiniteSet(T) /\ T \in SUBSET Shipments  BY <1>1, ShipmentRows
  <2>2. (\A t \in S : f[t] \in Nat) /\ \A t \in T : g[t] \in Nat  BY <1>1, ShipmentRows
  <2>3. \A t \in S \ {s} : g[t] = f[t]
    <3>1. \A t \in S \ {s} : t \in T /\ t # s /\ t \in Shipments  BY <1>5, <2>1
    <3>2. \A t \in S \ {s} : new[t] = sh[t]  BY <1>3, <3>1
    <3>. HIDE DEF S, T
    <3>. QED  BY <3>1, <3>2
  <2>4. g[s] = row.lines[v]  BY <1>3, <1>5
  <2>5. /\ Sent(new, o)[v] = SumFunctionOnSet(g, T)
        /\ Sent(sh, o)[v] = SumFunctionOnSet(f, S)
    BY DEF Sent
  <2>. HIDE DEF f, g, S, T
  <2>6. (\A t \in S : f[t] \in Int) /\ (\A t \in T : g[t] \in Int)  BY <2>2
  <2>7. SumFunctionOnSet(g, T) = SumFunctionOnSet(f, S) - Term(f, S, s) + Term(g, T, s)
    BY <1>5, <2>1, <2>3, <2>6, SumChange
  <2>8. Term(f, S, s) = 0 /\ Term(g, T, s) = row.lines[v]  BY <1>5, <2>4 DEF Term
  <2>9. SumFunctionOnSet(f, S) \in Int  BY <2>1, <2>6, SumInt
  <2>10. row.lines[v] \in Int  BY <1>5, <2>4, <2>6
  <2>. QED  BY <2>5, <2>7, <2>8, <2>9, <2>10
<1>7. Sent(new, o) = [v \in Variants |-> Sent(sh, o)[v] + row.lines[v]]
  <2>1. Sent(new, o) = [v \in Variants |-> Sent(new, o)[v]]  BY DEF Sent
  <2>. QED  BY <1>6, <2>1
<1>8. ASSUME NEW p, p # o
      PROVE  /\ Ships(new, p) = Ships(sh, p) /\ Sent(new, p) = Sent(sh, p)
             /\ OnTheWay(new, p) = OnTheWay(sh, p)
  <2>1. Ships(new, p) = Ships(sh, p) /\ s \notin Ships(sh, p)  BY <1>3, <1>8 DEF Ships
  <2>2. \A t \in Ships(sh, p) : new[t] = sh[t]  BY <1>3, <2>1 DEF Ships
  <2>3. Sent(new, p) = Sent(sh, p)
    <3>1. \A v : [t \in Ships(sh, p) |-> new[t].lines[v]] = [t \in Ships(sh, p) |-> sh[t].lines[v]]
      BY <2>2
    <3>. QED  BY <2>1, <3>1 DEF Sent
  <2>4. OnTheWay(new, p) = OnTheWay(sh, p)  BY <2>1, <2>2 DEF OnTheWay
  <2>. QED  BY <2>1, <2>3, <2>4
<1>. QED  BY <1>1, <1>4, <1>7, <1>8 DEF AddedEffect, SameShipments

ArrivedEffect(sh, new, s) ==
  /\ new \in ShipmentTable
  /\ \A p : /\ Ships(new, p) = Ships(sh, p) /\ Sent(new, p) = Sent(sh, p)
            /\ OnTheWay(new, p) = OnTheWay(sh, p) \ {s}

\* An arrival takes the shipment off those on the way, and nothing else.
LEMMA ShipmentArrived ==
  ASSUME NEW sh \in ShipmentTable, NEW s \in Shipments, sh[s] # NoShipment, NEW new,
         new = [sh EXCEPT ![s].status = "delivered"]
  PROVE  ArrivedEffect(sh, new, s)
<1>1. sh[s] \in Shipment  BY DEF ShipmentTable
<1>2. /\ new[s] \in Shipment /\ new[s].order = sh[s].order /\ new[s].lines = sh[s].lines
      /\ new[s].status = "delivered"
      /\ \A t \in Shipments : t # s => new[t] = sh[t]
  BY <1>1 DEF ShipmentTable, Shipment
<1>3. new \in ShipmentTable
  <2>1. new = [t \in Shipments |-> new[t]]  BY DEF ShipmentTable
  <2>2. \A t \in Shipments : new[t] \in {NoShipment} \cup Shipment  BY <1>2 DEF ShipmentTable
  <2>. QED  BY <2>1, <2>2 DEF ShipmentTable
<1>4. new[s] # NoShipment  BY <1>2 DEF NoShipment
<1>5. ASSUME NEW p
      PROVE  /\ Ships(new, p) = Ships(sh, p) /\ Sent(new, p) = Sent(sh, p)
             /\ OnTheWay(new, p) = OnTheWay(sh, p) \ {s}
  <2>1. Ships(new, p) = Ships(sh, p)  BY <1>2, <1>4 DEF Ships
  <2>2. \A t \in Ships(sh, p) : new[t].lines = sh[t].lines  BY <1>2 DEF Ships
  <2>3. Sent(new, p) = Sent(sh, p)
    <3>1. \A v : [t \in Ships(sh, p) |-> new[t].lines[v]] = [t \in Ships(sh, p) |-> sh[t].lines[v]]
      BY <2>2
    <3>. QED  BY <2>1, <3>1 DEF Sent
  <2>4. \A t \in Ships(sh, p) :
          new[t].status # "delivered" <=> sh[t].status # "delivered" /\ t # s
    BY <1>2 DEF Ships
  <2>. QED  BY <2>1, <2>3, <2>4 DEF OnTheWay
<1>. QED  BY <1>3, <1>5 DEF ArrivedEffect

-------------------------------------------------------------------------------
(***************************************************************************)
(* The inductive invariant                                                 *)
(***************************************************************************)
Tables == /\ onHand \in [Items -> Nat] /\ reserved \in [Items -> Nat]
          /\ moved \in [Items -> Int] /\ hold \in [Orders -> HoldRows]
          /\ status \in [Orders -> OrderStatus] /\ lines \in [Orders -> Lines]
          /\ shipment \in ShipmentTable
          /\ fulfillment \in [Orders -> {"absent", "allocated", "delivered", "cancelled"}]

OrderFine(o) == OrderOk(hold[o], status[o], lines[o], Sent(shipment, o), Ships(shipment, o),
                        OnTheWay(shipment, o))
OrdersOk == \A o \in Orders : OrderFine(o)

\* The units of a row that all orders together may still be sent.
AllLive(h, i) == SumFunctionOnSet([o \in Orders |-> Live(h[o], i)], Orders)
StockOk == \A i \in Items : /\ reserved[i] = AllLive(hold, i) /\ onHand[i] = moved[i]
                            /\ reserved[i] + SafetyStock <= onHand[i]

IInv == Tables /\ OrdersOk /\ StockOk

LiveEffect(h, n, o, k, i) ==
  /\ AllLive(h, i) \in Nat /\ Live(h[o], i) \in Nat /\ Live(k, i) \in Nat
  /\ Live(h[o], i) <= AllLive(h, i)
  /\ AllLive(n, i) = AllLive(h, i) - Live(h[o], i) + Live(k, i)

\* A row that reserves what the orders hold goes on doing so when it gains or
\* loses what one order does.
LEMMA LiveChange ==
  ASSUME NEW h \in [Orders -> HoldRows], NEW o \in Orders, NEW k \in HoldRows, NEW n,
         n = [h EXCEPT ![o] = k], NEW i \in Items
  PROVE  LiveEffect(h, n, o, k, i)
<1>. DEFINE f == [p \in Orders |-> Live(h[p], i)]
            g == [p \in Orders |-> Live(n[p], i)]
<1>1. \A r \in HoldRows : Live(r, i) \in Nat
  <2>1. ASSUME NEW r \in HoldRows PROVE Live(r, i) \in Nat
    <3>1. r[i].held \in Nat /\ r[i].committed \in Nat  BY RowFields DEF HoldRows
    <3>. QED  BY <3>1 DEF Live
  <2>. QED  BY <2>1
<1>2. \A p \in Orders : n[p] \in HoldRows /\ (p # o => n[p] = h[p])  OBVIOUS
<1>3. \A p \in Orders : f[p] \in Nat /\ g[p] \in Nat  BY <1>1, <1>2
<1>4. \A p \in Orders \ {o} : g[p] = f[p]  BY <1>2
<1>5. f[o] = Live(h[o], i) /\ g[o] = Live(k, i)  OBVIOUS
<1>6. AllLive(h, i) = SumFunctionOnSet(f, Orders) /\ AllLive(n, i) = SumFunctionOnSet(g, Orders)
  BY DEF AllLive
<1>. HIDE DEF f, g
<1>7. IsFiniteSet(Orders)  BY FiniteAssumption
<1>8. SumFunctionOnSet(f, Orders) \in Nat /\ f[o] <= SumFunctionOnSet(f, Orders)
  BY <1>3, <1>7, SumPart
<1>9. SumFunctionOnSet(g, Orders) = SumFunctionOnSet(f, Orders) - f[o] + g[o]
  <2>1. \A p \in Orders : f[p] \in Int /\ g[p] \in Int  BY <1>3
  <2>. QED  BY <1>4, <1>7, <2>1, SumUpdate
<1>10. Live(h[o], i) \in Nat /\ Live(k, i) \in Nat  BY <1>1
<1>. QED  BY <1>5, <1>6, <1>8, <1>9, <1>10 DEF LiveEffect

\* Orders whose rows and shipments are the same are as fine as before.
LEMMA OthersFine ==
  ASSUME OrdersOk, NEW o \in Orders, OrderFine(o)',
         \A p \in Orders : p # o =>
           /\ hold'[p] = hold[p] /\ status'[p] = status[p] /\ lines'[p] = lines[p]
           /\ Sent(shipment', p) = Sent(shipment, p) /\ Ships(shipment', p) = Ships(shipment, p)
           /\ OnTheWay(shipment', p) = OnTheWay(shipment, p)
  PROVE  OrdersOk'
BY DEF OrdersOk, OrderFine

\* Each row reserves more by what the order gains and less by what it loses;
\* the stock on hand loses at most what leaves the reservations.
LEMMA StockMoves ==
  ASSUME IInv, NEW o \in Orders, NEW k \in HoldRows, hold' = [hold EXCEPT ![o] = k],
         DOMAIN reserved' = Items, reserved' = [i \in Items |-> reserved'[i]],
         \A i \in Items :
           /\ reserved'[i] = reserved[i] - Live(hold[o], i) + Live(k, i)
           /\ onHand'[i] = moved'[i] /\ reserved'[i] + SafetyStock <= onHand'[i]
  PROVE  StockOk' /\ reserved' \in [Items -> Nat] /\ hold' \in [Orders -> HoldRows]
<1>1. hold \in [Orders -> HoldRows] /\ \A i \in Items : reserved[i] = AllLive(hold, i)
  BY DEF IInv, Tables, StockOk
<1>2. ASSUME NEW i \in Items
      PROVE  reserved'[i] = AllLive(hold', i) /\ reserved'[i] \in Nat
  <2>1. /\ AllLive(hold, i) \in Nat /\ Live(hold[o], i) \in Nat /\ Live(k, i) \in Nat
        /\ Live(hold[o], i) <= AllLive(hold, i)
        /\ AllLive(hold', i) = AllLive(hold, i) - Live(hold[o], i) + Live(k, i)
    <3>1. LiveEffect(hold, hold', o, k, i)  BY <1>1, LiveChange
    <3>. QED  BY <3>1 DEF LiveEffect
  <2>2. reserved'[i] = AllLive(hold, i) - Live(hold[o], i) + Live(k, i)  BY <1>1
  <2>. QED  BY <2>1, <2>2
<1>3. hold' \in [Orders -> HoldRows]  BY <1>1
<1>4. reserved' \in [Items -> Nat]  BY <1>2
<1>. QED  BY <1>2, <1>3, <1>4 DEF StockOk

-------------------------------------------------------------------------------
LEMMA AdjustKeeps ==
  ASSUME IInv, NEW i \in Items, NEW n \in -MaxStock..MaxStock, AdjustStock(i, n)
  PROVE  IInv'
<1>1. n \in Int  BY QuantityAssumption
<1>2. /\ onHand[i] \in Nat /\ reserved[i] \in Nat /\ moved[i] \in Int /\ onHand[i] = moved[i]
      /\ SafetyStock \in Nat
  BY QuantityAssumption DEF IInv, Tables, StockOk
<1>3. onHand[i] - reserved[i] - SafetyStock + n >= 0
  BY DEF AdjustStock, MayAdjust, available
<1>4. /\ onHand' = [onHand EXCEPT ![i] = onHand[i] + n]
      /\ moved' = [moved EXCEPT ![i] = moved[i] + n]
      /\ UNCHANGED <<reserved, hold, status, lines, shipment, fulfillment>>
  BY DEF AdjustStock
<1>5. onHand[i] + n \in Nat /\ moved[i] + n \in Int /\ reserved[i] + SafetyStock <= onHand[i] + n
  BY <1>1, <1>2, <1>3
<1>6. Tables'  BY <1>4, <1>5 DEF IInv, Tables
<1>7. StockOk'  BY <1>2, <1>4, <1>5 DEF IInv, Tables, StockOk
<1>8. OrdersOk'  BY <1>4 DEF IInv, OrdersOk, OrderFine
<1>. QED  BY <1>6, <1>7, <1>8 DEF IInv

LEMMA ReserveKeeps ==
  ASSUME IInv, NEW o \in Orders, NEW q \in Lines \ {NoLines},
         NEW first \in {"pending_payment", "confirmed"}, Reserve(o, q, first)
  PROVE  IInv'
<1>. DEFINE h == hold[o]
            room == available
            t == Taken(q, room)
            k == ReservedRows(h, first, t)
<1>1. room \in [Items -> Nat] /\ \A i \in Items : room[i] = onHand[i] - reserved[i] - SafetyStock
  <2>1. \A i \in Items : /\ onHand[i] \in Nat /\ reserved[i] \in Nat
                         /\ reserved[i] + SafetyStock <= onHand[i]
    BY DEF IInv, Tables, StockOk
  <2>2. \A i \in Items : onHand[i] - reserved[i] - SafetyStock \in Nat
    BY <2>1, QuantityAssumption
  <2>. QED  BY <2>2 DEF available
<1>2. /\ status[o] = "absent" /\ Covered(q, room) /\ hold' = [hold EXCEPT ![o] = k]
      /\ reserved' = [i \in Items |-> reserved[i] + t[i]]
      /\ status' = [status EXCEPT ![o] = first] /\ lines' = [lines EXCEPT ![o] = q]
      /\ UNCHANGED <<onHand, moved, shipment, fulfillment>>
  BY DEF Reserve, ReservedRows
<1>3. /\ OrderOk(h, "absent", lines[o], NoLines, {}, {})
      /\ Ships(shipment, o) = {} /\ Sent(shipment, o) = NoLines /\ OnTheWay(shipment, o) = {}
  <2>1. OrderFine(o)  BY DEF IInv, OrdersOk
  <2>2. Ships(shipment, o) = {}  BY <1>2, <2>1 DEF OrderFine, OrderOk, Quiet
  <2>3. Sent(shipment, o) = NoLines  BY <2>2, SentUnits DEF IInv, Tables
  <2>4. OnTheWay(shipment, o) = {}  BY <2>2 DEF OnTheWay
  <2>. QED  BY <1>2, <2>1, <2>2, <2>3, <2>4 DEF OrderFine
<1>4. /\ t \in [Items -> Nat] /\ \A i \in Items : t[i] <= room[i]
  BY <1>1, TakenOk
<1>5. /\ OrderOk(k, first, q, NoLines, {}, {})
      /\ \A i \in Items : Live(k, i) = Live(h, i) + t[i]
  <2>. HIDE DEF h, room
  <2>. QED  BY <1>1, <1>2, <1>3, ReserveOrder
<1>. HIDE DEF k, t, room, h
<1>6. k \in HoldRows  BY <1>5 DEF OrderOk
<1>7. StockOk' /\ reserved' \in [Items -> Nat] /\ hold' \in [Orders -> HoldRows]
  <2>1. ASSUME NEW i \in Items
        PROVE  /\ reserved'[i] = reserved[i] - Live(hold[o], i) + Live(k, i)
               /\ onHand'[i] = moved'[i] /\ reserved'[i] + SafetyStock <= onHand'[i]
    <3>1. /\ onHand[i] \in Nat /\ reserved[i] \in Nat /\ onHand[i] = moved[i]
          /\ SafetyStock \in Nat
      BY QuantityAssumption DEF IInv, Tables, StockOk
    <3>2. Live(hold[o], i) \in Nat
      <4>1. hold \in [Orders -> HoldRows]  BY DEF IInv, Tables
      <4>2. LiveEffect(hold, hold', o, k, i)  BY <1>2, <1>6, <4>1, LiveChange
      <4>. QED  BY <4>2 DEF LiveEffect
    <3>3. Live(k, i) = Live(hold[o], i) + t[i]  BY <1>5 DEF h
    <3>4. t[i] \in Nat /\ t[i] <= onHand[i] - reserved[i] - SafetyStock  BY <1>1, <1>4
    <3>5. reserved'[i] = reserved[i] + t[i] /\ onHand'[i] = onHand[i] /\ moved'[i] = moved[i]
      BY <1>2
    <3>. QED  BY <3>1, <3>2, <3>3, <3>4, <3>5
  <2>2. DOMAIN reserved' = Items /\ reserved' = [i \in Items |-> reserved'[i]]  BY <1>2
  <2>. QED  BY <1>2, <1>6, <2>1, <2>2, StockMoves
<1>8. OrderFine(o)'
  <2>1. hold'[o] = k /\ status'[o] = first /\ lines'[o] = q /\ shipment' = shipment
    BY <1>2 DEF IInv, Tables
  <2>. QED  BY <1>3, <1>5, <2>1 DEF OrderFine
<1>9. OrdersOk'
  <2>1. OrdersOk  BY DEF IInv
  <2>2. \A p \in Orders : p # o =>
           /\ hold'[p] = hold[p] /\ status'[p] = status[p] /\ lines'[p] = lines[p]
           /\ Sent(shipment', p) = Sent(shipment, p) /\ Ships(shipment', p) = Ships(shipment, p)
           /\ OnTheWay(shipment', p) = OnTheWay(shipment, p)
    BY <1>2 DEF IInv, Tables
  <2>. QED  BY <1>8, <2>1, <2>2, OthersFine
<1>10. Tables'  BY <1>2, <1>7 DEF IInv, Tables, OrderStatus
<1>. QED  BY <1>7, <1>9, <1>10 DEF IInv

\* An order without shipments: what OrderFine says of it.
LEMMA FineUnsent ==
  ASSUME IInv, NEW o \in Orders, status[o] \in Quiet
  PROVE  /\ OrderOk(hold[o], status[o], lines[o], NoLines, {}, {})
         /\ Ships(shipment, o) = {} /\ Sent(shipment, o) = NoLines /\ OnTheWay(shipment, o) = {}
<1>1. OrderFine(o)  BY DEF IInv, OrdersOk
<1>2. Ships(shipment, o) = {}  BY <1>1 DEF OrderFine, OrderOk
<1>3. Sent(shipment, o) = NoLines  BY <1>2, SentUnits DEF IInv, Tables
<1>4. OnTheWay(shipment, o) = {}  BY <1>2 DEF OnTheWay
<1>. QED  BY <1>1, <1>2, <1>3, <1>4 DEF OrderFine

\* Only this order's holds and status change, and no shipment.
LEMMA OrderKeeps ==
  ASSUME IInv, NEW o \in Orders, NEW k, NEW st, hold' = [hold EXCEPT ![o] = k],
         status' = [status EXCEPT ![o] = st], UNCHANGED <<lines, shipment>>,
         OrderOk(k, st, lines[o], Sent(shipment, o), Ships(shipment, o), OnTheWay(shipment, o))
  PROVE  OrdersOk' /\ status' \in [Orders -> OrderStatus]
<1>1. OrderFine(o)'
  <2>1. hold'[o] = k /\ status'[o] = st  BY DEF IInv, Tables
  <2>. QED  BY <2>1 DEF OrderFine
<1>2. \A p \in Orders : p # o =>
        /\ hold'[p] = hold[p] /\ status'[p] = status[p] /\ lines'[p] = lines[p]
        /\ Sent(shipment', p) = Sent(shipment, p) /\ Ships(shipment', p) = Ships(shipment, p)
        /\ OnTheWay(shipment', p) = OnTheWay(shipment, p)
  BY DEF IInv, Tables
<1>3. OrdersOk  BY DEF IInv
<1>4. st \in OrderStatus  BY DEF OrderOk
<1>5. status' \in [Orders -> OrderStatus]  BY <1>4 DEF IInv, Tables
<1>. QED  BY <1>1, <1>2, <1>3, <1>5, OthersFine

LEMMA CommitKeeps ==
  ASSUME IInv, NEW o \in Orders, Commit(o)
  PROVE  IInv'
<1>. DEFINE h == hold[o]
            k == CommittedRows(h)
<1>1. /\ status[o] = "pending_payment" /\ hold' = [hold EXCEPT ![o] = k]
      /\ status' = [status EXCEPT ![o] = "confirmed"]
      /\ UNCHANGED <<stockVars, lines, shipment, fulfillment>>
  BY DEF Commit, CommittedRows
<1>2. /\ OrderOk(h, "pending_payment", lines[o], NoLines, {}, {})
      /\ Ships(shipment, o) = {} /\ Sent(shipment, o) = NoLines /\ OnTheWay(shipment, o) = {}
  <2>1. status[o] \in Quiet  BY <1>1 DEF Quiet
  <2>. QED  BY <1>1, <2>1, FineUnsent
<1>3. /\ OrderOk(k, "confirmed", lines[o], NoLines, {}, {})
      /\ \A i \in Items : Live(k, i) = Live(h, i)
  <2>. HIDE DEF h
  <2>. QED  BY <1>2, CommitOrder
<1>. HIDE DEF k
<1>4. k \in HoldRows  BY <1>3 DEF OrderOk
<1>5. StockOk' /\ hold' \in [Orders -> HoldRows]
  <2>1. ASSUME NEW i \in Items
        PROVE  /\ reserved'[i] = reserved[i] - Live(hold[o], i) + Live(k, i)
               /\ onHand'[i] = moved'[i] /\ reserved'[i] + SafetyStock <= onHand'[i]
    <3>1. hold \in [Orders -> HoldRows]  BY DEF IInv, Tables
    <3>2. LiveEffect(hold, hold', o, k, i)  BY <1>1, <1>4, <3>1, LiveChange
    <3>3. Live(hold[o], i) \in Nat /\ Live(k, i) = Live(hold[o], i)
      BY <1>3, <3>2 DEF LiveEffect
    <3>4. reserved[i] \in Nat /\ onHand[i] = moved[i] /\ reserved[i] + SafetyStock <= onHand[i]
      BY DEF IInv, Tables, StockOk
    <3>5. reserved' = reserved /\ onHand' = onHand /\ moved' = moved  BY <1>1 DEF stockVars
    <3>. QED  BY <3>3, <3>4, <3>5
  <2>2. DOMAIN reserved' = Items /\ reserved' = [i \in Items |-> reserved'[i]]
    BY <1>1 DEF IInv, Tables, stockVars
  <2>. QED  BY <1>1, <1>4, <2>1, <2>2, StockMoves
<1>6. OrdersOk' /\ status' \in [Orders -> OrderStatus]  BY <1>1, <1>2, <1>3, OrderKeeps
<1>7. Tables'  BY <1>1, <1>5, <1>6 DEF IInv, Tables, stockVars
<1>. QED  BY <1>5, <1>6, <1>7 DEF IInv

LEMMA ReleaseKeeps ==
  ASSUME IInv, NEW o \in Orders, status[o] \in Quiet \ {"absent"},
         NEW to \in {"released", "expired"}, NEW over \in {"expired", "cancelled"},
         Release(o, to), status' = [status EXCEPT ![o] = over], UNCHANGED <<lines, shipment>>
  PROVE  /\ OrdersOk' /\ StockOk' /\ status' \in [Orders -> OrderStatus]
         /\ reserved' \in [Items -> Nat] /\ hold' \in [Orders -> HoldRows]
<1>. DEFINE h == hold[o]
            st == status[o]
            k == ReleasedRows(h, to)
<1>1. /\ hold' = [hold EXCEPT ![o] = k]
      /\ reserved' = [i \in Items |-> reserved[i] - Total(h[i], Releasable)]
      /\ UNCHANGED <<onHand, moved>>
  <2>1. UNCHANGED <<onHand, moved>>  BY DEF Release
  <2>2. reserved' = [i \in Items |-> reserved[i] - Total(h[i], Releasable)]  BY DEF Release
  <2>3. hold' = [hold EXCEPT ![o] = k]  BY DEF Release, ReleasedRows
  <2>. QED  BY <2>1, <2>2, <2>3
<1>2. /\ OrderOk(h, st, lines[o], NoLines, {}, {})
      /\ Ships(shipment, o) = {} /\ Sent(shipment, o) = NoLines /\ OnTheWay(shipment, o) = {}
  BY FineUnsent
<1>3. /\ OrderOk(k, over, lines[o], NoLines, {}, {})
      /\ \A i \in Items : Live(k, i) = 0 /\ Total(h[i], Releasable) = Live(h, i)
  <2>1. st # "absent"  OBVIOUS
  <2>. HIDE DEF h, st
  <2>. QED  BY <1>2, <2>1, ReleaseOrder
<1>. HIDE DEF k
<1>4. k \in HoldRows  BY <1>3 DEF OrderOk
<1>5. StockOk' /\ reserved' \in [Items -> Nat] /\ hold' \in [Orders -> HoldRows]
  <2>1. ASSUME NEW i \in Items
        PROVE  /\ reserved'[i] = reserved[i] - Live(hold[o], i) + Live(k, i)
               /\ onHand'[i] = moved'[i] /\ reserved'[i] + SafetyStock <= onHand'[i]
    <3>1. hold \in [Orders -> HoldRows]  BY DEF IInv, Tables
    <3>2. LiveEffect(hold, hold', o, k, i)  BY <1>1, <1>4, <3>1, LiveChange
    <3>3. Live(hold[o], i) \in Nat /\ Live(k, i) = 0
      BY <1>3, <3>2 DEF LiveEffect
    <3>4. /\ reserved[i] \in Nat /\ onHand[i] \in Nat /\ onHand[i] = moved[i]
          /\ reserved[i] + SafetyStock <= onHand[i] /\ SafetyStock \in Nat
      BY QuantityAssumption DEF IInv, Tables, StockOk
    <3>5. reserved'[i] = reserved[i] - Live(hold[o], i)  BY <1>1, <1>3
    <3>. QED  BY <1>1, <3>3, <3>4, <3>5
  <2>2. DOMAIN reserved' = Items /\ reserved' = [i \in Items |-> reserved'[i]]  BY <1>1
  <2>. QED  BY <1>1, <1>4, <2>1, <2>2, StockMoves
<1>6. OrdersOk' /\ status' \in [Orders -> OrderStatus]  BY <1>1, <1>2, <1>3, OrderKeeps
<1>. QED  BY <1>5, <1>6

LEMMA ExpireKeeps ==
  ASSUME IInv, NEW o \in Orders, Expire(o)
  PROVE  IInv'
<1>1. /\ OrdersOk' /\ StockOk' /\ status' \in [Orders -> OrderStatus]
      /\ reserved' \in [Items -> Nat] /\ hold' \in [Orders -> HoldRows]
  BY ReleaseKeeps DEF Expire, Quiet
<1>2. UNCHANGED <<onHand, moved, lines, shipment, fulfillment>>  BY DEF Expire, Release
<1>. QED  BY <1>1, <1>2 DEF IInv, Tables

LEMMA CancelKeeps ==
  ASSUME IInv, NEW o \in Orders, NEW shopper \in BOOLEAN, Cancel(o, shopper)
  PROVE  IInv'
<1>1. /\ OrdersOk' /\ StockOk' /\ status' \in [Orders -> OrderStatus]
      /\ reserved' \in [Items -> Nat] /\ hold' \in [Orders -> HoldRows]
  BY ReleaseKeeps DEF Cancel, Cancellable, Quiet
<1>2. UNCHANGED <<onHand, moved, lines, shipment>>  BY DEF Cancel, Release
<1>3. fulfillment' \in [Orders -> {"absent", "allocated", "delivered", "cancelled"}]
  BY DEF Cancel, IInv, Tables
<1>. QED  BY <1>1, <1>2, <1>3 DEF IInv, Tables

LEMMA AllocateKeeps ==
  ASSUME IInv, NEW o \in Orders, Allocate(o)
  PROVE  IInv'
<1>1. /\ status[o] = "confirmed" /\ status' = [status EXCEPT ![o] = "allocated"]
      /\ fulfillment' = [fulfillment EXCEPT ![o] = "allocated"]
      /\ UNCHANGED <<stockVars, hold, lines, shipment>>
  BY DEF Allocate
<1>2. /\ OrderOk(hold[o], "confirmed", lines[o], NoLines, {}, {})
      /\ Ships(shipment, o) = {} /\ Sent(shipment, o) = NoLines /\ OnTheWay(shipment, o) = {}
  <2>1. status[o] \in Quiet  BY <1>1 DEF Quiet
  <2>. QED  BY <1>1, <2>1, FineUnsent
<1>3. OrderOk(hold[o], "allocated", lines[o], NoLines, {}, {})
  BY <1>2 DEF OrderOk, OrderStatus, Open, Over, Quiet
<1>4. OrdersOk' /\ status' \in [Orders -> OrderStatus]
  <2>1. hold' = [hold EXCEPT ![o] = hold[o]]  BY <1>1 DEF IInv, Tables
  <2>. QED  BY <1>1, <1>2, <1>3, <2>1, OrderKeeps
<1>5. StockOk'  BY <1>1 DEF IInv, StockOk, stockVars
<1>6. Tables'  BY <1>1, <1>4 DEF IInv, Tables, stockVars
<1>. QED  BY <1>4, <1>5, <1>6 DEF IInv

LEMMA DispatchKeeps ==
  ASSUME IInv, NEW o \in Orders, NEW s \in Shipments, NEW q \in Lines, Dispatch(o, s, q)
  PROVE  IInv'
<1>. DEFINE h == hold[o]
            st == status[o]
            sent == Sent(shipment, o)
            room == [i \in Items |-> h[i].committed]
            t == Taken(q, room)
            k == ConsumedRows(h, t)
            more == [v \in Variants |-> sent[v] + q[v]]
            row == [status |-> "dispatched", order |-> o, lines |-> q]
            over == IF more = lines[o] THEN "fulfilled" ELSE "partially_fulfilled"
<1>1. /\ st \in {"allocated", "partially_fulfilled"} /\ shipment[s] = NoShipment
      /\ q # NoLines /\ Covered(q, room)
      /\ onHand' = [i \in Items |-> onHand[i] - t[i]]
      /\ moved' = [i \in Items |-> moved[i] - t[i]]
      /\ reserved' = [i \in Items |-> reserved[i] - t[i]]
      /\ shipment' = [shipment EXCEPT ![s] = row]
      /\ UNCHANGED <<lines, fulfillment>>
  BY DEF Dispatch, ReservedLess
<1>2. hold' = [hold EXCEPT ![o] = k]  BY DEF Dispatch, ConsumedRows
<1>3. /\ sent \in [Variants -> Nat] /\ lines[o] \in [Variants -> Int]
      /\ q \in [Variants -> Nat]
  <2>1. sent \in [Variants -> Nat]  BY SentUnits DEF IInv, Tables
  <2>. QED  BY <2>1, QuantityAssumption DEF IInv, Tables, Lines
<1>4. status' = [status EXCEPT ![o] = over]
  <2>1. (\A v \in Variants : ShippedOf(o, v) + q[v] = lines[o][v]) <=> more = lines[o]
    <3>1. \A v \in Variants : ShippedOf(o, v) = sent[v]  BY ShippedIs
    <3>2. (\A v \in Variants : sent[v] + q[v] = lines[o][v]) <=> more = lines[o]
      <4>. HIDE DEF sent
      <4>1. (\A v \in Variants : sent[v] + q[v] = lines[o][v]) => more = lines[o]  BY <1>3
      <4>2. more = lines[o] => \A v \in Variants : sent[v] + q[v] = lines[o][v]  BY <1>3
      <4>. QED  BY <4>1, <4>2
    <3>. QED  BY <3>1, <3>2
  <2>2. status' = [status EXCEPT ![o] =
          IF \A v \in Variants : ShippedOf(o, v) + q[v] = lines[o][v]
            THEN "fulfilled" ELSE "partially_fulfilled"]
    BY DEF Dispatch
  <2>. HIDE DEF more
  <2>. QED  BY <2>1, <2>2
<1>5. row \in Shipment /\ row.order = o /\ row.lines = q /\ row.status = "dispatched"
  BY <1>1 DEF Shipment
<1>. HIDE DEF row
<1>6. /\ shipment' \in ShipmentTable
      /\ Ships(shipment', o) # {} /\ OnTheWay(shipment', o) # {}
      /\ Sent(shipment', o) = more
      /\ \A p : p # o => /\ Ships(shipment', p) = Ships(shipment, p)
                         /\ Sent(shipment', p) = Sent(shipment, p)
                         /\ OnTheWay(shipment', p) = OnTheWay(shipment, p)
  <2>1. shipment \in ShipmentTable  BY DEF IInv, Tables
  <2>2. AddedEffect(shipment, shipment', row)  BY <1>1, <1>5, <2>1, ShipmentAdded
  <2>. QED  BY <1>5, <2>2 DEF AddedEffect, SameShipments
<1>. DEFINE of == Ships(shipment, o)
            way == OnTheWay(shipment, o)
            ships2 == Ships(shipment', o)
            way2 == OnTheWay(shipment', o)
            ln == lines[o]
<1>7. OrderOk(h, st, ln, sent, of, way)  BY DEF IInv, OrdersOk, OrderFine
<1>8. /\ OrderOk(k, over, ln, more, ships2, way2)
      /\ \A i \in Items : /\ Live(k, i) = Live(h, i) - t[i]
                          /\ t[i] \in Nat /\ t[i] <= Live(h, i)
  <2>1. ships2 # {} /\ way2 # {}  BY <1>6
  <2>2. /\ room = [i \in Items |-> h[i].committed] /\ t = Taken(q, room)
        /\ k = ConsumedRows(h, Taken(q, room))
        /\ more = [v \in Variants |-> sent[v] + q[v]]
        /\ over = IF more = ln THEN "fulfilled" ELSE "partially_fulfilled"
    OBVIOUS
  <2>3. /\ sent \in [Variants -> Nat] /\ Covered(q, room)
        /\ st \in {"allocated", "partially_fulfilled"}
    BY <1>1, <1>3
  <2>. HIDE DEF h, st, ln, sent, of, way, ships2, way2, room, t, k, more, over
  <2>4. DispatchEffect(h, k, Taken(q, room), over, ln, more, ships2, way2)
    BY <1>7, <2>1, <2>2, <2>3, DispatchOrder
  <2>. QED  BY <2>2, <2>4 DEF DispatchEffect
<1>. HIDE DEF t, k, more, over
<1>9. k \in HoldRows /\ over \in OrderStatus  BY <1>8 DEF OrderOk
<1>10. ASSUME NEW i \in Items
       PROVE  /\ reserved'[i] = reserved[i] - Live(hold[o], i) + Live(k, i)
              /\ onHand'[i] = moved'[i] /\ reserved'[i] + SafetyStock <= onHand'[i]
              /\ onHand'[i] \in Nat /\ moved'[i] \in Int
  <2>1. hold \in [Orders -> HoldRows]  BY DEF IInv, Tables
  <2>2. LiveEffect(hold, hold', o, k, i)  BY <1>2, <1>9, <2>1, LiveChange
  <2>3. reserved[i] = AllLive(hold, i)  BY DEF IInv, StockOk
  <2>4. /\ Live(hold[o], i) \in Nat /\ Live(hold[o], i) <= reserved[i]
    BY <2>2, <2>3 DEF LiveEffect
  <2>5. /\ reserved[i] \in Nat /\ onHand[i] \in Nat /\ onHand[i] = moved[i]
        /\ reserved[i] + SafetyStock <= onHand[i] /\ SafetyStock \in Nat
    BY QuantityAssumption DEF IInv, Tables, StockOk
  <2>6. Live(k, i) = Live(hold[o], i) - t[i] /\ t[i] \in Nat /\ t[i] <= Live(hold[o], i)
    BY <1>8
  <2>7. /\ reserved'[i] = reserved[i] - t[i] /\ onHand'[i] = onHand[i] - t[i]
        /\ moved'[i] = moved[i] - t[i]
    BY <1>1
  <2>. QED  BY <2>4, <2>5, <2>6, <2>7
<1>11. StockOk' /\ reserved' \in [Items -> Nat] /\ hold' \in [Orders -> HoldRows]
  <2>1. DOMAIN reserved' = Items /\ reserved' = [i \in Items |-> reserved'[i]]  BY <1>1
  <2>2. \A i \in Items :
          /\ reserved'[i] = reserved[i] - Live(hold[o], i) + Live(k, i)
          /\ onHand'[i] = moved'[i] /\ reserved'[i] + SafetyStock <= onHand'[i]
    BY <1>10
  <2>. QED  BY <1>2, <1>9, <2>1, <2>2, StockMoves
<1>12. onHand' \in [Items -> Nat] /\ moved' \in [Items -> Int]
  <2>1. onHand' = [i \in Items |-> onHand'[i]] /\ moved' = [i \in Items |-> moved'[i]]
    BY <1>1
  <2>. QED  BY <1>10, <2>1
<1>13. OrderFine(o)'
  <2>1. hold'[o] = k /\ status'[o] = over /\ lines' = lines
    BY <1>1, <1>2, <1>4 DEF IInv, Tables
  <2>. QED  BY <1>6, <1>8, <2>1 DEF OrderFine
<1>14. OrdersOk'
  <2>1. OrdersOk  BY DEF IInv
  <2>2. \A p \in Orders : p # o =>
          hold'[p] = hold[p] /\ status'[p] = status[p] /\ lines'[p] = lines[p]
    BY <1>1, <1>2, <1>4 DEF IInv, Tables
  <2>. QED  BY <1>6, <1>13, <2>1, <2>2, OthersFine
<1>15. Tables'  BY <1>1, <1>4, <1>6, <1>9, <1>11, <1>12 DEF IInv, Tables
<1>. QED  BY <1>11, <1>14, <1>15 DEF IInv

LEMMA DeliverKeeps ==
  ASSUME IInv, NEW s \in Shipments, Deliver(s)
  PROVE  IInv'
<1>1. shipment[s] # NoShipment /\ shipment \in ShipmentTable  BY DEF Deliver, IInv, Tables
<1>2. PICK o \in Orders : o = shipment[s].order
  <2>1. shipment[s] \in Shipment  BY <1>1 DEF ShipmentTable
  <2>. QED  BY <2>1 DEF Shipment
<1>. DEFINE done == OtherPending(s) = {} /\ status[o] = "fulfilled"
            st == IF done THEN "delivered" ELSE status[o]
<1>3. /\ shipment' = [shipment EXCEPT ![s].status = "delivered"]
      /\ status' = [status EXCEPT ![o] = st]
      /\ fulfillment' = [fulfillment EXCEPT ![o] = IF done THEN "delivered" ELSE @]
      /\ UNCHANGED <<stockVars, hold, lines>>
  BY <1>2 DEF Deliver
<1>4. /\ shipment' \in ShipmentTable
      /\ \A p : /\ Ships(shipment', p) = Ships(shipment, p)
                /\ Sent(shipment', p) = Sent(shipment, p)
                /\ OnTheWay(shipment', p) = OnTheWay(shipment, p) \ {s}
  <2>1. ArrivedEffect(shipment, shipment', s)  BY <1>1, <1>3, ShipmentArrived
  <2>. QED  BY <2>1 DEF ArrivedEffect
<1>5. OtherPending(s) = OnTheWay(shipment, o) \ {s}
  BY <1>2 DEF OtherPending, Of, OnTheWay, Ships
<1>6. OrderFine(o)  BY DEF IInv, OrdersOk
<1>7. OrderOk(hold[o], st, lines[o], Sent(shipment, o), Ships(shipment, o),
              OnTheWay(shipment, o) \ {s})
  BY <1>5, <1>6 DEF OrderFine, OrderOk, OrderStatus, Open, Over, Quiet
<1>8. \A p \in Orders : p # o => s \notin OnTheWay(shipment, p)  BY <1>2 DEF OnTheWay, Ships
<1>. HIDE DEF st
<1>9. OrderFine(o)'
  <2>1. hold'[o] = hold[o] /\ status'[o] = st /\ lines'[o] = lines[o]
    BY <1>3 DEF IInv, Tables
  <2>2. /\ Ships(shipment', o) = Ships(shipment, o) /\ Sent(shipment', o) = Sent(shipment, o)
        /\ OnTheWay(shipment', o) = OnTheWay(shipment, o) \ {s}
    BY <1>4
  <2>. QED  BY <1>7, <2>1, <2>2 DEF OrderFine
<1>10. OrdersOk'
  <2>1. OrdersOk  BY DEF IInv
  <2>2. \A p \in Orders : p # o =>
          /\ hold'[p] = hold[p] /\ status'[p] = status[p] /\ lines'[p] = lines[p]
          /\ Sent(shipment', p) = Sent(shipment, p) /\ Ships(shipment', p) = Ships(shipment, p)
          /\ OnTheWay(shipment', p) = OnTheWay(shipment, p)
    BY <1>3, <1>4, <1>8 DEF IInv, Tables
  <2>. QED  BY <1>9, <2>1, <2>2, OthersFine
<1>11. StockOk'  BY <1>3 DEF IInv, StockOk, stockVars
<1>12. st \in OrderStatus  BY <1>7 DEF OrderOk
<1>13. fulfillment' \in [Orders -> {"absent", "allocated", "delivered", "cancelled"}]
  BY <1>3 DEF IInv, Tables
<1>14. Tables'  BY <1>3, <1>4, <1>12, <1>13 DEF IInv, Tables, stockVars
<1>. QED  BY <1>10, <1>11, <1>14 DEF IInv

-------------------------------------------------------------------------------
LEMMA InvInit == Init => IInv
<1>. SUFFICES ASSUME Init PROVE IInv  OBVIOUS
<1>. DEFINE row == [s \in HoldStatus |-> 0]
            rows == [i \in Items |-> row]
<1>1. rows \in HoldRows /\ \A i \in Items : Ever(rows, i) = 0 /\ Live(rows, i) = 0
  <2>1. row \in HoldRow  BY DEF HoldRow
  <2>2. /\ row.held = 0 /\ row.committed = 0 /\ row.released = 0 /\ row.expired = 0
        /\ row.consumed = 0
    BY DEF HoldStatus
  <2>3. rows \in HoldRows  BY <2>1 DEF HoldRows
  <2>. HIDE DEF row
  <2>4. \A i \in Items : Ever(rows, i) = 0 /\ Live(rows, i) = 0  BY <2>2 DEF Ever, Live
  <2>. QED  BY <2>3, <2>4
<1>. HIDE DEF rows
<1>2. hold = [o \in Orders |-> rows]  BY DEF Init, rows
<1>3. Tables
  <2>1. NoLines \in Lines  BY QuantityAssumption DEF NoLines, Lines
  <2>. QED
    BY <1>1, <1>2, <2>1, QuantityAssumption DEF Init, Tables, OrderStatus, ShipmentTable
<1>4. ASSUME NEW o \in Orders PROVE OrderFine(o)
  <2>1. hold[o] = rows /\ status[o] = "absent" /\ lines[o] = NoLines  BY <1>2 DEF Init
  <2>2. Ships(shipment, o) = {}  BY DEF Init, Ships
  <2>3. NoLines \in Lines /\ 0 <= MaxQuantity  BY QuantityAssumption DEF NoLines, Lines
  <2>. QED
    BY <1>1, <2>1, <2>2, <2>3 DEF OrderFine, OrderOk, OrderStatus, Open, Over, Quiet
<1>5. ASSUME NEW i \in Items
      PROVE  /\ reserved[i] = AllLive(hold, i) /\ onHand[i] = moved[i]
             /\ reserved[i] + SafetyStock <= onHand[i]
  <2>1. AllLive(hold, i) = 0
    <3>. DEFINE f == [o \in Orders |-> Live(hold[o], i)]
    <3>1. \A o \in Orders : f[o] = 0  BY <1>1, <1>2
    <3>2. IsFiniteSet(Orders)  BY FiniteAssumption
    <3>3. \A o \in Orders : f[o] \in Int  BY <3>1
    <3>. HIDE DEF f
    <3>4. SumFunctionOnSet(f, Orders) = SumFunctionOnSet(f, Orders) + SumFunctionOnSet(f, Orders)
      <4>1. \A o \in Orders : f[o] \in Int /\ f[o] \in Int /\ f[o] = f[o] + f[o]  BY <3>1
      <4>. QED  BY <3>2, <4>1, SumPlus
    <3>5. SumFunctionOnSet(f, Orders) \in Int  BY <3>2, <3>3, SumInt
    <3>. DEFINE total == SumFunctionOnSet(f, Orders)
    <3>6. total = 0
      <4>1. total \in Int /\ total = total + total  BY <3>4, <3>5
      <4>. HIDE DEF total
      <4>. QED  BY <4>1
    <3>. QED  BY <3>6 DEF AllLive, f, total
  <2>2. SafetyStock \in Nat  BY QuantityAssumption
  <2>. QED  BY <2>1, <2>2 DEF Init
<1>. QED  BY <1>3, <1>4, <1>5 DEF IInv, OrdersOk, StockOk

LEMMA InvNext == IInv /\ [Next]_vars => IInv'
<1>. SUFFICES ASSUME IInv, [Next]_vars PROVE IInv'  OBVIOUS
<1>1. CASE UNCHANGED vars
  BY <1>1 DEF vars, stockVars, IInv, Tables, OrdersOk, OrderFine, StockOk
<1>. QED
  BY <1>1, AdjustKeeps, ReserveKeeps, CommitKeeps, ExpireKeeps, AllocateKeeps, CancelKeeps,
     DispatchKeeps, DeliverKeeps
  DEF Next

\* The strengthened invariant holds in every reachable state.
THEOREM InventoryInvariant == Spec => []IInv
BY InvInit, InvNext, PTL DEF Spec

LEMMA ActiveIs ==
  ASSUME IInv, NEW o \in Orders, NEW i \in Items
  PROVE  Active(o, i) = Live(hold[o], i)
<1>1. hold[o][i] \in HoldRow  BY DEF IInv, Tables, HoldRows
<1>2. Total(hold[o][i], {"held", "committed"}) = hold[o][i].held + hold[o][i].committed
  BY <1>1, LiveTotal
<1>. QED  BY <1>2 DEF Active, Live

\* Nothing is sold twice: what is reserved and the safety stock are on the shelf
\* at every location, whatever is adjusted, cancelled, split or dispatched.
THEOREM InventoryNoOversell == Spec => []NoOversell
<1>1. IInv => NoOversell
  <2>. SUFFICES ASSUME IInv, NEW i \in Items
                PROVE  reserved[i] >= 0 /\ onHand[i] >= reserved[i] + SafetyStock
    BY DEF NoOversell
  <2>1. /\ reserved[i] \in Nat /\ onHand[i] \in Nat /\ SafetyStock \in Nat
        /\ reserved[i] + SafetyStock <= onHand[i]
    BY QuantityAssumption DEF IInv, Tables, StockOk
  <2>. QED  BY <2>1
<1>. QED  BY <1>1, InventoryInvariant, PTL

\* The reserved column is what the orders hold, the stock what was moved.
THEOREM InventoryAccounted == Spec => []StockIsAccounted
<1>1. IInv => StockIsAccounted
  <2>. SUFFICES ASSUME IInv, NEW i \in Items
                PROVE  /\ reserved[i] = Total([o \in Orders |-> Active(o, i)], Orders)
                       /\ onHand[i] = moved[i]
    BY DEF StockIsAccounted
  <2>1. [o \in Orders |-> Active(o, i)] = [o \in Orders |-> Live(hold[o], i)]  BY ActiveIs
  <2>. QED  BY <2>1 DEF IInv, StockOk, AllLive, Total
<1>. QED  BY <1>1, InventoryInvariant, PTL

\* The committed holds of a paid order cover what it was not yet sent, at every
\* moment between its payment and its last shipment.
THEOREM InventoryCovers == Spec => []CommittedCoversUnshipped
<1>1. IInv => CommittedCoversUnshipped
  <2>. SUFFICES ASSUME IInv, NEW o \in Orders
        PROVE
          /\ status[o] \in {"confirmed", "allocated", "partially_fulfilled"} => \A v \in Variants :
               Total([i \in Items |-> hold[o][i].committed], OfVariant(v)) + ShippedOf(o, v)
                 = lines[o][v]
          /\ status[o] \in {"expired", "cancelled", "fulfilled", "delivered"} =>
               \A i \in Items : Active(o, i) = 0
          /\ status[o] \in {"expired", "cancelled"} => Of(o) = {}
    BY DEF CommittedCoversUnshipped
  <2>1. OrderFine(o)  BY DEF IInv, OrdersOk
  <2>2. \A v \in Variants :
          Total([i \in Items |-> hold[o][i].committed], OfVariant(v)) = Committed(hold[o], v)
    BY DEF Total, Committed
  <2>. QED  BY <2>1, <2>2, ActiveIs, ShippedIs DEF OrderFine, OrderOk, Open, Over, Quiet
<1>. QED  BY <1>1, InventoryInvariant, PTL

\* An order is delivered exactly when it was shipped completely and everything
\* has arrived, in whatever order the parcels arrive.
THEOREM InventoryDelivered == Spec => []DeliveredMeansAllArrived
<1>1. IInv => DeliveredMeansAllArrived
  <2>. SUFFICES ASSUME IInv, NEW o \in Orders
        PROVE  LET complete == status[o] # "absent" /\ Shipped(o) = lines[o]
                   arrived == \A s \in Of(o) : shipment[s].status = "delivered" IN
               /\ status[o] = "delivered" <=> complete /\ arrived
               /\ status[o] = "fulfilled" <=> complete /\ ~arrived
    BY DEF DeliveredMeansAllArrived
  <2>1. OrderFine(o) /\ status[o] \in OrderStatus  BY DEF IInv, OrdersOk, Tables
  <2>2. (\A s \in Of(o) : shipment[s].status = "delivered") <=> OnTheWay(shipment, o) = {}
    BY DEF Of, OnTheWay, Ships
  <2>3. Shipped(o) = Sent(shipment, o)  BY ShippedIs
  <2>4. status[o] \in Quiet \ {"absent"} => Sent(shipment, o) # lines[o]
    <3>1. status[o] \in Quiet => Sent(shipment, o) = NoLines  BY FineUnsent
    <3>. QED  BY <2>1, <3>1 DEF OrderFine, OrderOk
  <2>5. status[o] = "partially_fulfilled" => Sent(shipment, o) # lines[o]
    BY <2>1 DEF OrderFine, OrderOk
  <2>6. /\ status[o] \in {"fulfilled", "delivered"} => Sent(shipment, o) = lines[o]
        /\ status[o] = "fulfilled" => OnTheWay(shipment, o) # {}
        /\ status[o] = "delivered" => OnTheWay(shipment, o) = {}
    BY <2>1 DEF OrderFine, OrderOk
  <2>. QED  BY <2>1, <2>2, <2>3, <2>4, <2>5, <2>6 DEF OrderStatus, Quiet
<1>. QED  BY <1>1, InventoryInvariant, PTL

\* Stock, holds, statuses, lines and shipments are well formed; no hold of an
\* order ever has more units than a line may.
THEOREM InventoryType == Spec => []TypeOK
<1>1. IInv => TypeOK
  <2>. SUFFICES ASSUME IInv PROVE TypeOK  OBVIOUS
  <2>1. ASSUME NEW o \in Orders, NEW i \in Items, NEW s \in HoldStatus
        PROVE  hold[o][i][s] \in 0..MaxQuantity
    <3>. DEFINE r == hold[o][i]
    <3>1. r \in HoldRow  BY DEF IInv, Tables, HoldRows
    <3>2. r.held + r.committed + r.released + r.expired + r.consumed <= MaxQuantity
      BY DEF IInv, OrdersOk, OrderFine, OrderOk, Ever
    <3>3. MaxQuantity \in Nat  BY QuantityAssumption
    <3>. HIDE DEF r
    <3>4. /\ r.held \in Nat /\ r.committed \in Nat /\ r.released \in Nat
          /\ r.expired \in Nat /\ r.consumed \in Nat
      BY <3>1, RowFields
    <3>5. /\ r.held <= MaxQuantity /\ r.committed <= MaxQuantity /\ r.released <= MaxQuantity
          /\ r.expired <= MaxQuantity /\ r.consumed <= MaxQuantity
      BY <3>2, <3>3, <3>4
    <3>6. r[s] \in Nat /\ r[s] <= MaxQuantity  BY <3>4, <3>5 DEF HoldStatus
    <3>. QED  BY <3>3, <3>6 DEF r
  <2>2. hold \in [Orders -> [Items -> [HoldStatus -> 0..MaxQuantity]]]
    <3>1. \A o \in Orders, i \in Items : hold[o][i] \in [HoldStatus -> 0..MaxQuantity]
      BY <2>1 DEF IInv, Tables, HoldRows, HoldRow
    <3>. QED  BY <3>1 DEF IInv, Tables, HoldRows
  <2>3. shipment \in [Shipments -> {NoShipment} \cup Shipment]
    BY DEF IInv, Tables, ShipmentTable
  <2>. QED  BY <2>2, <2>3 DEF TypeOK, IInv, Tables
<1>. QED  BY <1>1, InventoryInvariant, PTL

-------------------------------------------------------------------------------
(***************************************************************************)
(* The stock as one pool per variant                                       *)
(***************************************************************************)
Free == [v \in Variants |-> Total(available, OfVariant(v))]
Promised == [o \in Orders |-> [v \in Variants |->
              Total([i \in Items |-> Active(o, i)], OfVariant(v))]]
SentOff == [o \in Orders |-> Shipped(o)]
Nil == [v \in Variants |-> 0]

PoolStep == Pool!Next \/ UNCHANGED Pool!vars

\* The steps of StockPool in terms of the abstract state.
LEMMA PoolRestock ==
  ASSUME NEW v \in Variants, Free'[v] \in Nat, Free' = [Free EXCEPT ![v] = Free'[v]],
         Promised' = Promised, SentOff' = SentOff
  PROVE  PoolStep
<1>1. Pool!Restock
  BY Zenon DEF Pool!Restock, Free, Promised, SentOff
<1>. QED  BY <1>1, Zenon DEF PoolStep, Pool!Next

LEMMA PoolPromise ==
  ASSUME NEW o \in Orders, Promised[o] = Nil, SentOff[o] = Nil,
         Promised'[o] \in [Variants -> Nat], Promised' = [Promised EXCEPT ![o] = Promised'[o]],
         \A v \in Variants : Promised'[o][v] <= Free[v],
         Free' = [v \in Variants |-> Free[v] - Promised'[o][v]], SentOff' = SentOff
  PROVE  PoolStep
<1>1. Pool!Promise(o)
  BY Zenon DEF Pool!Promise, Pool!Nothing, Free, Promised, SentOff, Nil
<1>. QED  BY <1>1, Zenon DEF PoolStep, Pool!Next

LEMMA PoolGiveBack ==
  ASSUME NEW o \in Orders, SentOff[o] = Nil, SentOff' = SentOff,
         Free' = [v \in Variants |-> Free[v] + Promised[o][v]],
         Promised' = [Promised EXCEPT ![o] = Nil]
  PROVE  PoolStep
<1>1. Pool!GiveBack(o)
  BY Zenon DEF Pool!GiveBack, Pool!Nothing, Free, Promised, SentOff, Nil
<1>. QED  BY <1>1, Zenon DEF PoolStep, Pool!Next

LEMMA PoolSend ==
  ASSUME NEW o \in Orders, SentOff'[o] \in [Variants -> Nat],
         SentOff' = [SentOff EXCEPT ![o] = SentOff'[o]],
         \A v \in Variants : /\ SentOff[o][v] <= SentOff'[o][v]
                             /\ SentOff'[o][v] - SentOff[o][v] <= Promised[o][v],
         Promised' = [Promised EXCEPT ![o] =
           [v \in Variants |-> Promised[o][v] - (SentOff'[o][v] - SentOff[o][v])]],
         Free' = Free
  PROVE  PoolStep
<1>1. Pool!Send(o)
  BY Zenon DEF Pool!Send, Free, Promised, SentOff
<1>. QED  BY <1>1, Zenon DEF PoolStep, Pool!Next

LEMMA PoolStutter ==
  ASSUME Free' = Free, Promised' = Promised, SentOff' = SentOff
  PROVE  PoolStep
BY Zenon DEF PoolStep, Pool!vars, Free, Promised, SentOff

\* The sums over the rows of a variant.
RowSum(f, v) == SumFunctionOnSet(f, OfVariant(v))
LiveRow(o) == [i \in Items |-> Live(hold[o], i)]
LiveOf(o, v) == RowSum(LiveRow(o), v)
Safety == [i \in Items |-> SafetyStock]

PoolRows == /\ Free = [v \in Variants |-> RowSum(available, v)]
            /\ Promised = [o \in Orders |-> [v \in Variants |-> LiveOf(o, v)]]
            /\ SentOff = [o \in Orders |-> Sent(shipment, o)]

LEMMA PoolIs == IInv => PoolRows
<1>. SUFFICES ASSUME IInv PROVE PoolRows  OBVIOUS
<1>1. ASSUME NEW o \in Orders PROVE [i \in Items |-> Active(o, i)] = LiveRow(o)
  BY ActiveIs DEF LiveRow
<1>2. Promised = [o \in Orders |-> [v \in Variants |-> LiveOf(o, v)]]
  BY <1>1 DEF Promised, Total, LiveOf, RowSum
<1>3. Free = [v \in Variants |-> RowSum(available, v)]  BY DEF Free, Total, RowSum
<1>4. SentOff = [o \in Orders |-> Sent(shipment, o)]  BY ShippedIs DEF SentOff
<1>. QED  BY <1>2, <1>3, <1>4 DEF PoolRows

LEMMA PoolIsNext == IInv' => PoolRows'
BY PoolIs, PTL

LEMMA RowSumNat ==
  ASSUME NEW v, NEW f, \A i \in OfVariant(v) : f[i] \in Nat
  PROVE  RowSum(f, v) \in Nat
<1>1. IsFiniteSet(OfVariant(v))  BY ItemsFinite
<1>. QED  BY <1>1, SumPart DEF RowSum

LEMMA RowSumPlus ==
  ASSUME NEW v, NEW f, NEW g, NEW h,
         \A i \in OfVariant(v) : f[i] \in Int /\ g[i] \in Int /\ h[i] = f[i] + g[i]
  PROVE  RowSum(h, v) = RowSum(f, v) + RowSum(g, v)
<1>1. IsFiniteSet(OfVariant(v))  BY ItemsFinite
<1>. QED  BY <1>1, SumPlus DEF RowSum

Balance(v) ==
  /\ RowSum(available, v) \in Nat /\ RowSum(reserved, v) \in Nat
  /\ RowSum(onHand, v) \in Nat /\ RowSum(Safety, v) \in Nat
  /\ RowSum(onHand, v) = RowSum(available, v) + RowSum(reserved, v) + RowSum(Safety, v)
  /\ \A o \in Orders : LiveOf(o, v) \in Nat

LEMMA Balanced == IInv => \A v \in Variants : Balance(v)
<1>. SUFFICES ASSUME IInv, NEW v \in Variants PROVE Balance(v)  OBVIOUS
<1>. DEFINE S == OfVariant(v)
            g == [i \in Items |-> reserved[i] + SafetyStock]
<1>1. \A i \in S : i \in Items  BY DEF OfVariant
<1>2. \A i \in Items : /\ reserved[i] \in Nat /\ onHand[i] \in Nat /\ SafetyStock \in Nat
                       /\ reserved[i] + SafetyStock <= onHand[i]
  BY QuantityAssumption DEF IInv, Tables, StockOk
<1>3. \A i \in Items : available[i] = onHand[i] - reserved[i] - SafetyStock
  BY DEF available
<1>4. \A i \in S : /\ available[i] \in Nat /\ reserved[i] \in Nat /\ onHand[i] \in Nat
                   /\ Safety[i] \in Nat /\ g[i] \in Nat
                   /\ onHand[i] = available[i] + g[i] /\ g[i] = reserved[i] + Safety[i]
  <2>1. ASSUME NEW i \in Items
        PROVE  /\ available[i] \in Nat /\ g[i] \in Nat /\ Safety[i] \in Nat
               /\ onHand[i] = available[i] + g[i] /\ g[i] = reserved[i] + Safety[i]
    <3>1. Safety[i] = SafetyStock /\ g[i] = reserved[i] + SafetyStock  BY DEF Safety
    <3>. HIDE DEF g
    <3>. QED  BY <1>2, <1>3, <3>1
  <2>. QED  BY <1>1, <1>2, <2>1
<1>. HIDE DEF g, S
<1>5. /\ RowSum(available, v) \in Nat /\ RowSum(reserved, v) \in Nat
      /\ RowSum(onHand, v) \in Nat /\ RowSum(Safety, v) \in Nat
  BY <1>4, RowSumNat DEF S
<1>6. RowSum(onHand, v) = RowSum(available, v) + RowSum(g, v)
  <2>1. \A i \in S : available[i] \in Int /\ g[i] \in Int /\ onHand[i] = available[i] + g[i]
    BY <1>4
  <2>. QED  BY <2>1, RowSumPlus DEF S
<1>7. RowSum(g, v) = RowSum(reserved, v) + RowSum(Safety, v)
  <2>1. \A i \in S : reserved[i] \in Int /\ Safety[i] \in Int /\ g[i] = reserved[i] + Safety[i]
    BY <1>4
  <2>. QED  BY <2>1, RowSumPlus DEF S
<1>8. ASSUME NEW o \in Orders PROVE LiveOf(o, v) \in Nat
  <2>1. hold[o] \in HoldRows  BY DEF IInv, Tables
  <2>2. \A i \in Items : LiveRow(o)[i] \in Nat
    BY <2>1, RowFields DEF LiveRow, Live, HoldRows
  <2>3. \A i \in OfVariant(v) : LiveRow(o)[i] \in Nat  BY <1>1, <2>2 DEF S
  <2>. QED  BY <2>3, RowSumNat DEF LiveOf
<1>. QED  BY <1>5, <1>6, <1>7, <1>8 DEF Balance

LEMMA BalancedNext == IInv' => \A v \in Variants : Balance(v)'
<1>1. (IInv => \A v \in Variants : Balance(v))'  BY Balanced, PTL
<1>. QED  BY <1>1

\* What an order gains or loses is what the rows reserve more or less.
LEMMA LiveFollows ==
  ASSUME IInv, IInv', NEW o \in Orders, hold' = [hold EXCEPT ![o] = hold'[o]], NEW v
  PROVE  LiveOf(o, v)' + RowSum(reserved, v) = LiveOf(o, v) + RowSum(reserved', v)
<1>1. /\ hold \in [Orders -> HoldRows] /\ hold' \in [Orders -> HoldRows]
      /\ reserved \in [Items -> Nat] /\ reserved' \in [Items -> Nat]
  BY DEF IInv, Tables
<1>2. ASSUME NEW i \in Items
      PROVE  /\ LiveRow(o)[i] \in Nat /\ LiveRow(o)'[i] \in Nat
             /\ LiveRow(o)'[i] + reserved[i] = LiveRow(o)[i] + reserved'[i]
  <2>1. LiveEffect(hold, hold', o, hold'[o], i)
    <3>1. hold'[o] \in HoldRows  BY <1>1
    <3>. QED  BY <1>1, <3>1, LiveChange
  <2>2. reserved[i] = AllLive(hold, i) /\ reserved'[i] = AllLive(hold', i)
    BY DEF IInv, StockOk
  <2>3. LiveRow(o)[i] = Live(hold[o], i) /\ LiveRow(o)'[i] = Live(hold'[o], i)  BY DEF LiveRow
  <2>. QED  BY <2>1, <2>2, <2>3 DEF LiveEffect
<1>. DEFINE S == OfVariant(v)
            a == LiveRow(o)
            b == LiveRow(o)'
            c == reserved'
            g == [i \in Items |-> a[i] + c[i]]
<1>3. \A i \in S : i \in Items  BY DEF OfVariant
<1>4. \A i \in Items : /\ a[i] \in Int /\ b[i] \in Int /\ c[i] \in Int /\ reserved[i] \in Int
                       /\ g[i] = a[i] + c[i] /\ g[i] = b[i] + reserved[i]
  BY <1>1, <1>2
<1>5. LiveOf(o, v) = RowSum(a, v) /\ LiveOf(o, v)' = RowSum(b, v) /\ reserved' = c
  BY DEF LiveOf, RowSum, OfVariant
<1>. HIDE DEF a, b, c, g
<1>6. RowSum(g, v) = RowSum(a, v) + RowSum(c, v)  BY <1>3, <1>4, RowSumPlus
<1>7. RowSum(g, v) = RowSum(b, v) + RowSum(reserved, v)  BY <1>3, <1>4, RowSumPlus
<1>. QED  BY <1>5, <1>6, <1>7

\* The other orders keep what they were promised.
LEMMA OthersPromised ==
  ASSUME IInv, IInv', NEW o \in Orders, hold' = [hold EXCEPT ![o] = hold'[o]]
  PROVE  Promised' = [Promised EXCEPT ![o] = Promised'[o]]
<1>1. /\ Promised = [p \in Orders |-> [v \in Variants |-> LiveOf(p, v)]]
      /\ Promised' = [p \in Orders |-> [v \in Variants |-> LiveOf(p, v)']]
  BY PoolIs, PoolIsNext DEF PoolRows
<1>2. hold \in [Orders -> HoldRows]  BY DEF IInv, Tables
<1>3. \A p \in Orders : p # o => hold'[p] = hold[p]  BY <1>2
<1>4. \A p \in Orders, v \in Variants : p # o => LiveOf(p, v)' = LiveOf(p, v)
  BY <1>3 DEF LiveOf, LiveRow, RowSum, OfVariant
<1>5. \A p \in Orders : p # o => Promised'[p] = Promised[p]  BY <1>1, <1>4
<1>. QED  BY <1>1, <1>5

\* A step that changes no shipment sends nothing.
LEMMA SameSent ==
  ASSUME IInv, IInv', shipment' = shipment
  PROVE  SentOff' = SentOff
BY PoolIs, PoolIsNext DEF PoolRows

\* What the rows of a variant have free changes with their stock and with what
\* they reserve.
LEMMA FreeMoves ==
  ASSUME IInv, IInv', NEW v \in Variants
  PROVE  /\ Free[v] \in Nat /\ Free'[v] \in Nat
         /\ Free'[v] + RowSum(reserved', v) + RowSum(onHand, v)
              = Free[v] + RowSum(reserved, v) + RowSum(onHand', v)
<1>1. Balance(v) /\ Balance(v)'  BY Balanced, BalancedNext
<1>2. Free[v] = RowSum(available, v) /\ Free'[v] = RowSum(available', v)
  BY PoolIs, PoolIsNext DEF PoolRows, RowSum, OfVariant
<1>3. RowSum(Safety, v)' = RowSum(Safety, v)  BY DEF RowSum, Safety, OfVariant
<1>4. /\ RowSum(available, v)' = RowSum(available', v)
      /\ RowSum(reserved, v)' = RowSum(reserved', v) /\ RowSum(onHand, v)' = RowSum(onHand', v)
  BY DEF RowSum, OfVariant
<1>. QED  BY <1>1, <1>2, <1>3, <1>4 DEF Balance

LEMMA FreeIs == IInv /\ IInv' => /\ Free = [v \in Variants |-> Free[v]]
                                 /\ Free' = [v \in Variants |-> Free'[v]]
BY PoolIs, PoolIsNext DEF PoolRows

LEMMA PromisedMoves ==
  ASSUME IInv, IInv', NEW o \in Orders, hold' = [hold EXCEPT ![o] = hold'[o]]
  PROVE  /\ Promised[o] \in [Variants -> Nat] /\ Promised'[o] \in [Variants -> Nat]
         /\ \A v \in Variants :
              Promised'[o][v] + RowSum(reserved, v) = Promised[o][v] + RowSum(reserved', v)
<1>1. /\ Promised[o] = [v \in Variants |-> LiveOf(o, v)]
      /\ Promised'[o] = [v \in Variants |-> LiveOf(o, v)']
  BY PoolIs, PoolIsNext DEF PoolRows
<1>2. \A v \in Variants : LiveOf(o, v) \in Nat /\ LiveOf(o, v)' \in Nat
  BY Balanced, BalancedNext DEF Balance
<1>. QED  BY <1>1, <1>2, LiveFollows

\* Nothing is promised to an order without live rows.
LEMMA NothingPromised ==
  ASSUME NEW o \in Orders
  PROVE  /\ IInv /\ (\A i \in Items : Live(hold[o], i) = 0) => Promised[o] = Nil
         /\ IInv' /\ (\A i \in Items : Live(hold'[o], i) = 0) => Promised'[o] = Nil
<1>1. ASSUME NEW f, NEW v, \A i \in Items : f[i] = 0 PROVE RowSum(f, v) = 0
  <2>1. \A i \in OfVariant(v) : f[i] \in Int /\ f[i] = f[i] + f[i] /\ f[i] \in Nat
    BY <1>1 DEF OfVariant
  <2>. DEFINE n == RowSum(f, v)
  <2>2. n \in Nat /\ n = n + n  BY <2>1, RowSumNat, RowSumPlus
  <2>. HIDE DEF n
  <2>3. n = 0  BY <2>2
  <2>. QED  BY <2>3 DEF n
<1>2. ASSUME \A i \in Items : Live(hold[o], i) = 0, NEW v PROVE LiveOf(o, v) = 0
  BY <1>1, <1>2 DEF LiveOf, LiveRow
<1>3. ASSUME \A i \in Items : Live(hold'[o], i) = 0, NEW v PROVE LiveOf(o, v)' = 0
  <2>. DEFINE f == LiveRow(o)'
  <2>1. \A i \in Items : f[i] = 0  BY <1>3 DEF LiveRow
  <2>2. LiveOf(o, v)' = RowSum(f, v)  BY DEF LiveOf, RowSum, OfVariant
  <2>. HIDE DEF f
  <2>. QED  BY <1>1, <2>1, <2>2
<1>. QED  BY <1>2, <1>3, PoolIs, PoolIsNext DEF PoolRows, Nil

-------------------------------------------------------------------------------
LEMMA AdjustPools ==
  ASSUME IInv, IInv', NEW i \in Items, NEW n, AdjustStock(i, n)
  PROVE  PoolStep
<1>1. /\ onHand' = [onHand EXCEPT ![i] = onHand[i] + n]
      /\ UNCHANGED <<reserved, hold, status, lines, shipment, fulfillment>>
  BY DEF AdjustStock
<1>2. i[1] \in Variants  BY DEF Items
<1>3. Promised' = Promised
  <2>1. \A o \in Orders, v \in Variants : LiveOf(o, v)' = LiveOf(o, v)
    BY <1>1 DEF LiveOf, LiveRow, RowSum, OfVariant
  <2>. QED  BY <2>1, PoolIs, PoolIsNext DEF PoolRows
<1>4. SentOff' = SentOff  BY <1>1, SameSent
<1>5. \A v \in Variants \ {i[1]} : Free'[v] = Free[v]
  <2>1. ASSUME NEW v \in Variants \ {i[1]}
        PROVE  Free'[v] = Free[v]
    <3>. DEFINE f == onHand'
                S == OfVariant(v)
    <3>1. \A j \in S : onHand[j] = f[j]
      BY <1>1 DEF OfVariant, IInv, Tables
    <3>2. IsFiniteSet(S)  BY ItemsFinite
    <3>3. SumFunctionOnSet(onHand, S) = SumFunctionOnSet(f, S)
      <4>. HIDE DEF f, S
      <4>. QED  BY <3>1, <3>2, SumSame
    <3>4. RowSum(onHand, v) = RowSum(onHand', v)  BY <3>3 DEF RowSum
    <3>5. RowSum(reserved', v) = RowSum(reserved, v)  BY <1>1
    <3>6. RowSum(reserved, v) \in Nat /\ RowSum(onHand, v) \in Nat
      BY Balanced DEF Balance
    <3>7. /\ Free[v] \in Nat /\ Free'[v] \in Nat
          /\ Free'[v] + RowSum(reserved', v) + RowSum(onHand, v)
               = Free[v] + RowSum(reserved, v) + RowSum(onHand', v)
      BY FreeMoves
    <3>. HIDE DEF f, S
    <3>. QED  BY <3>4, <3>5, <3>6, <3>7
  <2>. QED  BY <2>1
<1>6. Free' = [Free EXCEPT ![i[1]] = Free'[i[1]]]  BY <1>5, FreeIs
<1>7. Free'[i[1]] \in Nat  BY <1>2, FreeMoves
<1>. QED  BY <1>2, <1>3, <1>4, <1>6, <1>7, PoolRestock

LEMMA ReservePools ==
  ASSUME IInv, IInv', NEW o \in Orders, NEW q \in Lines \ {NoLines}, NEW first,
         Reserve(o, q, first)
  PROVE  PoolStep
<1>. DEFINE t == Taken(q, available)
<1>1. /\ status[o] = "absent" /\ Covered(q, available)
      /\ reserved' = [i \in Items |-> reserved[i] + t[i]]
      /\ UNCHANGED <<onHand, moved, shipment, fulfillment>>
  BY DEF Reserve
<1>2. hold' = [hold EXCEPT ![o] = hold'[o]]  BY DEF Reserve, IInv, Tables
<1>3. available \in [Items -> Nat]
  <2>1. \A i \in Items : onHand[i] - reserved[i] - SafetyStock \in Nat
    BY QuantityAssumption DEF IInv, Tables, StockOk
  <2>. QED  BY <2>1 DEF available
<1>4. /\ \A i \in Items : t[i] \in Nat
      /\ \A v \in Variants : RowSum(t, v) = q[v]
  BY <1>1, <1>3, TakenOk DEF RowSum
<1>. HIDE DEF t
<1>5. \A v \in Variants : RowSum(reserved', v) = RowSum(reserved, v) + q[v]
  <2>1. \A i \in Items : /\ reserved[i] \in Int /\ t[i] \in Int
                         /\ reserved'[i] = reserved[i] + t[i]
    BY <1>1, <1>4 DEF IInv, Tables
  <2>2. \A v \in Variants : RowSum(reserved', v) = RowSum(reserved, v) + RowSum(t, v)
    BY <2>1, RowSumPlus DEF OfVariant
  <2>. QED  BY <1>4, <2>2
<1>6. Promised[o] = Nil /\ SentOff[o] = Nil
  <2>1. status[o] \in Quiet  BY <1>1 DEF Quiet
  <2>2. OrderOk(hold[o], "absent", lines[o], NoLines, {}, {}) /\ Sent(shipment, o) = NoLines
    BY <1>1, <2>1, FineUnsent
  <2>3. \A i \in Items : Live(hold[o], i) = 0
    BY <2>2, NoRow DEF OrderOk, Live
  <2>4. Promised[o] = Nil  BY <2>3, NothingPromised
  <2>5. SentOff[o] = Nil  BY <2>2, PoolIs DEF PoolRows, Nil, NoLines
  <2>. QED  BY <2>4, <2>5
<1>7. \A v \in Variants : /\ q[v] \in Nat /\ RowSum(reserved, v) \in Nat
                          /\ RowSum(onHand, v) \in Nat
  BY Balanced, QuantityAssumption DEF Balance, Lines
<1>8. /\ Promised'[o] \in [Variants -> Nat]
      /\ \A v \in Variants : Promised'[o][v] = q[v]
  <2>1. /\ Promised'[o] \in [Variants -> Nat]
        /\ \A v \in Variants :
             Promised'[o][v] + RowSum(reserved, v) = Promised[o][v] + RowSum(reserved', v)
    BY <1>2, PromisedMoves
  <2>2. \A v \in Variants : Promised[o][v] = 0 /\ Promised'[o][v] \in Nat
    BY <1>6, <2>1 DEF Nil
  <2>3. ASSUME NEW v \in Variants PROVE Promised'[o][v] = q[v]
    <3>1. /\ Promised'[o][v] + RowSum(reserved, v) = Promised[o][v] + RowSum(reserved', v)
          /\ RowSum(reserved', v) = RowSum(reserved, v) + q[v]
          /\ Promised[o][v] = 0 /\ Promised'[o][v] \in Nat
          /\ q[v] \in Nat /\ RowSum(reserved, v) \in Nat
      BY <1>5, <1>7, <2>1, <2>2
    <3>. QED  BY <3>1
  <2>. QED  BY <2>1, <2>3
<1>9. \A v \in Variants : /\ Free[v] \in Nat /\ Free'[v] \in Nat
                          /\ Free'[v] = Free[v] - Promised'[o][v]
  <2>1. ASSUME NEW v \in Variants
        PROVE  /\ Free[v] \in Nat /\ Free'[v] \in Nat
               /\ Free'[v] = Free[v] - Promised'[o][v]
    <3>1. /\ Free[v] \in Nat /\ Free'[v] \in Nat
          /\ Free'[v] + RowSum(reserved', v) + RowSum(onHand, v)
               = Free[v] + RowSum(reserved, v) + RowSum(onHand', v)
      BY FreeMoves
    <3>2. RowSum(onHand', v) = RowSum(onHand, v)  BY <1>1
    <3>3. /\ RowSum(reserved', v) = RowSum(reserved, v) + q[v] /\ Promised'[o][v] = q[v]
          /\ q[v] \in Nat /\ RowSum(reserved, v) \in Nat /\ RowSum(onHand, v) \in Nat
      BY <1>5, <1>7, <1>8
    <3>. QED  BY <3>1, <3>2, <3>3
  <2>. QED  BY <2>1
<1>10. Free' = [v \in Variants |-> Free[v] - Promised'[o][v]]  BY <1>9, FreeIs
<1>11. \A v \in Variants : Promised'[o][v] <= Free[v]  BY <1>7, <1>8, <1>9
<1>12. Promised' = [Promised EXCEPT ![o] = Promised'[o]]  BY <1>2, OthersPromised
<1>13. SentOff' = SentOff  BY <1>1, SameSent
<1>. QED  BY <1>6, <1>8, <1>10, <1>11, <1>12, <1>13, PoolPromise

\* Units go back to the pool when an order that was sent nothing is over.
LEMMA ReleasePools ==
  ASSUME IInv, IInv', NEW o \in Orders, NEW to, Release(o, to), status[o] \in Quiet,
         status'[o] \in Over, UNCHANGED shipment
  PROVE  PoolStep
<1>1. UNCHANGED <<onHand, moved>> /\ hold' = [hold EXCEPT ![o] = hold'[o]]
  BY DEF Release, IInv, Tables
<1>2. SentOff[o] = Nil
  <2>1. Sent(shipment, o) = NoLines  BY FineUnsent
  <2>. QED  BY <2>1, PoolIs DEF PoolRows, Nil, NoLines
<1>3. Promised'[o] = Nil
  <2>1. \A i \in Items : Live(hold'[o], i) = 0  BY DEF IInv, OrdersOk, OrderFine, OrderOk
  <2>. QED  BY <2>1, NothingPromised
<1>4. Promised' = [Promised EXCEPT ![o] = Nil]  BY <1>1, <1>3, OthersPromised
<1>5. \A v \in Variants : Free'[v] = Free[v] + Promised[o][v]
  <2>1. \A v \in Variants : /\ RowSum(reserved, v) \in Nat /\ RowSum(onHand, v) \in Nat
                            /\ RowSum(reserved', v) \in Nat
    BY Balanced, BalancedNext DEF Balance, RowSum, OfVariant
  <2>2. /\ Promised[o] \in [Variants -> Nat]
        /\ \A v \in Variants : 0 + RowSum(reserved, v) = Promised[o][v] + RowSum(reserved', v)
    BY <1>1, <1>3, PromisedMoves DEF Nil
  <2>3. \A v \in Variants :
          /\ Free[v] \in Nat /\ Free'[v] \in Nat
          /\ Free'[v] + RowSum(reserved', v) + RowSum(onHand, v)
               = Free[v] + RowSum(reserved, v) + RowSum(onHand, v)
    BY <1>1, FreeMoves
  <2>. QED  BY <2>1, <2>2, <2>3
<1>6. Free' = [v \in Variants |-> Free[v] + Promised[o][v]]  BY <1>5, FreeIs
<1>7. SentOff' = SentOff  BY SameSent
<1>. QED  BY <1>2, <1>4, <1>6, <1>7, PoolGiveBack

LEMMA DispatchPools ==
  ASSUME IInv, IInv', NEW o \in Orders, NEW s \in Shipments, NEW q \in Lines,
         Dispatch(o, s, q)
  PROVE  PoolStep
<1>. DEFINE room == [i \in Items |-> hold[o][i].committed]
            t == Taken(q, room)
            row == [status |-> "dispatched", order |-> o, lines |-> q]
<1>1. /\ shipment[s] = NoShipment /\ q # NoLines /\ Covered(q, room)
      /\ onHand' = [i \in Items |-> onHand[i] - t[i]]
      /\ reserved' = [i \in Items |-> reserved[i] - t[i]]
      /\ shipment' = [shipment EXCEPT ![s] = row]
  BY DEF Dispatch, ReservedLess
<1>2. hold' = [hold EXCEPT ![o] = hold'[o]]  BY DEF Dispatch, IInv, Tables
<1>3. room \in [Items -> Nat]
  <2>1. hold[o] \in HoldRows  BY DEF IInv, Tables
  <2>. QED  BY <2>1, RowFields DEF HoldRows
<1>. HIDE DEF room
<1>4. /\ \A i \in Items : t[i] \in Nat
      /\ \A v \in Variants : RowSum(t, v) = q[v]
  BY <1>1, <1>3, TakenOk DEF RowSum
<1>. HIDE DEF t
<1>5. \A v \in Variants : q[v] \in Nat  BY QuantityAssumption DEF Lines
<1>6. \A v \in Variants :
        /\ RowSum(reserved, v) \in Nat /\ RowSum(onHand, v) \in Nat
        /\ RowSum(reserved', v) \in Nat /\ RowSum(onHand', v) \in Nat
  BY Balanced, BalancedNext DEF Balance, RowSum, OfVariant
<1>7. \A v \in Variants : /\ RowSum(reserved, v) = RowSum(reserved', v) + q[v]
                          /\ RowSum(onHand, v) = RowSum(onHand', v) + q[v]
  <2>1. \A i \in Items : /\ reserved[i] \in Nat /\ onHand[i] \in Nat /\ t[i] \in Nat
                         /\ reserved'[i] = reserved[i] - t[i] /\ onHand'[i] = onHand[i] - t[i]
    BY <1>1, <1>4 DEF IInv, Tables
  <2>2. \A i \in Items : /\ reserved'[i] \in Int /\ onHand'[i] \in Int /\ t[i] \in Int
                         /\ reserved[i] = reserved'[i] + t[i] /\ onHand[i] = onHand'[i] + t[i]
    BY <2>1
  <2>3. \A v \in Variants : /\ RowSum(reserved, v) = RowSum(reserved', v) + RowSum(t, v)
                            /\ RowSum(onHand, v) = RowSum(onHand', v) + RowSum(t, v)
    BY <2>2, RowSumPlus DEF OfVariant
  <2>. QED  BY <1>4, <2>3
<1>8. /\ \A v \in Variants : SentOff[o][v] \in Nat /\ SentOff'[o][v] = SentOff[o][v] + q[v]
      /\ SentOff'[o] \in [Variants -> Nat]
      /\ SentOff' = [SentOff EXCEPT ![o] = SentOff'[o]]
  <2>1. row \in Shipment /\ row.order = o /\ row.lines = q /\ row.status = "dispatched"
    BY <1>1 DEF Shipment
  <2>2. shipment \in ShipmentTable  BY DEF IInv, Tables
  <2>. HIDE DEF row
  <2>3. AddedEffect(shipment, shipment', row)  BY <1>1, <2>1, <2>2, ShipmentAdded
  <2>4. /\ Sent(shipment', o) = [v \in Variants |-> Sent(shipment, o)[v] + q[v]]
        /\ \A p : p # o => Sent(shipment', p) = Sent(shipment, p)
    BY <2>1, <2>3 DEF AddedEffect, SameShipments
  <2>5. Sent(shipment, o) \in [Variants -> Nat]  BY <2>2, SentUnits
  <2>6. /\ SentOff = [p \in Orders |-> Sent(shipment, p)]
        /\ SentOff' = [p \in Orders |-> Sent(shipment', p)]
    BY PoolIs, PoolIsNext DEF PoolRows
  <2>7. \A p \in Orders : p # o => SentOff'[p] = SentOff[p]  BY <2>4, <2>6
  <2>. QED  BY <1>5, <2>4, <2>5, <2>6, <2>7
<1>9. \A v \in Variants : /\ Promised[o][v] \in Nat /\ Promised'[o][v] \in Nat
                          /\ Promised'[o][v] = Promised[o][v] - q[v]
  <2>1. \A v \in Variants :
          /\ Promised[o][v] \in Nat /\ Promised'[o][v] \in Nat
          /\ Promised'[o][v] + (RowSum(reserved', v) + q[v])
               = Promised[o][v] + RowSum(reserved', v)
    BY <1>2, <1>7, PromisedMoves
  <2>. QED  BY <1>5, <1>6, <2>1
<1>10. Free' = Free
  <2>1. \A v \in Variants :
          /\ Free[v] \in Nat /\ Free'[v] \in Nat
          /\ Free'[v] + RowSum(reserved', v) + (RowSum(onHand', v) + q[v])
               = Free[v] + (RowSum(reserved', v) + q[v]) + RowSum(onHand', v)
    BY <1>7, FreeMoves
  <2>2. \A v \in Variants : Free'[v] = Free[v]  BY <1>5, <1>6, <2>1
  <2>. QED  BY <2>2, FreeIs
<1>11. \A v \in Variants : /\ SentOff[o][v] <= SentOff'[o][v]
                           /\ SentOff'[o][v] - SentOff[o][v] = q[v] /\ q[v] <= Promised[o][v]
  BY <1>5, <1>8, <1>9
<1>12. Promised' = [Promised EXCEPT ![o] =
         [v \in Variants |-> Promised[o][v] - (SentOff'[o][v] - SentOff[o][v])]]
  <2>1. Promised'[o] = [v \in Variants |-> Promised'[o][v]]  BY <1>2, PromisedMoves
  <2>2. Promised'[o] = [v \in Variants |-> Promised[o][v] - (SentOff'[o][v] - SentOff[o][v])]
    BY <1>9, <1>11, <2>1
  <2>3. Promised' = [Promised EXCEPT ![o] = Promised'[o]]  BY <1>2, OthersPromised
  <2>. QED  BY <2>2, <2>3
<1>. QED  BY <1>8, <1>10, <1>11, <1>12, PoolSend

\* Steps that move no unit: what the rows have and reserve stays the same.
LEMMA QuietPools ==
  ASSUME IInv, IInv', NEW o \in Orders, hold' = [hold EXCEPT ![o] = hold'[o]],
         UNCHANGED stockVars, SentOff' = SentOff
  PROVE  PoolStep
<1>1. \A v \in Variants : RowSum(reserved, v) \in Nat /\ RowSum(onHand, v) \in Nat
  BY Balanced DEF Balance
<1>2. reserved' = reserved /\ onHand' = onHand  BY DEF stockVars
<1>3. Free' = Free
  <2>1. \A v \in Variants : Free'[v] = Free[v]  BY <1>1, <1>2, FreeMoves
  <2>. QED  BY <2>1, FreeIs
<1>4. Promised' = Promised
  <2>1. ASSUME NEW v \in Variants PROVE Promised'[o][v] = Promised[o][v]
    <3>1. /\ Promised[o][v] \in Nat /\ Promised'[o][v] \in Nat
          /\ Promised'[o][v] + RowSum(reserved, v) = Promised[o][v] + RowSum(reserved', v)
      BY PromisedMoves
    <3>2. RowSum(reserved', v) = RowSum(reserved, v) /\ RowSum(reserved, v) \in Nat
      BY <1>1, <1>2
    <3>. QED  BY <3>1, <3>2
  <2>2. Promised'[o] = Promised[o]  BY <2>1, PromisedMoves
  <2>3. Promised' = [Promised EXCEPT ![o] = Promised[o]]  BY <2>2, OthersPromised
  <2>. QED  BY <2>3 DEF Promised
<1>. QED  BY <1>3, <1>4, PoolStutter

LEMMA DeliverPools ==
  ASSUME IInv, IInv', NEW s \in Shipments, Deliver(s)
  PROVE  PoolStep
<1>1. shipment[s] # NoShipment /\ shipment \in ShipmentTable  BY DEF Deliver, IInv, Tables
<1>2. shipment[s].order \in Orders
  <2>1. shipment[s] \in Shipment  BY <1>1 DEF ShipmentTable
  <2>. QED  BY <2>1 DEF Shipment
<1>3. shipment' = [shipment EXCEPT ![s].status = "delivered"] /\ UNCHANGED <<stockVars, hold>>
  BY DEF Deliver
<1>4. ArrivedEffect(shipment, shipment', s)  BY <1>1, <1>3, ShipmentArrived
<1>5. SentOff' = SentOff
  <2>1. \A p \in Orders : Sent(shipment', p) = Sent(shipment, p)  BY <1>4 DEF ArrivedEffect
  <2>. QED  BY <2>1, PoolIs, PoolIsNext DEF PoolRows
<1>6. hold' = [hold EXCEPT ![shipment[s].order] = hold'[shipment[s].order]]
  BY <1>3 DEF IInv, Tables
<1>. QED  BY <1>2, <1>3, <1>5, <1>6, QuietPools

LEMMA PoolNext ==
  ASSUME IInv, IInv', [Next]_vars
  PROVE  PoolStep
<1>1. CASE UNCHANGED vars
  <2>1. UNCHANGED <<onHand, reserved, hold, shipment>>  BY <1>1 DEF vars, stockVars
  <2>2. \A v \in Variants : RowSum(available, v)' = RowSum(available, v)
    BY <2>1 DEF RowSum, available, OfVariant
  <2>3. \A o \in Orders, v \in Variants : LiveOf(o, v)' = LiveOf(o, v)
    BY <2>1 DEF LiveOf, LiveRow, RowSum, OfVariant
  <2>4. \A o \in Orders : Sent(shipment', o) = Sent(shipment, o)  BY <2>1
  <2>5. Free' = Free  BY <2>2, PoolIs, PoolIsNext DEF PoolRows
  <2>6. Promised' = Promised  BY <2>3, PoolIs, PoolIsNext DEF PoolRows
  <2>7. SentOff' = SentOff  BY <2>4, PoolIs, PoolIsNext DEF PoolRows
  <2>. QED  BY <2>5, <2>6, <2>7, PoolStutter
<1>2. ASSUME NEW o \in Orders, Commit(o) \/ Allocate(o) PROVE PoolStep
  <2>1. /\ hold' = [hold EXCEPT ![o] = hold'[o]] /\ UNCHANGED <<stockVars, shipment>>
    BY <1>2 DEF Commit, Allocate, IInv, Tables
  <2>. QED  BY <2>1, SameSent, QuietPools
<1>3. ASSUME NEW o \in Orders, Expire(o) PROVE PoolStep
  <2>1. /\ Release(o, "expired") /\ UNCHANGED shipment
        /\ status[o] \in Quiet /\ status'[o] \in Over
    BY <1>3 DEF Expire, Quiet, Over, IInv, Tables
  <2>. QED  BY <2>1, ReleasePools
<1>4. ASSUME NEW o \in Orders, NEW shopper \in BOOLEAN, Cancel(o, shopper) PROVE PoolStep
  <2>1. /\ Release(o, "released") /\ UNCHANGED shipment
        /\ status[o] \in Quiet /\ status'[o] \in Over
    BY <1>4 DEF Cancel, Cancellable, Quiet, Over, IInv, Tables
  <2>. QED  BY <2>1, ReleasePools
<1>. QED
  BY <1>1, <1>2, <1>3, <1>4, AdjustPools, ReservePools, DispatchPools, DeliverPools DEF Next

LEMMA PoolInit == Init => Pool!Init
<1>. SUFFICES ASSUME Init PROVE Pool!Init  OBVIOUS
<1>1. IInv  BY InvInit
<1>2. Free = Nil
  <2>. DEFINE f == available
  <2>1. \A i \in Items : f[i] = 0
    BY QuantityAssumption DEF Init, available
  <2>2. ASSUME NEW v \in Variants PROVE RowSum(f, v) = 0
    <3>. HIDE DEF f
    <3>1. \A i \in OfVariant(v) : f[i] \in Nat /\ f[i] \in Int /\ f[i] = f[i] + f[i]
      BY <2>1 DEF OfVariant
    <3>. DEFINE n == RowSum(f, v)
    <3>2. n \in Nat /\ n = n + n  BY <3>1, RowSumNat, RowSumPlus
    <3>. HIDE DEF n
    <3>3. n = 0  BY <3>2
    <3>. QED  BY <3>3 DEF n
  <2>. QED  BY <1>1, <2>2, PoolIs DEF PoolRows, Nil
<1>3. ASSUME NEW o \in Orders PROVE Promised[o] = Nil /\ SentOff[o] = Nil
  <2>1. status[o] = "absent" /\ status[o] \in Quiet  BY DEF Init, Quiet
  <2>2. OrderOk(hold[o], "absent", lines[o], NoLines, {}, {}) /\ Sent(shipment, o) = NoLines
    BY <1>1, <2>1, FineUnsent
  <2>3. \A i \in Items : Live(hold[o], i) = 0  BY <2>2, NoRow DEF OrderOk, Live
  <2>4. SentOff[o] = Nil  BY <1>1, <2>2, PoolIs DEF PoolRows, Nil, NoLines
  <2>. QED  BY <1>1, <2>3, <2>4, NothingPromised
<1>4. Promised = [o \in Orders |-> Nil] /\ SentOff = [o \in Orders |-> Nil]
  BY <1>1, <1>3, PoolIs DEF PoolRows
<1>. QED
  BY <1>2, <1>4, Zenon DEF Pool!Init, Pool!Nothing, Free, Promised, SentOff, Nil

\* To a shopper the stock is one pool per variant: units that nobody was
\* promised are promised once, and leave with their order or go back, wherever
\* they lie and however a dispatch splits the holds.
THEOREM InventoryImplementsPool == Spec => PoolSpec
<1>1. IInv /\ IInv' /\ [Next]_vars => [Pool!Next]_(Pool!vars)
  BY PoolNext DEF PoolStep
<1>. QED  BY <1>1, PoolInit, InventoryInvariant, PTL DEF Spec, PoolSpec, Pool!Spec

-------------------------------------------------------------------------------
(***************************************************************************)
(* The locks of stock rows                                                 *)
(*                                                                         *)
(* Inventory takes a transaction as one step because it locks what it      *)
(* moves.  StockLocks has these locks one by one; what follows is about    *)
(* who can wait for whom, for any number of transactions and rows.         *)
(***************************************************************************)
CONSTANTS OrderLines, NoTxn

Locks == INSTANCE StockLocks WITH Lines <- OrderLines, None <- NoTxn

\* What StockLocks assumes of these constants: rows and variants are numbered.
LockConstants ==
  /\ Rows \subseteq Nat /\ Variants \subseteq Nat /\ IsFiniteSet(Rows)
  /\ VariantOf \in [Rows -> Variants]
  /\ OrderLines \in [Orders -> Seq(Variants)]
  /\ NoTxn \notin Txns /\ NoTxn \notin Locks!Kinds

LockTables == /\ kind \in [Txns -> Locks!Kinds \cup {NoTxn}]
              /\ todo \in [Txns -> SUBSET (Nat \X Rows)]
              /\ owner \in [Rows -> Txns \cup {NoTxn}]
              /\ \A t \in Txns : kind[t] = NoTxn =>
                   todo[t] = {} /\ \A r \in Rows : owner[r] # t

\* All but dispatches and sweeps take their rows by a rank that their kind gives: checkouts
\* by variant and id, the others by id.  Each wants rows that come after those it has.
Ranked(what, r) == <<IF what = "checkout" THEN VariantOf[r] ELSE 0, r>>
InRank(what, P) == \A p \in P : p = Ranked(what, p[2])
Upward == \A t \in Txns : kind[t] \notin {"dispatch", "sweep"} =>
            /\ InRank(kind[t], todo[t])
            /\ \A r \in Rows : owner[r] = t =>
                 \A p \in todo[t] : Before(Ranked(kind[t], r), p)

\* An adjustment wants one row, and has none before.
AdjustsOne == \A t \in Txns : kind[t] = "adjust" =>
                \A p, q \in todo[t] : p = q /\ \A r \in Rows : owner[r] # t

LocksInv == LockTables /\ Upward /\ AdjustsOne

LEMMA LocksInit == LockConstants /\ Locks!Init => LocksInv
BY DEF LockConstants, Locks!Init, Locks!Kinds, LocksInv, LockTables, Upward, AdjustsOne, InRank

LEMMA LocksBegin ==
  ASSUME LockConstants, LocksInv, NEW t \in Txns, NEW what \in Locks!Kinds,
         NEW P \in SUBSET (Nat \X Rows), Locks!Begin(t, what, P),
         what \notin {"dispatch", "sweep"} => InRank(what, P),
         what = "adjust" => \A p, q \in P : p = q
  PROVE  LocksInv'
<1>1. /\ kind[t] = NoTxn /\ kind' = [kind EXCEPT ![t] = what]
      /\ todo' = [todo EXCEPT ![t] = P] /\ owner' = owner
  BY DEF Locks!Begin
<1>2. \A r \in Rows : owner[r] # t  BY <1>1 DEF LocksInv, LockTables
<1>3. /\ kind'[t] = what /\ todo'[t] = P
      /\ \A u \in Txns \ {t} : kind'[u] = kind[u] /\ todo'[u] = todo[u]
  BY <1>1 DEF LocksInv, LockTables
<1>4. LockTables'
  <2>1. /\ kind' \in [Txns -> Locks!Kinds \cup {NoTxn}]
        /\ todo' \in [Txns -> SUBSET (Nat \X Rows)]
        /\ owner' \in [Rows -> Txns \cup {NoTxn}]
    BY <1>1 DEF LocksInv, LockTables
  <2>2. ASSUME NEW u \in Txns, kind'[u] = NoTxn
        PROVE  todo'[u] = {} /\ \A r \in Rows : owner'[r] # u
    <3>1. u # t  BY <1>3, <2>2 DEF LockConstants
    <3>. QED  BY <1>1, <1>3, <2>2, <3>1 DEF LocksInv, LockTables
  <2>. QED  BY <2>1, <2>2 DEF LockTables
<1>5. Upward'
  <2>1. SUFFICES ASSUME NEW u \in Txns, kind'[u] \notin {"dispatch", "sweep"}
                 PROVE  /\ InRank(kind'[u], todo'[u])
                        /\ \A r \in Rows : owner'[r] = u =>
                             \A p \in todo'[u] : Before(Ranked(kind'[u], r), p)
    BY DEF Upward, InRank, Ranked, Before
  <2>2. CASE u = t  BY <1>1, <1>2, <1>3, <2>1, <2>2
  <2>3. CASE u # t  BY <1>1, <1>3, <2>1, <2>3 DEF LocksInv, Upward
  <2>. QED  BY <2>2, <2>3
<1>6. AdjustsOne'
  <2>1. ASSUME NEW u \in Txns, kind'[u] = "adjust", NEW p \in todo'[u], NEW q \in todo'[u]
        PROVE  p = q /\ \A r \in Rows : owner'[r] # u
    <3>1. CASE u = t  BY <1>1, <1>2, <1>3, <2>1, <3>1
    <3>2. CASE u # t  BY <1>1, <1>3, <2>1, <3>2 DEF LocksInv, AdjustsOne
    <3>. QED  BY <3>1, <3>2
  <2>. QED  BY <2>1 DEF AdjustsOne
<1>. QED  BY <1>4, <1>5, <1>6 DEF LocksInv

LEMMA LocksLock ==
  ASSUME LockConstants, LocksInv, NEW t \in Txns, Locks!Lock(t)
  PROVE  LocksInv'
<1>1. PICK p \in todo[t] :
        /\ IsNext(t, p) /\ owner[p[2]] \in {NoTxn, t}
        /\ owner' = [owner EXCEPT ![p[2]] = t]
        /\ todo' = [todo EXCEPT ![t] = todo[t] \ {p}]
        /\ kind' = kind
  BY DEF Locks!Lock, Locks!IsNext, Locks!Before, IsNext, Before
<1>2. p[2] \in Rows  BY <1>1 DEF LocksInv, LockTables
<1>3. /\ todo'[t] = todo[t] \ {p}
      /\ \A u \in Txns \ {t} : /\ todo'[u] = todo[u]
                               /\ \A r \in Rows : owner'[r] = u => owner[r] = u
      /\ \A r \in Rows : owner'[r] = t => owner[r] = t \/ r = p[2]
  BY <1>1, <1>2 DEF LocksInv, LockTables
<1>4. LockTables'
  <2>1. /\ kind' \in [Txns -> Locks!Kinds \cup {NoTxn}]
        /\ todo' \in [Txns -> SUBSET (Nat \X Rows)]
        /\ owner' \in [Rows -> Txns \cup {NoTxn}]
    BY <1>1, <1>2 DEF LocksInv, LockTables
  <2>2. ASSUME NEW u \in Txns, kind'[u] = NoTxn
        PROVE  todo'[u] = {} /\ \A r \in Rows : owner'[r] # u
    <3>1. todo[u] = {} /\ \A r \in Rows : owner[r] # u
      BY <1>1, <2>2 DEF LocksInv, LockTables
    <3>2. u # t  BY <1>1, <3>1
    <3>. QED  BY <1>3, <3>1, <3>2
  <2>. QED  BY <2>1, <2>2 DEF LockTables
<1>5. Upward'
  <2>1. SUFFICES ASSUME NEW u \in Txns, kind[u] \notin {"dispatch", "sweep"}
                 PROVE  /\ InRank(kind[u], todo'[u])
                        /\ \A r \in Rows : owner'[r] = u =>
                             \A q \in todo'[u] : Before(Ranked(kind[u], r), q)
    BY <1>1 DEF Upward, InRank, Ranked, Before
  <2>2. /\ InRank(kind[u], todo[u])
        /\ \A r \in Rows : owner[r] = u => \A q \in todo[u] : Before(Ranked(kind[u], r), q)
    BY <2>1 DEF LocksInv, Upward
  <2>3. CASE u = t
    <3>1. p = Ranked(kind[u], p[2])  BY <1>1, <2>2, <2>3 DEF InRank
    <3>2. \A q \in todo'[u] : Before(p, q)  BY <1>1, <1>3, <2>3 DEF IsNext
    <3>3. InRank(kind[u], todo'[u])  BY <1>3, <2>2, <2>3 DEF InRank
    <3>. QED  BY <1>3, <2>2, <2>3, <3>1, <3>2, <3>3
  <2>4. CASE u # t  BY <1>3, <2>2, <2>4
  <2>. QED  BY <2>3, <2>4
<1>6. AdjustsOne'
  <2>1. ASSUME NEW u \in Txns, kind[u] = "adjust", NEW q \in todo'[u], NEW s \in todo'[u]
        PROVE  q = s /\ \A r \in Rows : owner'[r] # u
    <3>1. CASE u = t
      <4>1. q \in todo[t] /\ q # p  BY <1>3, <2>1, <3>1
      <4>. QED  BY <1>1, <2>1, <3>1, <4>1 DEF LocksInv, AdjustsOne
    <3>2. CASE u # t  BY <1>3, <2>1, <3>2 DEF LocksInv, AdjustsOne
    <3>. QED  BY <3>1, <3>2
  <2>. QED  BY <1>1, <2>1 DEF AdjustsOne
<1>. QED  BY <1>4, <1>5, <1>6 DEF LocksInv

LEMMA LocksEnd ==
  ASSUME LockConstants, LocksInv, NEW t \in Txns, Locks!End(t)
  PROVE  LocksInv'
<1>1. /\ owner' = [r \in Rows |-> IF owner[r] = t THEN NoTxn ELSE owner[r]]
      /\ todo' = [todo EXCEPT ![t] = {}] /\ kind' = [kind EXCEPT ![t] = NoTxn]
  BY DEF Locks!End, Locks!Freed
<1>2. \A r \in Rows : \A u \in Txns : owner'[r] = u => owner[r] = u /\ u # t
  BY <1>1 DEF LockConstants
<1>3. \A u \in Txns : u # t => kind'[u] = kind[u] /\ todo'[u] = todo[u]
  BY <1>1 DEF LocksInv, LockTables
<1>4. kind'[t] = NoTxn /\ todo'[t] = {}  BY <1>1 DEF LocksInv, LockTables
<1>5. LockTables'
  <2>1. /\ kind' \in [Txns -> Locks!Kinds \cup {NoTxn}]
        /\ todo' \in [Txns -> SUBSET (Nat \X Rows)]
        /\ owner' \in [Rows -> Txns \cup {NoTxn}]
    BY <1>1 DEF LocksInv, LockTables
  <2>2. ASSUME NEW u \in Txns, kind'[u] = NoTxn
        PROVE  todo'[u] = {} /\ \A r \in Rows : owner'[r] # u
    BY <1>2, <1>3, <1>4, <2>2 DEF LocksInv, LockTables
  <2>. QED  BY <2>1, <2>2 DEF LockTables
<1>6. Upward'
  <2>1. SUFFICES ASSUME NEW u \in Txns, kind'[u] \notin {"dispatch", "sweep"}
                 PROVE  /\ InRank(kind'[u], todo'[u])
                        /\ \A r \in Rows : owner'[r] = u =>
                             \A q \in todo'[u] : Before(Ranked(kind'[u], r), q)
    BY DEF Upward, InRank, Ranked, Before
  <2>2. CASE u = t  BY <1>4, <2>2 DEF InRank
  <2>3. CASE u # t  BY <1>2, <1>3, <2>1, <2>3 DEF LocksInv, Upward
  <2>. QED  BY <2>2, <2>3
<1>7. AdjustsOne'
  <2>1. ASSUME NEW u \in Txns, kind'[u] = "adjust", NEW p \in todo'[u], NEW q \in todo'[u]
        PROVE  p = q /\ \A r \in Rows : owner'[r] # u
    <3>1. u # t  BY <1>4, <2>1
    <3>. QED  BY <1>2, <1>3, <2>1, <3>1 DEF LocksInv, AdjustsOne
  <2>. QED  BY <2>1 DEF AdjustsOne
<1>. QED  BY <1>5, <1>6, <1>7 DEF LocksInv

LEMMA ReserveRanked ==
  ASSUME LockConstants, NEW V
  PROVE  /\ Locks!ReserveLocks(V) \in SUBSET (Nat \X Rows)
         /\ InRank("checkout", Locks!ReserveLocks(V))
<1>1. \A r \in Rows : VariantOf[r] \in Nat  BY DEF LockConstants
<1>. QED  BY <1>1 DEF Locks!ReserveLocks, InRank, Ranked

LEMMA ReleaseRanked ==
  ASSUME NEW o, NEW H \in SUBSET Rows
  PROVE  /\ Locks!ReleaseLocks(o, H) \in SUBSET (Nat \X Rows)
         /\ InRank("cancel", Locks!ReleaseLocks(o, H))
BY DEF Locks!ReleaseLocks, Locks!HoldsOf, InRank, Ranked

LEMMA LocksNext ==
  ASSUME LockConstants, LocksInv, [Locks!Next]_(Locks!vars)
  PROVE  LocksInv'
<1>1. CASE UNCHANGED Locks!vars
  <2>1. UNCHANGED <<kind, todo, owner>>  BY <1>1 DEF Locks!vars
  <2>. QED
    BY <2>1 DEF LocksInv, LockTables, Upward, AdjustsOne, InRank, Ranked, Before
<1>2. ASSUME NEW t \in Txns,
             Locks!Commit(t) \/ Locks!Refused(t) \/ Locks!Victim(t)
      PROVE  LocksInv'
  BY <1>2, LocksEnd DEF Locks!Commit, Locks!Refused, Locks!Victim
<1>3. ASSUME NEW t \in Txns, NEW V, Locks!Checkout(t, V) PROVE LocksInv'
  <2>1. "checkout" \in Locks!Kinds  BY DEF Locks!Kinds
  <2>. QED  BY <1>3, <2>1, ReserveRanked, LocksBegin DEF Locks!Checkout
<1>4. ASSUME NEW t \in Txns, NEW r \in Rows, Locks!Adjust(t, r) PROVE LocksInv'
  <2>1. "adjust" \in Locks!Kinds  BY DEF Locks!Kinds
  <2>2. {<<0, r>>} \in SUBSET (Nat \X Rows)  OBVIOUS
  <2>3. InRank("adjust", {<<0, r>>})  BY DEF InRank, Ranked
  <2>. QED  BY <1>4, <2>1, <2>2, <2>3, LocksBegin DEF Locks!Adjust
<1>5. ASSUME NEW t \in Txns, NEW o \in Orders, NEW H \in SUBSET Rows, Locks!Cancel(t, o, H)
      PROVE  LocksInv'
  <2>1. "cancel" \in Locks!Kinds  BY DEF Locks!Kinds
  <2>. QED  BY <1>5, <2>1, ReleaseRanked, LocksBegin DEF Locks!Cancel
<1>6. ASSUME NEW t \in Txns, NEW o \in Orders, NEW H \in SUBSET Rows, NEW V,
             Locks!Dispatch(t, o, H, V)
      PROVE  LocksInv'
  <2>1. "dispatch" \in Locks!Kinds  BY DEF Locks!Kinds
  <2>2. DOMAIN OrderLines[o] \subseteq Nat
    <3>1. OrderLines[o] \in Seq(Variants)  BY DEF LockConstants
    <3>. QED  BY <3>1
  <2>3. Locks!DispatchLocks(o, H, V) \in SUBSET (Nat \X Rows)
    BY <2>2 DEF Locks!DispatchLocks
  <2>. QED  BY <1>6, <2>1, <2>3, LocksBegin DEF Locks!Dispatch
<1>7. ASSUME NEW t \in Txns, NEW S \in SUBSET Orders, NEW H \in SUBSET Rows,
             NEW place \in Locks!Places(S), Locks!Sweep(t, place, H)
      PROVE  LocksInv'
  <2>1. "sweep" \in Locks!Kinds  BY DEF Locks!Kinds
  <2>2. \A o \in DOMAIN place : place[o] \in Nat
    <3>1. place \in [S -> 1..Locks!Cardinality(S)]
      BY DEF Locks!Places, Locks!Bijection, Locks!Injection
    <3>2. 1..Locks!Cardinality(S) \subseteq Nat  OBVIOUS
    <3>. QED  BY <3>1, <3>2
  <2>3. Locks!SweepLocks(place, H) \in SUBSET (Nat \X Rows)
    BY <2>2 DEF Locks!SweepLocks, Locks!HoldsOf
  <2>. QED  BY <1>7, <2>1, <2>3, LocksBegin DEF Locks!Sweep
<1>8. CASE Locks!Next
  <2>1. PICK t \in Txns :
          \/ Locks!Lock(t) \/ Locks!Commit(t) \/ Locks!Refused(t) \/ Locks!Victim(t)
          \/ \E V \in SUBSET Variants : Locks!Checkout(t, V)
          \/ \E r \in Rows : Locks!Adjust(t, r)
          \/ \E o \in Orders, H \in SUBSET Rows :
               \/ Locks!Cancel(t, o, H)
               \/ \E V \in SUBSET Variants : Locks!Dispatch(t, o, H, V)
          \/ \E S \in SUBSET Orders, H \in SUBSET Rows :
               \E place \in Locks!Places(S) : Locks!Sweep(t, place, H)
    BY <1>8 DEF Locks!Next
  <2>. QED  BY <1>2, <1>3, <1>4, <1>5, <1>6, <1>7, <2>1, LocksLock
<1>. QED  BY <1>1, <1>8

\* The last of a finite set of numbers.
LEMMA LastNumber ==
  ASSUME NEW W, IsFiniteSet(W), W \subseteq Nat, W # {}
  PROVE  \E m \in W : \A w \in W : w <= m
<1>. DEFINE R == {p \in W \X W : p[2] <= p[1]}
<1>1. \A i, j \in W : <<i, j>> \in R <=> j <= i  OBVIOUS
<1>2. \A i, j, k \in W : (i <= j \/ j <= i) /\ (j <= i /\ k <= j => k <= i)  OBVIOUS
<1>. HIDE DEF R
<1>3. Connected(R, W)  BY <1>1, <1>2 DEF Connected
<1>4. Transitive(R, W)  BY <1>1, <1>2 DEF Transitive
<1>5. PICK m \in W : FirstOf(R, W, m)  BY <1>3, <1>4, FirstExists
<1>6. \A w \in W : w = m \/ <<m, w>> \in R  BY <1>5 DEF FirstOf
<1>7. \A w \in W : w \in Nat  OBVIOUS
<1>8. ASSUME NEW w \in W PROVE w <= m
  <2>1. CASE w = m  BY <1>7, <2>1
  <2>2. CASE <<m, w>> \in R  BY <1>1, <2>2
  <2>. QED  BY <1>6, <2>1, <2>2
<1>. QED  BY <1>8

\* The rows of a circle: S waits for them, and has them.
Contested(S) == {r \in Rows : /\ owner[r] \in S
                             /\ \E t \in S \ {owner[r]} : \E p \in todo[t] :
                                  IsNext(t, p) /\ p[2] = r}

\* Whoever has one of them waits for another one.
LEMMA CircleGoesOn ==
  ASSUME LocksInv, NEW S \in SUBSET Txns, Cycle(S)
  PROVE  /\ Contested(S) # {}
         /\ \A m \in Contested(S) : \E p \in todo[owner[m]] :
              IsNext(owner[m], p) /\ p[2] \in Contested(S) /\ owner[p[2]] # owner[m]
<1>1. \A t \in S : \E p \in todo[t] :
        IsNext(t, p) /\ p[2] \in Contested(S) /\ owner[p[2]] # t
  BY DEF Cycle, Contested, LocksInv, LockTables
<1>. QED  BY <1>1 DEF Cycle, Contested

\* Without dispatch and sweep, who has the last contested row waits for an earlier one:
\* a checkout that goes backwards.
LEMMA SomeoneGoesBackwards ==
  ASSUME LockConstants, LocksInv, NEW S \in SUBSET Txns, Cycle(S),
         \A t \in S : kind[t] \notin {"dispatch", "sweep"}
  PROVE  \E t \in S : kind[t] = "checkout" /\ Backwards(t)
<1>1. Contested(S) # {} /\ Contested(S) \subseteq Rows  BY CircleGoesOn DEF Contested
<1>2. PICK m \in Contested(S) : \A w \in Contested(S) : w <= m
  <2>1. IsFiniteSet(Contested(S)) /\ Contested(S) \subseteq Nat
    BY <1>1, FS_Subset DEF LockConstants
  <2>. QED  BY <1>1, <2>1, LastNumber
<1>. DEFINE t == owner[m]
<1>3. t \in S /\ t \in Txns /\ m \in Rows  BY DEF Contested
<1>4. PICK p \in todo[t] : IsNext(t, p) /\ p[2] \in Contested(S) /\ owner[p[2]] # t
  BY CircleGoesOn
<1>5. p = Ranked(kind[t], p[2]) /\ Before(Ranked(kind[t], m), p)
  BY <1>3, <1>4 DEF LocksInv, Upward, InRank
<1>6. p[2] \in Rows /\ p[2] \in Nat /\ m \in Nat /\ p[2] <= m /\ p[2] # m
  BY <1>1, <1>2, <1>3, <1>4 DEF LockConstants
<1>7. kind[t] = "checkout"
  <2>1. CASE kind[t] # "checkout"
    <3>1. m < p[2]  BY <1>5, <1>6, <2>1 DEF Ranked, Before
    <3>. QED  BY <1>6, <3>1
  <2>. QED  BY <2>1
<1>8. VariantOf[m] < VariantOf[p[2]]
  <2>1. VariantOf[m] < VariantOf[p[2]] \/ m < p[2]
    BY <1>5, <1>7 DEF Ranked, Before
  <2>. QED  BY <1>6, <2>1
<1>9. p[2] < m  BY <1>6
<1>. QED  BY <1>3, <1>4, <1>7, <1>8, <1>9 DEF Backwards

\* The last of a finite set of rows by variant and id.
LEMMA LastRanked ==
  ASSUME LockConstants, NEW W \in SUBSET Rows, W # {}
  PROVE  \E m \in W : \A w \in W : ~Before(Ranked("checkout", m), Ranked("checkout", w))
<1>. DEFINE R == {p \in W \X W : Before(Ranked("checkout", p[2]), Ranked("checkout", p[1]))}
<1>1. \A r \in W : r \in Nat /\ VariantOf[r] \in Nat  BY DEF LockConstants
<1>2. \A i, j \in W : <<i, j>> \in R <=>
        VariantOf[j] < VariantOf[i] \/ (VariantOf[j] = VariantOf[i] /\ j < i)
  BY DEF Before, Ranked
<1>3. IsFiniteSet(W)  BY FS_Subset DEF LockConstants
<1>. HIDE DEF R
<1>4. Connected(R, W)  BY <1>1, <1>2 DEF Connected
<1>5. Transitive(R, W)  BY <1>1, <1>2 DEF Transitive
<1>6. PICK m \in W : FirstOf(R, W, m)  BY <1>3, <1>4, <1>5, FirstExists
<1>7. ASSUME NEW w \in W PROVE ~Before(Ranked("checkout", m), Ranked("checkout", w))
  <2>1. w = m \/ <<m, w>> \in R  BY <1>6 DEF FirstOf
  <2>2. w = m \/ VariantOf[w] < VariantOf[m] \/ (VariantOf[w] = VariantOf[m] /\ w < m)
    BY <1>2, <2>1
  <2>. QED  BY <1>1, <2>2 DEF Before, Ranked
<1>. QED  BY <1>7

\* Without dispatch, sweep and cancellation, who has the last contested row would wait
\* for a later one.
LEMMA SomeoneCancels ==
  ASSUME LockConstants, LocksInv, NEW S \in SUBSET Txns, Cycle(S),
         \A t \in S : kind[t] \notin {"dispatch", "sweep"}
  PROVE  \E t \in S : kind[t] = "cancel"
<1>1. SUFFICES ASSUME \A t \in S : kind[t] # "cancel" PROVE FALSE  OBVIOUS
<1>2. Contested(S) # {} /\ Contested(S) \subseteq Rows  BY CircleGoesOn DEF Contested
<1>3. PICK m \in Contested(S) :
        \A w \in Contested(S) : ~Before(Ranked("checkout", m), Ranked("checkout", w))
  BY <1>2, LastRanked
<1>. DEFINE t == owner[m]
<1>4. t \in S /\ t \in Txns /\ m \in Rows  BY DEF Contested
<1>5. PICK p \in todo[t] : IsNext(t, p) /\ p[2] \in Contested(S)  BY CircleGoesOn
<1>6. kind[t] # "adjust"  BY <1>4, <1>5 DEF LocksInv, AdjustsOne
<1>7. kind[t] # NoTxn  BY <1>4, <1>5 DEF LocksInv, LockTables
<1>8. kind[t] = "checkout"
  BY <1>1, <1>4, <1>6, <1>7 DEF LocksInv, LockTables, Locks!Kinds
<1>9. p = Ranked("checkout", p[2]) /\ Before(Ranked("checkout", m), p)
  BY <1>4, <1>5, <1>8 DEF LocksInv, Upward, InRank
<1>. QED  BY <1>3, <1>5, <1>9

\* Whatever the numbers of transactions, rows and orders, a circle of waiting transactions
\* has a dispatch or a sweep in it, or a cancellation and a checkout that goes backwards.
THEOREM StockLocksCircles ==
  ASSUME LockConstants
  PROVE  Locks!Spec => []CirclesHaveCauses
<1>1. Locks!Init => LocksInv  BY LocksInit
<1>2. LocksInv /\ [Locks!Next]_(Locks!vars) => LocksInv'  BY LocksNext
<1>3. LocksInv => CirclesHaveCauses
  BY SomeoneGoesBackwards, SomeoneCancels DEF CirclesHaveCauses
<1>. QED  BY <1>1, <1>2, <1>3, PTL DEF Locks!Spec
===============================================================================
