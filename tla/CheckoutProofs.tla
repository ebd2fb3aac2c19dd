---------------------------- MODULE CheckoutProofs ----------------------------
(***************************************************************************)
(* One order per cart and key, whatever the number of calls, keys, carts   *)
(* and lines.  The inductive invariant says what each phase of a call has  *)
(* locked and found, what an order and its key say of each other, and that *)
(* the response of an online order is stored once.                         *)
(***************************************************************************)
EXTENDS Checkout, TLAPS

\* A key and its order point at each other.
KeyOk(k) == key[k] # None =>
  LET o == order[key[k].order] IN
    /\ o # None
    /\ o.key = k /\ o.cart = key[k].payload.cart /\ o.method = key[k].payload.method
    /\ key[k].response # None => key[k].response.order = key[k].order

\* What a call knows at its program counter.
Early == {"idle", "lookup", "cart", "prepare"}
Sent(r) == req[r].key \in Keys /\ req[r].payload \in Payload
Resumed(r) == /\ Sent(r) /\ key[req[r].key] # None
              /\ key[req[r].key].payload = req[r].payload
CallOk(r) ==
  /\ req[r].pc \in Early => order[r] = None
  /\ req[r].pc \in Active \cup {"done"} => Sent(r)
  /\ req[r].pc \in {"cart", "prepare"} =>
       keyLock[req[r].key] = r /\ key[req[r].key] = None
  /\ req[r].pc = "prepare" =>
       /\ cartLock[req[r].payload.cart] = r
       /\ cart[req[r].payload.cart] = [status |-> "open", lines |-> req[r].lines]
       /\ req[r].lines # 0
  /\ req[r].pc \in {"session", "relock", "respond"} =>
       /\ Resumed(r)
       /\ req[r].order = key[req[r].key].order /\ req[r].seen \in OrderStatus
       /\ req[r].payload.method = IF req[r].pc = "respond" THEN "cod" ELSE "online"
  /\ req[r].pc # "done" => req[r].answer = None
  /\ req[r].answer # None =>
       /\ Resumed(r) /\ req[r].answer.order = key[req[r].key].order
       /\ req[r].payload.method = "online" => req[r].answer = key[req[r].key].response

CInv == /\ TypeOK
        /\ OneOrderPerCartAndKey
        /\ OrderIsItsCart
        /\ \A o \in Placed : key[order[o].key] # None /\ key[order[o].key].order = o
        /\ \A k \in Keys : KeyOk(k)
        /\ \A r \in Requests : CallOk(r)

-------------------------------------------------------------------------------
\* A call that has locked its cart keeps the lines it has loaded.
LEMMA PreparedRow ==
  ASSUME NEW q \in Request, NEW n \in 0..MaxLines
  PROVE  [q EXCEPT !.pc = "prepare", !.lines = n] \in Request
BY DEF Request, Active

\* A call that finds its order takes it over, and goes on where the order needs it.
LEMMA ResumedRow ==
  ASSUME NEW q \in Request, NEW o \in Requests, NEW st \in OrderStatus, NEW p \in Active
  PROVE  [q EXCEPT !.order = o, !.seen = st, !.pc = p] \in Request
BY DEF Request

LEMMA CInvInit == Init => CInv
BY MethodsAssumption, LinesAssumption, NoneAssumption
   DEF Init, CInv, TypeOK, OneOrderPerCartAndKey, OrderIsItsCart, Placed, KeyOk, CallOk, Early,
       Active, Request, Sent, Resumed

\* A step of one call that keeps the orders and the keys, and the locks of the
\* other calls.
LEMMA CallMoves ==
  ASSUME CInv, NEW r \in Requests, NEW row \in Request,
         req' = [req EXCEPT ![r] = row],
         UNCHANGED <<cart, order, key>>,
         keyLock' \in [Keys -> Requests \cup {None}],
         cartLock' \in [Carts -> Requests \cup {None}],
         \A k \in Keys : keyLock[k] \notin {r, None} => keyLock'[k] = keyLock[k],
         \A c \in Carts : cartLock[c] \notin {r, None} => cartLock'[c] = cartLock[c],
         CallOk(r)'
  PROVE  CInv'
<1>1. TypeOK'  BY DEF CInv, TypeOK
<1>2. ASSUME NEW s \in Requests, s # r PROVE CallOk(s)'
  <2>1. req'[s] = req[s] /\ CallOk(s)  BY <1>2 DEF CInv, TypeOK
  <2>2. s # None  BY NoneAssumption
  <2>3. Sent(s) => /\ keyLock[req[s].key] = s => keyLock'[req[s].key] = s
                   /\ cartLock[req[s].payload.cart] = s => cartLock'[req[s].payload.cart] = s
    BY <1>2, <2>2 DEF Sent, Payload
  <2>. QED  BY <2>1, <2>3 DEF CallOk, Sent, Resumed, Active
<1>3. \A s \in Requests : CallOk(s)'  BY <1>2
<1>4. /\ OneOrderPerCartAndKey' /\ OrderIsItsCart'
      /\ (\A o \in Placed : key[order[o].key] # None /\ key[order[o].key].order = o)'
      /\ (\A k \in Keys : KeyOk(k))'
  BY DEF CInv, OneOrderPerCartAndKey, OrderIsItsCart, Placed, KeyOk
<1>. QED  BY <1>1, <1>3, <1>4 DEF CInv

LEMMA ReleaseKeeps ==
  ASSUME CInv, NEW r \in Requests, Release(r)
  PROVE  /\ keyLock' \in [Keys -> Requests \cup {None}]
         /\ cartLock' \in [Carts -> Requests \cup {None}]
         /\ \A k \in Keys : keyLock[k] \notin {r, None} => keyLock'[k] = keyLock[k]
         /\ \A c \in Carts : cartLock[c] \notin {r, None} => cartLock'[c] = cartLock[c]
BY DEF Release, CInv, TypeOK

\* A call that fails leaves nothing behind.
LEMMA FailKeeps ==
  ASSUME CInv, NEW r \in Requests, NEW error \in Refusal, req[r].pc \in Active, Fail(r, error)
  PROVE  CInv'
<1>1. DEFINE row == [req[r] EXCEPT !.pc = "done", !.error = error, !.lines = 0]
<1>2. req[r] \in Request /\ CallOk(r)  BY DEF CInv, TypeOK
<1>3. row \in Request
  <2>1. 0 \in 0..MaxLines  BY LinesAssumption
  <2>2. [req[r] EXCEPT !.lines = 0] \in Request  BY <1>2, <2>1 DEF Request
  <2>3. [[req[r] EXCEPT !.lines = 0] EXCEPT !.error = error] \in Request  BY <2>2 DEF Request
  <2>4. [[[req[r] EXCEPT !.lines = 0] EXCEPT !.error = error] EXCEPT !.pc = "done"] \in Request
    BY <2>3 DEF Request
  <2>5. row = [[[req[r] EXCEPT !.lines = 0] EXCEPT !.error = error] EXCEPT !.pc = "done"]
    BY <1>2 DEF Request
  <2>. QED  BY <2>4, <2>5
<1>4. req' = [req EXCEPT ![r] = row]  BY DEF Fail
<1>5. UNCHANGED <<cart, order, key>> /\ Release(r)  BY DEF Fail
<1>6. req'[r] = row  BY <1>4 DEF CInv, TypeOK
<1>7. /\ row.pc = "done" /\ row.key = req[r].key /\ row.payload = req[r].payload
      /\ row.answer = req[r].answer
  BY <1>2 DEF Request
<1>8. CallOk(r)'
  BY <1>2, <1>5, <1>6, <1>7 DEF CallOk, Sent, Resumed, Active, Early
<1>. QED  BY <1>3, <1>4, <1>5, <1>8, ReleaseKeeps, CallMoves

\* A call that is answered with the order of its key and, for an online order,
\* with the stored response.
LEMMA ReplayKeeps ==
  ASSUME CInv, NEW r \in Requests, NEW body \in Body, req[r].pc \in Active, Replay(r, body),
         Resumed(r), body = key[req[r].key].response
  PROVE  CInv'
<1>1. DEFINE row == [req[r] EXCEPT !.pc = "done", !.answer = body]
<1>2. req[r] \in Request /\ CallOk(r) /\ KeyOk(req[r].key)  BY DEF CInv, TypeOK, Resumed, Sent
<1>3. row \in Request  BY <1>2 DEF Request
<1>4. req' = [req EXCEPT ![r] = row]  BY DEF Replay, Answer
<1>5. UNCHANGED <<cart, order, key>> /\ Release(r)  BY DEF Replay
<1>6. req'[r] = row  BY <1>4 DEF CInv, TypeOK
<1>7. /\ row.pc = "done" /\ row.key = req[r].key /\ row.payload = req[r].payload
      /\ row.answer = body
  BY <1>2 DEF Request
<1>8. body.order = key[req[r].key].order  BY <1>2, NoneAssumption DEF KeyOk, Resumed
<1>9. CallOk(r)'
  BY <1>5, <1>6, <1>7, <1>8 DEF CallOk, Sent, Resumed, Active, Early
<1>. QED  BY <1>3, <1>4, <1>5, <1>9, ReleaseKeeps, CallMoves

\* A call that only moves on: its locks are kept and at most one is added.
LEMMA GoKeeps ==
  ASSUME CInv, NEW r \in Requests,
         \/ \E k \in Keys, p \in Payload : Submit(r, k, p)
         \/ LookupNew(r) \/ LookupResume(r) \/ CreateSession(r)
  PROVE  CInv'
<1>1. req[r] \in Request /\ CallOk(r)  BY DEF CInv, TypeOK
<1>2. UNCHANGED <<cart, order, key, cartLock>>
  BY DEF Submit, LookupNew, LookupResume, CreateSession
<1>3. CASE \E k \in Keys, p \in Payload : Submit(r, k, p)
  <2>1. PICK k \in Keys, p \in Payload : Submit(r, k, p)  BY <1>3
  <2>2. DEFINE row == [req[r] EXCEPT !.pc = "lookup", !.key = k, !.payload = p]
  <2>3. row \in Request  BY <1>1 DEF Request, Active
  <2>4. req' = [req EXCEPT ![r] = row] /\ keyLock' = keyLock  BY <2>1 DEF Submit
  <2>5. req'[r] = row  BY <2>4 DEF CInv, TypeOK
  <2>6. row.pc = "lookup" /\ row.key = k /\ row.payload = p /\ row.answer = req[r].answer
    BY <1>1 DEF Request
  <2>7. CallOk(r)'
    BY <1>1, <1>2, <2>1, <2>5, <2>6 DEF CallOk, Submit, Sent, Resumed, Active, Early
  <2>. QED  BY <1>2, <2>3, <2>4, <2>7, CallMoves DEF CInv, TypeOK
<1>4. CASE LookupNew(r)
  <2>1. DEFINE row == [req[r] EXCEPT !.pc = "cart"]
  <2>2. req[r].pc = "lookup" /\ Sent(r)  BY <1>1, <1>4 DEF LookupNew, CallOk, Active
  <2>3. row \in Request  BY <1>1 DEF Request, Active
  <2>4. req' = [req EXCEPT ![r] = row] /\ keyLock' = [keyLock EXCEPT ![req[r].key] = r]
    BY <1>4 DEF LookupNew, Go
  <2>5. req'[r] = row  BY <2>4 DEF CInv, TypeOK
  <2>6. /\ row.pc = "cart" /\ row.key = req[r].key /\ row.payload = req[r].payload
        /\ row.answer = req[r].answer
    BY <1>1 DEF Request
  <2>7. keyLock[req[r].key] = None /\ keyLock'[req[r].key] = r
    BY <1>4, <2>2, <2>4 DEF LookupNew, KeyFree, CInv, TypeOK, Sent
  <2>8. CallOk(r)'
    BY <1>1, <1>2, <1>4, <2>2, <2>5, <2>6, <2>7
       DEF CallOk, LookupNew, Sent, Resumed, Active, Early
  <2>9. /\ keyLock' \in [Keys -> Requests \cup {None}]
        /\ \A k \in Keys : keyLock[k] \notin {r, None} => keyLock'[k] = keyLock[k]
    BY <2>4, <2>7 DEF CInv, TypeOK
  <2>. QED  BY <1>2, <2>3, <2>4, <2>8, <2>9, CallMoves DEF CInv, TypeOK
<1>5. CASE LookupResume(r)
  <2>1. DEFINE k == req[r].key
               o == key[k].order
               row == [req[r] EXCEPT !.order = o, !.seen = order[o].status,
                         !.pc = IF order[o].method = "online" THEN "session" ELSE "respond"]
  <2>2. req[r].pc = "lookup" /\ Sent(r)  BY <1>1, <1>5 DEF LookupResume, CallOk, Active
  <2>3. key[k] # None /\ key[k].payload = req[r].payload /\ KeyOk(k)
    BY <1>5, <2>2 DEF LookupResume, OtherDigest, CInv, Sent
  <2>4. o \in Requests /\ order[o] \in Order /\ order[o].method = req[r].payload.method
    BY <2>2, <2>3 DEF CInv, TypeOK, KeyOk, IdempotencyKey, Sent
  <2>5. row \in Request
    <3>1. order[o].status \in OrderStatus  BY <2>4 DEF Order
    <3>2. (IF order[o].method = "online" THEN "session" ELSE "respond") \in Active  BY DEF Active
    <3>. QED  BY <1>1, <2>4, <3>1, <3>2, ResumedRow
  <2>6. req' = [req EXCEPT ![r] = row] /\ keyLock' = keyLock
    BY <1>5 DEF LookupResume
  <2>7. req'[r] = row  BY <2>6 DEF CInv, TypeOK
  <2>8. /\ row.pc = IF order[o].method = "online" THEN "session" ELSE "respond"
        /\ row.key = k /\ row.payload = req[r].payload /\ row.order = o
        /\ row.answer = req[r].answer /\ row.seen \in OrderStatus
    BY <1>1, <2>4 DEF Request, Order
  <2>9. req[r].payload.method \in {"online", "cod"}
    BY <2>2, MethodsAssumption DEF Sent, Payload, AllMethods
  <2>10. CallOk(r)'
    BY <1>1, <1>2, <2>2, <2>3, <2>4, <2>7, <2>8, <2>9
       DEF CallOk, Sent, Resumed, Active, Early
  <2>. QED  BY <1>2, <2>5, <2>6, <2>10, CallMoves DEF CInv, TypeOK
<1>6. CASE CreateSession(r)
  <2>1. DEFINE row == [req[r] EXCEPT !.pc = "relock"]
  <2>2. row \in Request  BY <1>1 DEF Request, Active
  <2>3. req' = [req EXCEPT ![r] = row] /\ keyLock' = keyLock  BY <1>6 DEF CreateSession, Go
  <2>4. req'[r] = row  BY <2>3 DEF CInv, TypeOK
  <2>5. row = [req[r] EXCEPT !.pc = "relock"] /\ row.pc = "relock"
    BY <1>1 DEF Request
  <2>6. /\ row.key = req[r].key /\ row.payload = req[r].payload /\ row.order = req[r].order
        /\ row.answer = req[r].answer /\ row.seen = req[r].seen
    BY <1>1 DEF Request
  <2>7. CallOk(r)'
    BY <1>1, <1>2, <1>6, <2>4, <2>5, <2>6 DEF CallOk, CreateSession, Sent, Resumed, Active, Early
  <2>. QED  BY <1>2, <2>2, <2>3, <2>7, CallMoves DEF CInv, TypeOK
<1>. QED  BY <1>3, <1>4, <1>5, <1>6

LEMMA LookupKeeps ==
  ASSUME CInv, NEW r \in Requests, LookupAnswered(r)
  PROVE  CInv'
<1>1. req[r] \in Request /\ CallOk(r) /\ req[r].pc = "lookup"  BY DEF CInv, TypeOK, LookupAnswered
<1>2. req[r].pc \in Active /\ Sent(r)  BY <1>1 DEF CallOk, Active
<1>3. CASE ~OtherDigest(r) /\ Stored(req[r].key) /\ Replay(r, key[req[r].key].response)
  <2>1. Resumed(r) /\ key[req[r].key] \in IdempotencyKey
    BY <1>2, <1>3 DEF Resumed, OtherDigest, LookupAnswered, CInv, TypeOK, Sent
  <2>2. key[req[r].key].response \in Body  BY <1>3, <2>1 DEF Stored, IdempotencyKey
  <2>. QED  BY <1>2, <1>3, <2>1, <2>2, ReplayKeeps
<1>4. CASE Fail(r, "idempotency_conflict")  BY <1>2, <1>4, FailKeeps DEF Refusal
<1>5. CASE Fail(r, "checkout_not_recoverable")  BY <1>2, <1>5, FailKeeps DEF Refusal
<1>. QED  BY <1>3, <1>4, <1>5 DEF LookupAnswered

LEMMA LoadCartKeeps ==
  ASSUME CInv, NEW r \in Requests, LoadCart(r)
  PROVE  CInv'
<1>1. DEFINE c == req[r].payload.cart
             row == [req[r] EXCEPT !.pc = "prepare", !.lines = cart[c].lines]
<1>2. req[r] \in Request /\ CallOk(r) /\ req[r].pc = "cart"  BY DEF CInv, TypeOK, LoadCart
<1>3. req[r].pc \in Active /\ Sent(r) /\ c \in Carts
  BY <1>2 DEF CallOk, Active, Sent, Payload
<1>4. CASE Fail(r, "cart_not_found") \/ Fail(r, "empty_cart")
  BY <1>3, <1>4, FailKeeps DEF Refusal
<1>5. CASE /\ cart[c].status = "open" /\ ~Empty(c) /\ LockCart(r, c)
           /\ req' = [req EXCEPT ![r] = row]
           /\ UNCHANGED <<cart, order, key, keyLock>>
  <2>1. /\ cart[c] \in [status: {"open", "converted", "expired"}, lines: 0..MaxLines]
        /\ cartLock[c] = None
    BY <1>3 DEF CInv, TypeOK, LoadCart
  <2>2. row \in Request
    <3>1. cart[c].lines \in 0..MaxLines  BY <2>1
    <3>. QED  BY <1>2, <3>1, PreparedRow
  <2>3. req'[r] = row  BY <1>5 DEF CInv, TypeOK
  <2>4. /\ row.pc = "prepare" /\ row.key = req[r].key /\ row.payload = req[r].payload
        /\ row.answer = req[r].answer /\ row.lines = cart[c].lines
    BY <1>2 DEF Request
  <2>5. cart[c] = [status |-> "open", lines |-> row.lines] /\ row.lines # 0
    BY <1>5, <2>1, <2>4 DEF Empty
  <2>6. cartLock' = [cartLock EXCEPT ![c] = r]  BY <1>5 DEF LockCart
  <2>7. /\ cartLock' \in [Carts -> Requests \cup {None}] /\ cartLock'[c] = r
        /\ \A d \in Carts : cartLock[d] \notin {r, None} => cartLock'[d] = cartLock[d]
    BY <1>3, <2>1, <2>6 DEF CInv, TypeOK
  <2>8. CallOk(r)'
    <3>1. /\ order[r] = None /\ req[r].answer = None
          /\ keyLock[req[r].key] = r /\ key[req[r].key] = None
      BY <1>2 DEF CallOk, Early
    <3>2. (order[r] = None /\ Sent(r) /\ req[r].answer = None)'
      BY <1>3, <1>5, <2>3, <2>4, <3>1 DEF Sent
    <3>3. (/\ keyLock[req[r].key] = r /\ key[req[r].key] = None
           /\ cartLock[req[r].payload.cart] = r
           /\ cart[req[r].payload.cart] = [status |-> "open", lines |-> req[r].lines]
           /\ req[r].lines # 0 /\ req[r].pc = "prepare")'
      BY <1>5, <2>3, <2>4, <2>5, <2>7, <3>1
    <3>. QED  BY <3>2, <3>3 DEF CallOk
  <2>. QED  BY <1>5, <2>2, <2>7, <2>8, CallMoves DEF CInv, TypeOK
<1>. QED  BY <1>4, <1>5 DEF LoadCart

\* The order, its cart and its key, committed at once.
LEMMA PrepareKeeps ==
  ASSUME CInv, NEW r \in Requests, Prepare(r)
  PROVE  CInv'
<1>1. DEFINE p == req[r].payload
             k == req[r].key
             c == p.cart
             first == IF p.method = "cod" THEN "confirmed" ELSE "pending_payment"
             made == [key |-> k, cart |-> c, method |-> p.method, lines |-> req[r].lines,
                      status |-> first]
             row == [req[r] EXCEPT !.order = r, !.seen = first, !.lines = 0,
                                   !.pc = IF p.method = "cod" THEN "respond" ELSE "session"]
<1>2. req[r] \in Request /\ CallOk(r) /\ req[r].pc = "prepare"  BY DEF CInv, TypeOK, Prepare
<1>3. /\ k \in Keys /\ p \in Payload /\ c \in Carts /\ p.method \in AllMethods
      /\ order[r] = None /\ keyLock[k] = r /\ key[k] = None /\ cartLock[c] = r
      /\ cart[c] = [status |-> "open", lines |-> req[r].lines] /\ req[r].lines # 0
  BY <1>2, MethodsAssumption DEF CallOk, Sent, Active, Early, Payload
<1>4. /\ order' = [order EXCEPT ![r] = made]
      /\ cart' = [cart EXCEPT ![c].status = "converted"]
      /\ key' = [key EXCEPT ![k] = [payload |-> p, order |-> r, response |-> None]]
      /\ req' = [req EXCEPT ![r] = row]
      /\ Release(r)
  BY DEF Prepare, Converted
<1>5. row \in Request /\ made \in Order
  <2>1. 0 \in 0..MaxLines /\ first \in OrderStatus  BY LinesAssumption DEF OrderStatus
  <2>2. (IF p.method = "cod" THEN "respond" ELSE "session") \in Active  BY DEF Active
  <2>3. row \in Request  BY <1>2, <2>1, <2>2 DEF Request
  <2>4. req[r].lines \in 1..MaxLines  BY <1>2, <1>3, LinesAssumption DEF Request
  <2>5. p.method \in Methods  BY <1>3 DEF Payload
  <2>6. made \in Order  BY <1>3, <2>1, <2>4, <2>5 DEF Order
  <2>. QED  BY <2>3, <2>6
<1>6. made # None /\ r # None /\ [payload |-> p, order |-> r, response |-> None] # None
  BY <1>3, <1>5, NoneAssumption DEF IdempotencyKey
<1>7. /\ order'[r] = made /\ \A o \in Requests \ {r} : order'[o] = order[o]
      /\ cart'[c] = [status |-> "converted", lines |-> req[r].lines]
      /\ \A d \in Carts \ {c} : cart'[d] = cart[d]
      /\ key'[k] = [payload |-> p, order |-> r, response |-> None]
      /\ \A l \in Keys \ {k} : key'[l] = key[l]
      /\ req'[r] = row /\ \A s \in Requests \ {r} : req'[s] = req[s]
  BY <1>3, <1>4 DEF CInv, TypeOK
<1>8. TypeOK'
  BY <1>3, <1>4, <1>5, ReleaseKeeps DEF CInv, TypeOK, IdempotencyKey
<1>9. ASSUME NEW o \in Placed PROVE o # r /\ order[o].cart # c /\ order[o].key # k
  <2>1. o # r /\ order[o].key # k  BY <1>3, <1>9 DEF CInv, Placed
  <2>2. cart[c].status = "open"  BY <1>3
  <2>3. cart[order[o].cart] = [status |-> "converted", lines |-> order[o].lines]
    BY <1>9 DEF CInv, OrderIsItsCart
  <2>4. cart[order[o].cart].status = "converted"  BY <2>3
  <2>. QED  BY <2>1, <2>2, <2>4
<1>10. Placed' = Placed \cup {r}  BY <1>6, <1>7 DEF Placed
<1>11. /\ made.key = k /\ made.cart = c /\ made.lines = req[r].lines /\ made.method = p.method
  OBVIOUS
<1>12. OneOrderPerCartAndKey'
  BY <1>7, <1>9, <1>10, <1>11 DEF CInv, OneOrderPerCartAndKey, Placed
<1>13. ASSUME NEW o \in Placed
       PROVE  order[o].cart \in Carts /\ order[o].key \in Keys /\ o \in Requests
  BY <1>13 DEF CInv, TypeOK, Placed, Order
<1>14. OrderIsItsCart'
  BY <1>7, <1>9, <1>10, <1>11, <1>13 DEF CInv, OrderIsItsCart, Placed
<1>15. (\A o \in Placed : key[order[o].key] # None /\ key[order[o].key].order = o)'
  BY <1>6, <1>7, <1>9, <1>10, <1>11, <1>13 DEF CInv, Placed
<1>16. ASSUME NEW l \in Keys PROVE KeyOk(l)'
  <2>1. CASE l = k  BY <1>6, <1>7, <1>11, <2>1 DEF KeyOk
  <2>2. CASE l # k
    <3>1. key'[l] = key[l] /\ KeyOk(l)  BY <1>7, <2>2 DEF CInv
    <3>2. key[l] # None => key[l].order \in Requests /\ key[l].order # r
      BY <1>3, <3>1 DEF KeyOk, CInv, TypeOK, IdempotencyKey
    <3>. QED  BY <1>7, <3>1, <3>2 DEF KeyOk
  <2>. QED  BY <2>1, <2>2
<1>17. CallOk(r)'
  <2>1. /\ row.pc = IF p.method = "cod" THEN "respond" ELSE "session"
        /\ row.key = k /\ row.payload = p /\ row.order = r /\ row.seen = first
        /\ row.answer = None
    BY <1>2 DEF Request, CallOk
  <2>2. first \in OrderStatus /\ p.method \in {"online", "cod"}
    BY <1>3 DEF OrderStatus, AllMethods
  <2>. QED  BY <1>3, <1>6, <1>7, <2>1, <2>2 DEF CallOk, Sent, Resumed, Active, Early
<1>18. ASSUME NEW s \in Requests, s # r PROVE CallOk(s)'
  <2>1. req'[s] = req[s] /\ CallOk(s) /\ order'[s] = order[s]  BY <1>7, <1>18 DEF CInv
  <2>2. /\ req[s].pc \in {"cart", "prepare"} => req[s].key # k
        /\ req[s].pc = "prepare" => req[s].payload.cart # c
        /\ Resumed(s) => req[s].key # k
    BY <1>3, <1>18, <2>1 DEF CallOk, Resumed
  <2>3. Sent(s) => /\ req[s].key \in Keys /\ req[s].payload.cart \in Carts
                   /\ keyLock[req[s].key] = s => keyLock'[req[s].key] = s
                   /\ cartLock[req[s].payload.cart] = s => cartLock'[req[s].payload.cart] = s
    BY <1>4, <1>18, NoneAssumption DEF Sent, Payload, Release, CInv, TypeOK
  <2>4. Resumed(s) => Resumed(s)' /\ key'[req[s].key] = key[req[s].key]
    BY <1>7, <2>1, <2>2, <2>3 DEF Resumed, Sent
  <2>5. req[s].pc = "prepare" => cart'[req[s].payload.cart] = cart[req[s].payload.cart]
    BY <1>7, <2>1, <2>2, <2>3 DEF CallOk, Active
  <2>6. req[s].pc \in {"cart", "prepare"} => key'[req[s].key] = key[req[s].key]
    BY <1>7, <2>1, <2>2, <2>3 DEF CallOk, Active
  <2>7. Sent(s)' = Sent(s)  BY <2>1 DEF Sent
  <2>. QED  BY <2>1, <2>3, <2>4, <2>5, <2>6, <2>7 DEF CallOk, Active
<1>. QED  BY <1>8, <1>12, <1>14, <1>15, <1>16, <1>17, <1>18 DEF CInv

\* The response of a key without one, from the call's own copy of the order.
LEMMA StoreKeeps ==
  ASSUME CInv, NEW r \in Requests, StoreResponse(r),
         req[r].pc = "respond" \/ (req[r].pc = "relock" /\ ~Stored(req[r].key))
  PROVE  CInv'
<1>1. DEFINE k == req[r].key
             body == [order |-> req[r].order, status |-> req[r].seen]
             row == [req[r] EXCEPT !.pc = "done", !.answer = body]
<1>2. req[r] \in Request /\ CallOk(r)  BY DEF CInv, TypeOK
<1>3. /\ k \in Keys /\ key[k] # None /\ key[k].payload = req[r].payload
      /\ req[r].order = key[k].order /\ req[r].seen \in OrderStatus
      /\ req[r].payload.method = "online" => key[k].response = None
  BY <1>2 DEF CallOk, Resumed, Sent, Stored
<1>4. key[k] \in IdempotencyKey /\ KeyOk(k)  BY <1>3 DEF CInv, TypeOK
<1>5. body \in Body  BY <1>3, <1>4 DEF IdempotencyKey, Body
<1>6. body # None  BY <1>5, NoneAssumption
<1>7. row \in Request  BY <1>2, <1>5 DEF Request
<1>8. /\ UNCHANGED <<cart, order>> /\ Release(r) /\ req' = [req EXCEPT ![r] = row]
      /\ key' = [key EXCEPT ![k].response = body]
  BY DEF StoreResponse, Answer
<1>9. DEFINE entry == [key[k] EXCEPT !.response = body]
<1>10. /\ entry \in IdempotencyKey /\ entry.payload = key[k].payload
       /\ entry.order = key[k].order /\ entry.response = body
  BY <1>4, <1>5 DEF IdempotencyKey
<1>11. /\ key'[k] = entry /\ \A l \in Keys \ {k} : key'[l] = key[l]
       /\ req'[r] = row /\ \A s \in Requests \ {r} : req'[s] = req[s]
  BY <1>3, <1>8 DEF CInv, TypeOK
<1>12. entry # None  BY <1>10, NoneAssumption
<1>. HIDE DEF entry
<1>13. /\ key'[k] # None /\ key'[k].payload = key[k].payload
       /\ key'[k].order = key[k].order /\ key'[k].response = body
  BY <1>10, <1>11, <1>12
<1>14. TypeOK'
  <2>0. key' = [key EXCEPT ![k] = entry]  BY <1>8 DEF entry
  <2>1. key' \in [Keys -> IdempotencyKey \cup {None}]  BY <1>10, <2>0 DEF CInv, TypeOK
  <2>. QED  BY <1>7, <1>8, <2>1, ReleaseKeeps DEF CInv, TypeOK
<1>15. OneOrderPerCartAndKey' /\ OrderIsItsCart' /\ Placed' = Placed
  BY <1>8 DEF CInv, OneOrderPerCartAndKey, OrderIsItsCart, Placed
<1>16. ASSUME NEW o \in Placed PROVE key'[order[o].key] # None /\ key'[order[o].key].order = o
  <2>1. order[o].key \in Keys  BY <1>16 DEF CInv, TypeOK, Placed, Order
  <2>. QED  BY <1>10, <1>11, <1>12, <2>1 DEF CInv
<1>17. (\A o \in Placed : key[order[o].key] # None /\ key[order[o].key].order = o)'
  BY <1>8, <1>15, <1>16
<1>18. ASSUME NEW l \in Keys PROVE KeyOk(l)'
  <2>1. body.order = key[k].order  BY <1>3
  <2>2. CASE l = k
    <3>1. /\ order[key[k].order] # None /\ order[key[k].order].key = k
          /\ order[key[k].order].cart = key[k].payload.cart
          /\ order[key[k].order].method = key[k].payload.method
      BY <1>3, <1>4 DEF KeyOk
    <3>2. order' = order  BY <1>8
    <3>. HIDE DEF body, k
    <3>. QED  BY <1>13, <2>1, <2>2, <3>1, <3>2 DEF KeyOk
  <2>3. CASE l # k  BY <1>8, <1>11, <2>3 DEF KeyOk, CInv
  <2>. QED  BY <2>2, <2>3
<1>19. CallOk(r)'
  <2>1. /\ row.pc = "done" /\ row.key = k /\ row.payload = req[r].payload /\ row.answer = body
    BY <1>2 DEF Request
  <2>2. body.order = key[k].order /\ req[r].payload \in Payload
    BY <1>2, <1>3 DEF CallOk, Active, Sent, Resumed
  <2>3. req'[r] = row /\ Sent(r)' /\ Resumed(r)'
    BY <1>3, <1>11, <1>13, <2>1, <2>2 DEF Sent, Resumed
  <2>4. req'[r].answer.order = key'[k].order /\ req'[r].answer = key'[k].response
    BY <1>13, <2>1, <2>2, <2>3
  <2>. QED
    BY <2>1, <2>3, <2>4 DEF CallOk, Active, Early
<1>20. ASSUME NEW s \in Requests, s # r PROVE CallOk(s)'
  <2>1. req'[s] = req[s] /\ CallOk(s)  BY <1>11, <1>20 DEF CInv
  <2>2. req[s].pc \in {"cart", "prepare"} => req[s].key \in Keys \ {k}
    BY <1>3, <2>1 DEF CallOk, Sent, Active
  <2>3. /\ req[s].pc \in {"cart", "prepare"} => keyLock'[req[s].key] = s
        /\ req[s].pc = "prepare" => cartLock'[req[s].payload.cart] = s
    BY <1>8, <1>20, <2>1, NoneAssumption DEF CallOk, Sent, Payload, Active, Release, CInv, TypeOK
  <2>4. Resumed(s) => /\ Resumed(s)' /\ key'[req[s].key].order = key[req[s].key].order
    BY <1>11, <1>13, <2>1 DEF Resumed, Sent
  <2>5. ASSUME req[s].answer # None, req[s].payload.method = "online"
        PROVE  req[s].answer = key'[req[s].key].response
    <3>1. Resumed(s) /\ req[s].answer = key[req[s].key].response  BY <2>1, <2>5 DEF CallOk
    <3>2. req[s].key # k  BY <1>3, <2>5, <3>1 DEF Resumed
    <3>. QED  BY <1>11, <3>1, <3>2 DEF Resumed, Sent
  <2>6. Sent(s)' = Sent(s)  BY <2>1 DEF Sent
  <2>7. order'[s] = order[s]  BY <1>8
  <2>8. (req[s].pc \in Early => order[s] = None)'  BY <2>1, <2>7 DEF CallOk
  <2>9. (req[s].pc \in Active \cup {"done"} => Sent(s))'  BY <2>1, <2>6 DEF CallOk
  <2>10. (req[s].pc \in {"cart", "prepare"} =>
            keyLock[req[s].key] = s /\ key[req[s].key] = None)'
    BY <1>11, <2>1, <2>2, <2>3 DEF CallOk
  <2>11. (req[s].pc = "prepare" =>
            /\ cartLock[req[s].payload.cart] = s
            /\ cart[req[s].payload.cart] = [status |-> "open", lines |-> req[s].lines]
            /\ req[s].lines # 0)'
    BY <1>8, <2>1, <2>3 DEF CallOk
  <2>12. (req[s].pc \in {"session", "relock", "respond"} =>
            /\ Resumed(s)
            /\ req[s].order = key[req[s].key].order /\ req[s].seen \in OrderStatus
            /\ req[s].payload.method = IF req[s].pc = "respond" THEN "cod" ELSE "online")'
    BY <2>1, <2>4 DEF CallOk
  <2>13. (req[s].answer # None =>
            /\ Resumed(s) /\ req[s].answer.order = key[req[s].key].order
            /\ req[s].payload.method = "online" => req[s].answer = key[req[s].key].response)'
    BY <2>1, <2>4, <2>5 DEF CallOk
  <2>14. (req[s].pc # "done" => req[s].answer = None)'  BY <2>1 DEF CallOk
  <2>. QED  BY <2>8, <2>9, <2>10, <2>11, <2>12, <2>13, <2>14 DEF CallOk
<1>. QED  BY <1>14, <1>15, <1>17, <1>18, <1>19, <1>20 DEF CInv

\* Edits and logins touch open carts that no checkout has locked.
LEMMA EditCartKeeps ==
  ASSUME CInv, NEW c \in Carts, EditCart(c)
  PROVE  CInv'
<1>1. /\ UNCHANGED <<order, key, keyLock, cartLock, req>>
      /\ cart[c].status = "open" /\ cartLock[c] = None
  BY DEF EditCart
<1>2. PICK row \in [status: {"open", "converted", "expired"}, lines: 0..MaxLines] :
        cart' = [cart EXCEPT ![c] = row]
  <2>1. cart[c] \in [status: {"open", "converted", "expired"}, lines: 0..MaxLines]
    BY DEF CInv, TypeOK
  <2>2. CASE \E n \in 0..MaxLines \ {cart[c].lines} : cart' = [cart EXCEPT ![c].lines = n]
    <3>1. PICK n \in 0..MaxLines : cart' = [cart EXCEPT ![c].lines = n]  BY <2>2
    <3>2. cart' = [cart EXCEPT ![c] = [cart[c] EXCEPT !.lines = n]]  BY <3>1
    <3>3. [cart[c] EXCEPT !.lines = n] \in [status: {"open", "converted", "expired"},
                                            lines: 0..MaxLines]
      BY <2>1
    <3>. QED  BY <3>2, <3>3
  <2>3. CASE cart' = [cart EXCEPT ![c].status = "expired"]
    <3>1. cart' = [cart EXCEPT ![c] = [cart[c] EXCEPT !.status = "expired"]]  BY <2>3
    <3>2. [cart[c] EXCEPT !.status = "expired"] \in [status: {"open", "converted", "expired"},
                                                     lines: 0..MaxLines]
      BY <2>1
    <3>. QED  BY <3>1, <3>2
  <2>. QED  BY <2>2, <2>3 DEF EditCart
<1>3. \A d \in Carts \ {c} : cart'[d] = cart[d]  BY <1>2 DEF CInv, TypeOK
<1>4. TypeOK'  BY <1>1, <1>2 DEF CInv, TypeOK
<1>5. ASSUME NEW o \in Placed PROVE order[o].cart \in Carts \ {c}
  <2>1. cart[order[o].cart] = [status |-> "converted", lines |-> order[o].lines]
    BY <1>5 DEF CInv, OrderIsItsCart
  <2>2. cart[order[o].cart].status = "converted"  BY <2>1
  <2>3. order[o].cart \in Carts  BY <1>5 DEF CInv, TypeOK, Placed, Order
  <2>. QED  BY <1>1, <2>2, <2>3
<1>6. /\ OneOrderPerCartAndKey' /\ OrderIsItsCart'
      /\ (\A o \in Placed : key[order[o].key] # None /\ key[order[o].key].order = o)'
      /\ (\A k \in Keys : KeyOk(k))'
  BY <1>1, <1>3, <1>5 DEF CInv, OneOrderPerCartAndKey, OrderIsItsCart, Placed, KeyOk
<1>7. ASSUME NEW r \in Requests PROVE CallOk(r)'
  <2>1. CallOk(r)  BY DEF CInv
  <2>2. req[r].pc = "prepare" => req[r].payload.cart \in Carts \ {c}
    BY <1>1, <2>1, NoneAssumption DEF CallOk, Sent, Active, Payload
  <2>3. Sent(r)' = Sent(r) /\ Resumed(r)' = Resumed(r)  BY <1>1 DEF Sent, Resumed
  <2>. QED  BY <1>1, <1>3, <2>1, <2>2, <2>3 DEF CallOk
<1>. QED  BY <1>4, <1>6, <1>7 DEF CInv

\* Payments and the staff only change the status of an order.
LEMMA OrderMovesKeeps ==
  ASSUME CInv, NEW o \in Requests, OrderMoves(o)
  PROVE  CInv'
<1>1. PICK s \in Moves[order[o].status] : order' = [order EXCEPT ![o].status = s]
  BY DEF OrderMoves
<1>2. UNCHANGED <<cart, key, keyLock, cartLock, req>> /\ order[o] \in Order
  BY DEF OrderMoves, CInv, TypeOK
<1>3. s \in OrderStatus  BY <1>1, <1>2 DEF Moves, Order, OrderStatus
<1>4. DEFINE row == [order[o] EXCEPT !.status = s]
<1>5. /\ row \in Order /\ row.key = order[o].key /\ row.cart = order[o].cart
      /\ row.method = order[o].method /\ row.lines = order[o].lines
  BY <1>2, <1>3 DEF Order
<1>6. order' = [order EXCEPT ![o] = row]  BY <1>1
<1>7. order'[o] = row /\ \A p \in Requests \ {o} : order'[p] = order[p]
  BY <1>6 DEF CInv, TypeOK
<1>8. order[o] # None /\ row # None  BY <1>5, NoneAssumption DEF OrderMoves
<1>9. TypeOK'  BY <1>2, <1>5, <1>6 DEF CInv, TypeOK
<1>10. \A p \in Requests :
         /\ order'[p] = None <=> order[p] = None
         /\ order'[p].key = order[p].key /\ order'[p].cart = order[p].cart
         /\ order'[p].method = order[p].method
         /\ order'[p].lines = order[p].lines
  BY <1>5, <1>7, <1>8
<1>11. Placed' = Placed  BY <1>10 DEF Placed
<1>12. /\ OneOrderPerCartAndKey' /\ OrderIsItsCart'
       /\ (\A p \in Placed : key[order[p].key] # None /\ key[order[p].key].order = p)'
  BY <1>2, <1>10, <1>11 DEF CInv, OneOrderPerCartAndKey, OrderIsItsCart, Placed
<1>13. ASSUME NEW k \in Keys PROVE KeyOk(k)'
  <2>1. key[k] # None => key[k].order \in Requests  BY DEF CInv, TypeOK, IdempotencyKey
  <2>2. KeyOk(k)  BY DEF CInv
  <2>. QED  BY <1>2, <1>10, <2>1, <2>2 DEF KeyOk
<1>14. ASSUME NEW r \in Requests PROVE CallOk(r)'
  BY <1>2, <1>10 DEF CInv, CallOk, Sent, Resumed
<1>. QED  BY <1>9, <1>12, <1>13, <1>14 DEF CInv

LEMMA CInvNext == CInv /\ [Next]_vars => CInv'
<1>. SUFFICES ASSUME CInv, [Next]_vars PROVE CInv'  OBVIOUS
<1>1. CASE UNCHANGED vars
  BY <1>1 DEF vars, CInv, TypeOK, OneOrderPerCartAndKey, OrderIsItsCart, Placed, KeyOk, CallOk,
              Sent, Resumed
<1>2. ASSUME NEW r \in Requests, Step(r) \/ Crash(r) PROVE CInv'
  <2>1. CASE LookupNew(r) \/ LookupResume(r) \/ CreateSession(r)  BY <2>1, GoKeeps
  <2>2. CASE LookupAnswered(r)  BY <2>2, LookupKeeps
  <2>3. CASE LoadCart(r)  BY <2>3, LoadCartKeeps
  <2>4. CASE Refuse(r)  BY <2>4, FailKeeps DEF Refuse, Refusal, Active
  <2>5. CASE Prepare(r)  BY <2>5, PrepareKeeps
  <2>6. CASE RespondOnline(r)
    <3>1. CallOk(r) /\ req[r].pc = "relock"  BY <2>6 DEF CInv, RespondOnline
    <3>2. Resumed(r) /\ key[req[r].key] \in IdempotencyKey
      BY <3>1 DEF CallOk, Resumed, Sent, CInv, TypeOK
    <3>3. CASE Stored(req[r].key)
      <4>1. key[req[r].key].response \in Body  BY <3>2, <3>3 DEF Stored, IdempotencyKey
      <4>2. Replay(r, key[req[r].key].response)  BY <2>6, <3>3 DEF RespondOnline
      <4>. QED  BY <3>1, <3>2, <4>1, <4>2, ReplayKeeps DEF Active
    <3>4. CASE ~Stored(req[r].key)  BY <2>6, <3>1, <3>4, StoreKeeps DEF RespondOnline
    <3>. QED  BY <3>3, <3>4
  <2>7. CASE RespondCod(r)  BY <2>7, StoreKeeps DEF RespondCod
  <2>8. CASE Crash(r)  BY <2>8, FailKeeps DEF Crash, Refusal
  <2>. QED  BY <1>2, <2>1, <2>2, <2>3, <2>4, <2>5, <2>6, <2>7, <2>8 DEF Step
<1>3. ASSUME NEW r \in Requests, NEW k \in Keys, NEW p \in Payload, Submit(r, k, p) PROVE CInv'
  BY <1>3, GoKeeps
<1>4. ASSUME NEW c \in Carts, EditCart(c) PROVE CInv'  BY <1>4, EditCartKeeps
<1>5. ASSUME NEW o \in Requests, OrderMoves(o) PROVE CInv'  BY <1>5, OrderMovesKeeps
<1>. QED  BY <1>1, <1>2, <1>3, <1>4, <1>5 DEF Next

-------------------------------------------------------------------------------
\* The state of carts, orders, keys, locks and calls is well formed.
THEOREM CheckoutType == Spec => []TypeOK
<1>1. CInv => TypeOK  BY DEF CInv
<1>. QED  BY CInvInit, CInvNext, <1>1, PTL DEF Spec

\* submit_checkout never makes two orders of one cart or for one key.
THEOREM OneOrder == Spec => []OneOrderPerCartAndKey
<1>1. CInv => OneOrderPerCartAndKey  BY DEF CInv
<1>. QED  BY CInvInit, CInvNext, <1>1, PTL DEF Spec

\* An order has the lines of its cart, which is converted and never edited
\* again.
THEOREM OrderLines == Spec => []OrderIsItsCart
<1>1. CInv => OrderIsItsCart  BY DEF CInv
<1>. QED  BY CInvInit, CInvNext, <1>1, PTL DEF Spec

\* The key of an order leads to it, and an answer is about the order of the
\* call's own key and payload.
THEOREM KeysLead == Spec => []KeysLeadToTheirOrder
<1>1. ASSUME CInv, NEW r \in Requests, Answered(r)
      PROVE  LET o == order[req[r].answer.order] IN
               /\ o.key = req[r].key
               /\ o.cart = req[r].payload.cart /\ o.method = req[r].payload.method
  <2>1. Resumed(r) /\ req[r].answer.order = key[req[r].key].order
    BY <1>1 DEF CInv, CallOk, Answered
  <2>2. KeyOk(req[r].key)  BY <1>1, <2>1 DEF CInv, Resumed, Sent
  <2>. QED  BY <2>1, <2>2 DEF KeyOk, Resumed
<1>2. CInv => KeysLeadToTheirOrder  BY <1>1 DEF CInv, KeysLeadToTheirOrder
<1>. QED  BY CInvInit, CInvNext, <1>2, PTL DEF Spec

\* All calls with one key and an online order are given one response.
THEOREM OnlineReplays == Spec => []OnlineReplaysAgree
<1>1. ASSUME CInv, NEW r \in Requests, NEW s \in Requests,
             Answered(r), req[r].payload.method = "online"
      PROVE  Agree(r, s)
  <2>1. SUFFICES ASSUME req[r].key = req[s].key, Answered(s)
                 PROVE  req[r].answer = req[s].answer
    BY DEF Agree
  <2>2. Resumed(r) /\ Resumed(s)  BY <1>1, <2>1 DEF CInv, CallOk, Answered
  <2>3. req[s].payload.method = "online"  BY <1>1, <2>1, <2>2 DEF Resumed
  <2>4. CallOk(r) /\ CallOk(s)  BY <1>1 DEF CInv
  <2>5. /\ req[r].answer = key[req[r].key].response
        /\ req[s].answer = key[req[s].key].response
    BY <1>1, <2>1, <2>3, <2>4 DEF CallOk, Answered
  <2>. QED  BY <2>1, <2>5
<1>2. CInv => OnlineReplaysAgree  BY <1>1 DEF OnlineReplaysAgree
<1>. QED  BY CInvInit, CInvNext, <1>2, PTL DEF Spec
===============================================================================
