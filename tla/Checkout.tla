------------------------------- MODULE Checkout -------------------------------
(***************************************************************************)
(* submit_checkout: one order per cart and per idempotency key, although   *)
(* requests are repeated, run concurrently and die half way.               *)
(*                                                                         *)
(* Phase A prepares the order in one transaction under an advisory lock on *)
(* the key and a row lock on the cart.  The provider is then called with   *)
(* no lock held, and phase B stores the response under the key.  A request *)
(* is one HTTP call; a shopper who tries again is another request with the *)
(* same key.  An order is named by the request that created it.            *)
(*                                                                         *)
(* Operators named Slip... are mistakes the code does not make; each one   *)
(* breaks a property below, which shows what that property guards.         *)
(***************************************************************************)
EXTENDS Naturals

CONSTANTS Requests,   \* HTTP calls of POST /checkout
          Keys,       \* Idempotency-Key values
          Carts,
          Methods,    \* payment methods in use
          MaxLines,   \* bound: a cart's lines are 0 (empty) or a version of 1..MaxLines
          None        \* SQL's NULL and Python's None

AllMethods == {"online", "cod"}
ASSUME MethodsAssumption == Methods \subseteq AllMethods
ASSUME LinesAssumption == MaxLines \in Nat

VARIABLES cart,       \* carts: status and lines
          order,      \* orders, by the request that created them
          key,        \* idempotency_keys
          keyLock,    \* holder of pg_advisory_xact_lock("checkout:" + key)
          cartLock,   \* holder of the cart's row lock
          req         \* the calls: program counter and locals

vars == <<cart, order, key, keyLock, cartLock, req>>

-------------------------------------------------------------------------------
Payload == [cart: Carts, method: Methods]
OrderStatus == {"pending_payment", "payment_failed", "expired", "confirmed",
                "allocated", "cancelled"}
Order == [key: Keys, cart: Carts, method: Methods, lines: 1..MaxLines, status: OrderStatus]
Body == [order: Requests, status: OrderStatus]
Refusal == {"cart_not_found", "empty_cart", "refused", "idempotency_conflict",
            "checkout_not_recoverable", "crashed"}
IdempotencyKey == [payload: Payload, order: Requests, response: Body \cup {None}]
ASSUME NoneAssumption == /\ None \notin Requests /\ None \notin Order
                         /\ None \notin IdempotencyKey /\ None \notin Body
Active == {"lookup", "cart", "prepare", "session", "relock", "respond"}
\* lines: the cart's lines as loaded; seen: the status of the Order object the
\* session holds.
Request == [pc: {"idle", "done"} \cup Active, key: Keys \cup {None},
            payload: Payload \cup {None}, lines: 0..MaxLines, order: Requests \cup {None},
            seen: OrderStatus \cup {None}, answer: Body \cup {None},
            error: Refusal \cup {None}]

TypeOK ==
  /\ cart \in [Carts -> [status: {"open", "converted", "expired"}, lines: 0..MaxLines]]
  /\ order \in [Requests -> Order \cup {None}]
  /\ key \in [Keys -> IdempotencyKey \cup {None}]
  /\ keyLock \in [Keys -> Requests \cup {None}]
  /\ cartLock \in [Carts -> Requests \cup {None}]
  /\ req \in [Requests -> Request]

Init ==
  /\ cart = [c \in Carts |-> [status |-> "open", lines |-> 0]]
  /\ order = [r \in Requests |-> None]
  /\ key = [k \in Keys |-> None]
  /\ keyLock = [k \in Keys |-> None]
  /\ cartLock = [c \in Carts |-> None]
  /\ req = [r \in Requests |-> [pc |-> "idle", key |-> None, payload |-> None, lines |-> 0,
                                order |-> None, seen |-> None, answer |-> None,
                                error |-> None]]

-------------------------------------------------------------------------------
\* The end of a transaction releases the locks taken in it.
\* Slip: a lock of the session outlives the transaction.
SlipLocksKept(r) == UNCHANGED <<keyLock, cartLock>>
Release(r) == /\ keyLock' = [k \in Keys |-> IF keyLock[k] = r THEN None ELSE keyLock[k]]
              /\ cartLock' = [c \in Carts |-> IF cartLock[c] = r THEN None ELSE cartLock[c]]
Go(r, pc) == req' = [req EXCEPT ![r].pc = pc]
Answer(r, body) == req' = [req EXCEPT ![r].pc = "done", ![r].answer = body]
\* The call ends and its transaction changes nothing: a replay or a rollback.
Replay(r, body) == Answer(r, body) /\ Release(r) /\ UNCHANGED <<cart, order, key>>
Fail(r, error) == /\ req' = [req EXCEPT ![r].pc = "done", ![r].error = error, ![r].lines = 0]
                  /\ Release(r)
                  /\ UNCHANGED <<cart, order, key>>

\* The call arrives.
Submit(r, k, p) ==
  /\ req[r].pc = "idle"
  /\ req' = [req EXCEPT ![r].pc = "lookup", ![r].key = k, ![r].payload = p]
  /\ UNCHANGED <<cart, order, key, keyLock, cartLock>>

\* The key's advisory lock is free.
\* Slip: no advisory lock.
SlipKeyUnlocked(r) == TRUE
KeyFree(r) == keyLock[req[r].key] = None
\* The digest of the request differs from the one stored with the key.
OtherDigest(r) == key[req[r].key].payload # req[r].payload

\* Slip: an answered call is answered from the order as it is now.
SlipNothingStored(k) == FALSE
Stored(k) == key[k].response # None

\* lock_key, then no previous call with the key: on to the cart.
LookupNew(r) == LET k == req[r].key IN
  /\ req[r].pc = "lookup" /\ KeyFree(r) /\ key[k] = None
  /\ keyLock' = [keyLock EXCEPT ![k] = r]
  /\ Go(r, "cart")
  /\ UNCHANGED <<cart, order, key, cartLock>>

\* A replay: a conflict, the stored response, or a closed online order.
LookupAnswered(r) == LET k == req[r].key  q == key[k] IN
  /\ req[r].pc = "lookup" /\ KeyFree(r) /\ q # None
  /\ \/ OtherDigest(r) /\ Fail(r, "idempotency_conflict")
     \/ ~OtherDigest(r) /\ Stored(k) /\ Replay(r, q.response)
     \/ /\ ~OtherDigest(r) /\ ~Stored(k) /\ order[q.order].method = "online"
        /\ order[q.order].status \notin {"pending_payment", "confirmed"}
        /\ Fail(r, "checkout_not_recoverable")

\* A replay of a call whose response was never stored: it resumes with the
\* order of the key, as it reads it now.
LookupResume(r) == LET k == req[r].key  o == key[k].order IN
  /\ req[r].pc = "lookup" /\ KeyFree(r) /\ key[k] # None
  /\ ~OtherDigest(r) /\ ~Stored(k)
  /\ order[o].method = "online" => order[o].status \in {"pending_payment", "confirmed"}
  /\ req' = [req EXCEPT ![r].order = o, ![r].seen = order[o].status,
                        ![r].pc = IF order[o].method = "online" THEN "session" ELSE "respond"]
  /\ UNCHANGED <<cart, order, key, keyLock, cartLock>>

\* load_cart: the cart row is locked and its lines are read.
\* Slip: the cart is read without FOR UPDATE.
SlipCartUnlocked(r, c) == UNCHANGED cartLock
LockCart(r, c) == cartLock' = [cartLock EXCEPT ![c] = r]
Empty(c) == cart[c].lines = 0
LoadCart(r) == LET c == req[r].payload.cart IN
  /\ req[r].pc = "cart" /\ cartLock[c] = None
  /\ \/ cart[c].status # "open" /\ Fail(r, "cart_not_found")
     \/ cart[c].status = "open" /\ Empty(c) /\ Fail(r, "empty_cart")
     \/ /\ cart[c].status = "open" /\ ~Empty(c)
        /\ LockCart(r, c)
        /\ req' = [req EXCEPT ![r].pc = "prepare", ![r].lines = cart[c].lines]
        /\ UNCHANGED <<cart, order, key, keyLock>>

\* A line is no longer sellable, the total changed or stock is short.
Refuse(r) == req[r].pc = "prepare" /\ Fail(r, "refused")

\* The rest of phase A, committed at once: order, converted cart and key.
\* Slip: the cart stays open.
SlipCartStaysOpen(c) == cart
Converted(c) == [cart EXCEPT ![c].status = "converted"]
Prepare(r) == LET p == req[r].payload
                  first == IF p.method = "cod" THEN "confirmed" ELSE "pending_payment" IN
  /\ req[r].pc = "prepare"
  /\ order' = [order EXCEPT ![r] = [key |-> req[r].key, cart |-> p.cart, method |-> p.method,
                                    lines |-> req[r].lines, status |-> first]]
  /\ cart' = Converted(p.cart)
  /\ key' = [key EXCEPT ![req[r].key] = [payload |-> p, order |-> r, response |-> None]]
  /\ req' = [req EXCEPT ![r].order = r, ![r].seen = first, ![r].lines = 0,
                        ![r].pc = IF p.method = "cod" THEN "respond" ELSE "session"]
  /\ Release(r)

\* provider.create_session, outside any transaction.
CreateSession(r) ==
  /\ req[r].pc = "session"
  /\ Go(r, "relock")
  /\ UNCHANGED <<cart, order, key, keyLock, cartLock>>

\* Phase B: the response is built from the Order object the session holds and
\* stored under the key.
StoreResponse(r) == LET k == req[r].key
                        body == [order |-> req[r].order, status |-> req[r].seen] IN
  /\ key' = [key EXCEPT ![k].response = body]
  /\ Answer(r, body)
  /\ Release(r)
  /\ UNCHANGED <<cart, order>>

\* Online: under the key's lock again, and a stored response wins.
RespondOnline(r) == LET k == req[r].key IN
  /\ req[r].pc = "relock" /\ KeyFree(r)
  /\ IF Stored(k) THEN Replay(r, key[k].response) ELSE StoreResponse(r)

\* Cash on delivery: no lock and no second look.
RespondCod(r) == req[r].pc = "respond" /\ StoreResponse(r)

\* The server dies or the provider fails: the open transaction rolls back.
Crash(r) == req[r].pc \in Active /\ Fail(r, "crashed")

-------------------------------------------------------------------------------
\* Cart routes change the lines of an open cart under its row lock; a login
\* merges it into the customer's saved cart and ends it.
EditCart(c) ==
  /\ cart[c].status = "open" /\ cartLock[c] = None
  /\ \/ \E n \in 0..MaxLines \ {cart[c].lines} : cart' = [cart EXCEPT ![c].lines = n]
     \/ cart' = [cart EXCEPT ![c].status = "expired"]
  /\ UNCHANGED <<order, key, keyLock, cartLock, req>>

\* Payment events, the sweeper and the staff move the order meanwhile.
Moves == [pending_payment |-> {"confirmed", "payment_failed", "expired"},
          payment_failed |-> {"pending_payment", "expired"},
          confirmed |-> {"allocated", "cancelled"}, allocated |-> {"cancelled"},
          expired |-> {}, cancelled |-> {}]
OrderMoves(o) ==
  /\ order[o] # None
  /\ \E s \in Moves[order[o].status] : order' = [order EXCEPT ![o].status = s]
  /\ UNCHANGED <<cart, key, keyLock, cartLock, req>>

Step(r) == \/ LookupNew(r) \/ LookupAnswered(r) \/ LookupResume(r) \/ LoadCart(r)
           \/ Refuse(r) \/ Prepare(r) \/ CreateSession(r) \/ RespondOnline(r) \/ RespondCod(r)

Next ==
  \/ \E r \in Requests : Step(r) \/ Crash(r)
  \/ \E r \in Requests, k \in Keys, p \in Payload : Submit(r, k, p)
  \/ \E c \in Carts : EditCart(c)
  \/ \E o \in Requests : OrderMoves(o)

\* A call that can take its next step, the lock it waits for being free, takes
\* it: the event loop runs it and PostgreSQL grants a free lock.
Spec == Init /\ [][Next]_vars /\ \A r \in Requests : WF_vars(Step(r))

-------------------------------------------------------------------------------
(***************************************************************************)
(* Properties                                                              *)
(***************************************************************************)
Placed == {o \in Requests : order[o] # None}
Answered(r) == req[r].answer # None

\* No double order: two orders never share a cart or a key, however often and
\* however concurrently a checkout is submitted.
OneOrderPerCartAndKey == \A o, p \in Placed :
  o # p => order[o].cart # order[p].cart /\ order[o].key # order[p].key

\* An order is made of the lines its cart had when it was converted: no edit
\* slips in between, and the cart is closed for good.
OrderIsItsCart == \A o \in Placed :
  cart[order[o].cart] = [status |-> "converted", lines |-> order[o].lines]

\* The key of every order leads back to it, also after a crash, and every
\* answered call got the order of its own key and its own payload.
KeysLeadToTheirOrder ==
  /\ \A o \in Placed : key[order[o].key] # None /\ key[order[o].key].order = o
  /\ \A r \in Requests : Answered(r) => LET o == order[req[r].answer.order] IN
       /\ o.key = req[r].key
       /\ o.cart = req[r].payload.cart /\ o.method = req[r].payload.method

\* Calls with one key are all given the same response (for an online order:
\* see ReplaysAgree for the others).
Agree(r, s) == req[r].key = req[s].key /\ Answered(r) /\ Answered(s)
                 => req[r].answer = req[s].answer
OnlineReplaysAgree == \A r, s \in Requests :
  Answered(r) /\ req[r].payload.method = "online" => Agree(r, s)

\* Calls with one key are all given the same response.
ReplaysAgree == \A r, s \in Requests : Agree(r, s)

\* No call waits for ever: the key and cart locks cannot form a cycle and a
\* crashed call releases them.
EveryCallEnds == \A r \in Requests : req[r].pc \in Active ~> req[r].pc = "done"
===============================================================================
