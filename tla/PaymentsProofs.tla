---------------------------- MODULE PaymentsProofs ----------------------------
(***************************************************************************)
(* Payments is type correct, never charges an order twice, keeps its       *)
(* history, moves orders along ORDER_TRANSITIONS and implements the safety *)
(* part of OrderLifecycle, for every number of orders, attempts, events,   *)
(* requests and for both retry routes.                                     *)
(***************************************************************************)
EXTENDS Payments, TLAPS

\* What an order's status says about its holds, its checkout and its newest
\* attempt.
OrderOk(o) ==
  /\ status[o] = "absent" <=> hold[o] = "none"
  /\ status[o] \in {"confirmed", "allocated"} <=> hold[o] = "committed"
  /\ status[o] = "cancelled" <=> hold[o] = "released"
  /\ status[o] \in Payable <=> hold[o] = "held"
  /\ status[o] = "expired" <=> hold[o] = "expired"
  /\ checkout[o] = "completed" <=> status[o] \in Paid
  /\ checkout[o] = "expired" <=> status[o] = "expired"
  /\ checkout[o] \in {"open", "awaiting_payment"} <=> status[o] \in Payable
  /\ status[o] = "absent" => last[o] = 0
  /\ status[o] \in Payable => /\ last[o] \in AttemptIds
                              /\ attempt[o][last[o]] \in Live \cup {"failed"}
  /\ status[o] \in Paid => \/ method[o] = "cod"
                           \/ last[o] \in AttemptIds /\ attempt[o][last[o]] = "captured"
OrderInv == \A o \in Orders : OrderOk(o)

\* Attempts exist up to the newest one; only the newest is live or captured,
\* a live one belongs to a payable order and a captured one to a paid one.
AttemptOk(o, n) ==
  /\ attempt[o][n] # "none" => n <= last[o]
  /\ attempt[o][n] \in Live => n = last[o] /\ status[o] \in Payable
  /\ attempt[o][n] = "captured" => n = last[o] /\ status[o] \in Paid
AttemptInv == \A o \in Orders, n \in AttemptIds : AttemptOk(o, n)

\* The ledger: one transaction for an attempt that was captured or declined,
\* stored together with its event.
LedgerInv ==
  /\ \A t \in transactions : /\ attempt[t.order][t.attempt] = t.kind
                             /\ inbox[t.event] = "processed"
  /\ \A t, u \in transactions : t.order = u.order /\ t.attempt = u.attempt => t = u
  /\ \A o \in Orders, n \in AttemptIds : attempt[o][n] = "captured" =>
       \E t \in transactions : t.order = o /\ t.attempt = n

\* A stored event has its payload, and tells the truth if it is processed.
EventInv == \A e \in Events : inbox[e] # "absent" =>
  /\ raw[e] \in Payload
  /\ inbox[e] = "processed" => attempt[raw[e].order][raw[e].attempt] = raw[e].status

\* The strengthening of the safety invariants that every step preserves.
IInv == TypeOK /\ OrderInv /\ AttemptInv /\ LedgerInv /\ EventInv

-------------------------------------------------------------------------------
\* Values that the actions build have their types.
LEMMA AwaitType ==
  ASSUME TypeOK, NEW r \in Requests, NEW route \in {"checkout"} \cup AllRoutes,
         NEW o \in Orders, NEW n \in {0} \cup AttemptIds, AwaitSession(r, route, o, n)
  PROVE  req' \in [Requests -> Request \cup {IdleRequest}]
BY DEF TypeOK, AwaitSession, Request, IdleRequest, OrderStatus, CheckoutStatus

LEMMA FinishType ==
  ASSUME TypeOK, NEW r \in Requests, Finish(r)
  PROVE  req' \in [Requests -> Request \cup {IdleRequest}]
BY DEF TypeOK, Finish

LEMMA StoreType ==
  ASSUME TypeOK, NEW e \in Events, NEW p \in Payload,
         NEW result \in {"processed"} \cup Errors, Store(e, p, result)
  PROVE  /\ inbox' \in [Events -> {"absent", "processed"} \cup Errors]
         /\ raw' \in [Events -> Payload \cup {NoPayload}]
BY DEF TypeOK, Store

\* A request that is not idle works on an order.
LEMMA BusyRequest ==
  ASSUME TypeOK, NEW r \in Requests, req[r].pc # "idle"
  PROVE  req[r] \in Request /\ req[r].order \in Orders
BY DEF TypeOK, Request, IdleRequest

LEMMA TypeInit == Init => TypeOK
BY MaxAttemptsAssumption
   DEF Init, TypeOK, OrderStatus, CheckoutStatus, HoldStatus, AttemptStatus

\* Type correctness is preserved by the steps of a request.
LEMMA TypeRequest ==
  ASSUME TypeOK, NEW r \in Requests, RequestStep(r)
  PROVE  TypeOK'
<1>. USE DEF orderVars, attemptVars, inboxVars
<1>1. ASSUME NEW o \in Orders, CheckoutOnline(r, o) PROVE TypeOK'
  <2>1. 1 \in AttemptIds  BY MaxAttemptsAssumption DEF AttemptIds
  <2>2. req' \in [Requests -> Request \cup {IdleRequest}]
    BY <1>1, <2>1, AwaitType DEF CheckoutOnline
  <2>. QED  BY <1>1, <2>1, <2>2 DEF CheckoutOnline, TypeOK, OrderStatus, Payable,
              CheckoutStatus, HoldStatus, AttemptStatus, Live
<1>2. ASSUME NEW o \in Orders, CheckoutReplay(r, o) PROVE TypeOK'
  <2>1. last[o] \in {0} \cup AttemptIds  BY DEF TypeOK
  <2>2. req' \in [Requests -> Request \cup {IdleRequest}]
    BY <1>2, <2>1, AwaitType DEF CheckoutReplay
  <2>. QED  BY <1>2, <2>2 DEF CheckoutReplay, TypeOK
<1>3. ASSUME NEW o \in Orders, NEW route \in AllRoutes, RetryBegin(r, o, route)
      PROVE TypeOK'
  <2>1. status[o] \in OrderStatus /\ "absent" \in OrderStatus /\ "absent" \in CheckoutStatus
    BY DEF TypeOK, OrderStatus, CheckoutStatus
  <2>2. req' \in [Requests -> Request \cup {IdleRequest}]
    BY <1>3, <2>1 DEF RetryBegin, TypeOK, Request, IdleRequest
  <2>. QED  BY <1>3, <2>2 DEF RetryBegin, TypeOK
<1>4. CASE RetryReadCheckout(r)
  <2>1. req[r] \in Request /\ req[r].order \in Orders
    BY <1>4, BusyRequest DEF RetryReadCheckout
  <2>2. req' \in [Requests -> Request \cup {IdleRequest}]
    BY <1>4, <2>1 DEF RetryReadCheckout, TypeOK, Request
  <2>. QED  BY <1>4, <2>2 DEF RetryReadCheckout, TypeOK
<1>5. CASE RetryRejected(r)
  BY <1>5, FinishType DEF RetryRejected, TypeOK
<1>6. CASE RetrySameAttempt(r)
  <2>1. req[r] \in Request /\ req[r].order \in Orders
    BY <1>6, BusyRequest DEF RetrySameAttempt
  <2>2. last[req[r].order] \in {0} \cup AttemptIds  BY <2>1 DEF TypeOK
  <2>3. req[r].route \in {"checkout"} \cup AllRoutes  BY <2>1 DEF Request
  <2>4. req' \in [Requests -> Request \cup {IdleRequest}]
    BY <1>6, <2>1, <2>2, <2>3, AwaitType DEF RetrySameAttempt
  <2>. QED  BY <1>6, <2>4 DEF RetrySameAttempt, TypeOK
<1>7. CASE RetryNewAttempt(r)
  <2>. DEFINE o == req[r].order
              n == last[o] + 1
  <2>1. req[r] \in Request /\ o \in Orders
    BY <1>7, BusyRequest DEF RetryNewAttempt
  <2>2. n \in AttemptIds  BY <1>7 DEF RetryNewAttempt
  <2>3. req[r].route \in {"checkout"} \cup AllRoutes  BY <2>1 DEF Request
  <2>4. req' \in [Requests -> Request \cup {IdleRequest}]
    BY <1>7, <2>1, <2>2, <2>3, AwaitType DEF RetryNewAttempt
  <2>5. Reopened(r, o) \in OrderStatus
    BY <2>1 DEF Reopened, TypeOK, OrderStatus, Payable
  <2>. QED
    BY <1>7, <2>1, <2>2, <2>4, <2>5
    DEF RetryNewAttempt, TypeOK, CheckoutStatus, AttemptStatus, Live
<1>8. CASE CreateSession(r)
  <2>1. req[r] \in Request /\ req[r].order \in Orders
    BY <1>8, BusyRequest DEF CreateSession
  <2>2. req' \in [Requests -> Request \cup {IdleRequest}]
    BY <1>8, <2>1 DEF CreateSession, TypeOK, Request
  <2>. QED  BY <1>8, <2>1, <2>2 DEF CreateSession, TypeOK
<1>9. CASE AssignReference(r)
  <2>1. req[r] \in Request /\ req[r].order \in Orders
    BY <1>9, BusyRequest DEF AssignReference
  <2>2. req' \in [Requests -> Request \cup {IdleRequest}]
    BY <1>9, FinishType DEF AssignReference
  <2>3. reference' \in [Orders -> [AttemptIds -> BOOLEAN]] /\ response' \in [Orders -> BOOLEAN]
    <3>1. CASE req[r].route = "checkout" /\ response[req[r].order]
      BY <1>9, <3>1 DEF AssignReference, TypeOK
    <3>2. CASE ~(req[r].route = "checkout" /\ response[req[r].order])
      <4>1. reference' = [reference EXCEPT ![req[r].order][req[r].attempt] = TRUE]
        BY <1>9, <3>2 DEF AssignReference
      <4>2. response' = [response EXCEPT ![req[r].order] = TRUE] \/ response' = response
        BY <1>9, <3>2 DEF AssignReference
      <4>. QED  BY <2>1, <4>1, <4>2 DEF TypeOK
    <3>. QED  BY <3>1, <3>2
  <2>. QED  BY <1>9, <2>2, <2>3 DEF AssignReference, TypeOK
<1>10. CASE Crash(r)
  BY <1>10, FinishType DEF Crash, TypeOK
<1>. QED
  BY <1>1, <1>2, <1>3, <1>4, <1>5, <1>6, <1>7, <1>8, <1>9, <1>10 DEF RequestStep

\* ... by the delivery of an event ...
LEMMA TypeWebhook ==
  ASSUME TypeOK, NEW e \in Events, NEW p \in Payload, Webhook(e, p)
  PROVE  TypeOK'
<1>. USE DEF orderVars, attemptVars, inboxVars
<1>1. ASSUME NEW result \in {"processed"} \cup Errors, EventKept(e, p, result)
      PROVE  TypeOK'
  BY <1>1, StoreType DEF EventKept, TypeOK
<1>2. /\ p.order \in Orders /\ p.attempt \in AttemptIds
      /\ p.status \in {"captured", "failed"}
  BY DEF Payload
<1>3. ASSUME EventApplied(e, p)
      PROVE  /\ inbox' \in [Events -> {"absent", "processed"} \cup Errors]
             /\ raw' \in [Events -> Payload \cup {NoPayload}]
             /\ attempt' \in [Orders -> [AttemptIds -> AttemptStatus]]
             /\ transactions' \subseteq Transaction
  <2>1. /\ inbox' \in [Events -> {"absent", "processed"} \cup Errors]
        /\ raw' \in [Events -> Payload \cup {NoPayload}]
    BY <1>3, StoreType DEF EventApplied
  <2>2. attempt' \in [Orders -> [AttemptIds -> AttemptStatus]]
    BY <1>2, <1>3 DEF EventApplied, TypeOK, AttemptStatus
  <2>3. transactions' \subseteq Transaction
    BY <1>2, <1>3 DEF EventApplied, TypeOK, Transaction
  <2>. QED  BY <2>1, <2>2, <2>3
<1>4. CASE EventCaptured(e, p)
  BY <1>2, <1>3, <1>4 DEF EventCaptured, TypeOK, OrderStatus, Paid, CheckoutStatus, HoldStatus
<1>5. CASE EventDeclined(e, p)
  BY <1>2, <1>3, <1>5 DEF EventDeclined, TypeOK, OrderStatus, Payable, CheckoutStatus
<1>6. CASE EventDuplicate(e, p)
  BY <1>6 DEF EventDuplicate, vars, TypeOK
<1>. QED
  BY <1>1, <1>4, <1>5, <1>6
  DEF Webhook, EventUnknown, EventMismatch, EventRepeated, EventTooLate, EventLapsed, Errors

\* ... and by the worker, the staff and cash-on-delivery checkouts.
LEMMA TypeWorker ==
  ASSUME TypeOK,
         \/ \E S \in SUBSET Orders : Sweep(S)
         \/ \E o \in Orders : CheckoutCod(o) \/ Lapse(o) \/ Allocate(o) \/ CancelOrder(o)
  PROVE  TypeOK'
<1>. USE DEF orderVars, attemptVars, inboxVars
<1>1. ASSUME NEW S \in SUBSET Orders, Sweep(S) PROVE TypeOK'
  <2>1. /\ status' \in [Orders -> OrderStatus]
        /\ checkout' \in [Orders -> CheckoutStatus]
        /\ hold' \in [Orders -> HoldStatus]
    BY <1>1 DEF Sweep, Swept, TypeOK, OrderStatus, CheckoutStatus, HoldStatus
  <2>2. attempt' \in [Orders -> [AttemptIds -> AttemptStatus]]
    BY <1>1 DEF Sweep, TypeOK, AttemptStatus
  <2>. QED  BY <1>1, <2>1, <2>2 DEF Sweep, TypeOK
<1>2. ASSUME NEW o \in Orders, CheckoutCod(o) PROVE TypeOK'
  BY <1>2 DEF CheckoutCod, TypeOK, OrderStatus, Paid, CheckoutStatus, HoldStatus
<1>3. ASSUME NEW o \in Orders, Lapse(o) PROVE TypeOK'
  BY <1>3 DEF Lapse, TypeOK
<1>4. ASSUME NEW o \in Orders, Allocate(o) PROVE TypeOK'
  BY <1>4 DEF Allocate, TypeOK, OrderStatus, Paid
<1>5. ASSUME NEW o \in Orders, CancelOrder(o) PROVE TypeOK'
  BY <1>5 DEF CancelOrder, TypeOK, OrderStatus, Paid, HoldStatus
<1>. QED  BY <1>1, <1>2, <1>3, <1>4, <1>5

-------------------------------------------------------------------------------
\* Steps that leave an order and its attempts alone keep what is said of them.
SameOrder(o) == /\ status'[o] = status[o] /\ checkout'[o] = checkout[o]
                /\ method'[o] = method[o] /\ hold'[o] = hold[o]
                /\ attempt'[o] = attempt[o] /\ last'[o] = last[o]

LEMMA OrderUntouched ==
  ASSUME OrderInv, AttemptInv, NEW o \in Orders, SameOrder(o)
  PROVE  OrderOk(o)' /\ \A n \in AttemptIds : AttemptOk(o, n)'
BY DEF OrderInv, AttemptInv, OrderOk, AttemptOk, SameOrder

\* To show that a step keeps both invariants it is enough to look at the
\* orders it touches.
LEMMA OrdersStep ==
  ASSUME OrderInv, AttemptInv,
         \A o \in Orders : SameOrder(o) \/ (OrderOk(o)' /\ \A n \in AttemptIds : AttemptOk(o, n)')
  PROVE  OrderInv' /\ AttemptInv'
BY OrderUntouched DEF OrderInv, AttemptInv

LEMMA OrdersCheckoutOnline ==
  ASSUME TypeOK, OrderInv, AttemptInv,
         NEW r \in Requests, NEW o \in Orders, CheckoutOnline(r, o)
  PROVE  OrderInv' /\ AttemptInv'
<1>1. 1 \in AttemptIds  BY MaxAttemptsAssumption DEF AttemptIds
<1>2. last[o] = 0 /\ \A n \in AttemptIds : attempt[o][n] = "none"
  BY DEF CheckoutOnline, OrderInv, AttemptInv, OrderOk, AttemptOk, AttemptIds
<1>3. /\ status'[o] = "pending_payment" /\ checkout'[o] = "awaiting_payment"
      /\ hold'[o] = "held" /\ last'[o] = 1 /\ attempt'[o][1] = "initiated"
      /\ \A n \in AttemptIds : n # 1 => attempt'[o][n] = "none"
  BY <1>1, <1>2 DEF CheckoutOnline, TypeOK
<1>4. OrderOk(o)'
  BY <1>1, <1>3 DEF OrderOk, Payable, Paid, Live
<1>5. \A n \in AttemptIds : AttemptOk(o, n)'
  BY <1>1, <1>3 DEF AttemptOk, Payable, Paid, Live
<1>6. \A p \in Orders : p # o => SameOrder(p)
  BY DEF CheckoutOnline, TypeOK, SameOrder
<1>. QED  BY <1>4, <1>5, <1>6, OrdersStep

LEMMA OrdersCheckoutCod ==
  ASSUME TypeOK, OrderInv, AttemptInv, NEW o \in Orders, CheckoutCod(o)
  PROVE  OrderInv' /\ AttemptInv'
<1>1. \A n \in AttemptIds : attempt[o][n] = "none"
  BY DEF CheckoutCod, OrderInv, AttemptInv, OrderOk, AttemptOk, AttemptIds
<1>2. OrderOk(o)'
  BY DEF CheckoutCod, attemptVars, TypeOK, OrderOk, Payable, Paid
<1>3. \A n \in AttemptIds : AttemptOk(o, n)'
  BY <1>1 DEF CheckoutCod, attemptVars, TypeOK, AttemptOk, Live
<1>4. \A p \in Orders : p # o => SameOrder(p)
  BY DEF CheckoutCod, attemptVars, TypeOK, SameOrder
<1>. QED  BY <1>2, <1>3, <1>4, OrdersStep

\* A retry that takes the lock finds the stock held, hence the order payable
\* whatever status it had read before.
LEMMA OrdersRetryNewAttempt ==
  ASSUME TypeOK, OrderInv, AttemptInv, NEW r \in Requests, RetryNewAttempt(r)
  PROVE  OrderInv' /\ AttemptInv'
<1>1. PICK o \in Orders : o = req[r].order  BY BusyRequest DEF RetryNewAttempt
<1>2. PICK n \in AttemptIds : n = last[o] + 1  BY <1>1 DEF RetryNewAttempt
<1>3. status[o] \in Payable /\ hold[o] = "held"
  BY <1>1 DEF RetryNewAttempt, MayRetry, Committable, OrderInv, OrderOk
<1>4. last[o] \in AttemptIds /\ attempt[o][last[o]] = "failed"
  BY <1>1, <1>3 DEF RetryNewAttempt, NeedsNewAttempt, OrderInv, OrderOk, AttemptIds
<1>5. PICK s \in Payable : s = Reopened(r, o)  BY <1>3 DEF Reopened, Payable
<1>6. /\ status' = [status EXCEPT ![o] = s]
      /\ attempt' = [attempt EXCEPT ![o][n] = "initiated"]
      /\ last' = [last EXCEPT ![o] = n]
      /\ UNCHANGED <<method, hold>>
  BY <1>1, <1>2, <1>5 DEF RetryNewAttempt
<1>7. /\ \A p \in Orders : p # o => checkout'[p] = checkout[p]
      /\ checkout'[o] \in {"awaiting_payment", checkout[o]}
  BY <1>1 DEF RetryNewAttempt, TypeOK
<1>8. /\ status'[o] = s /\ hold'[o] = "held" /\ last'[o] = n
      /\ attempt'[o][n] = "initiated"
      /\ \A m \in AttemptIds : m # n => attempt'[o][m] = attempt[o][m]
      /\ checkout'[o] \in {"open", "awaiting_payment"}
  BY <1>3, <1>6, <1>7 DEF TypeOK, OrderInv, OrderOk
<1>9. OrderOk(o)'
  BY <1>2, <1>5, <1>8 DEF OrderOk, Payable, Paid, Live
<1>10. ASSUME NEW m \in AttemptIds PROVE AttemptOk(o, m)'
  <2>1. CASE m = n
    BY <1>2, <1>5, <1>8, <2>1 DEF AttemptOk, AttemptIds
  <2>2. CASE m # n
    <3>1. attempt[o][m] # "none" => m <= last[o]
      BY DEF AttemptInv, AttemptOk
    <3>2. attempt[o][m] \notin Live /\ attempt[o][m] # "captured"
      BY <1>4 DEF AttemptInv, AttemptOk, Live
    <3>3. m <= last[o] => m <= n  BY <1>2, <1>4 DEF AttemptIds
    <3>. QED  BY <1>8, <2>2, <3>1, <3>2, <3>3 DEF AttemptOk
  <2>. QED  BY <2>1, <2>2
<1>11. \A p \in Orders : p # o => SameOrder(p)
  BY <1>6, <1>7 DEF TypeOK, SameOrder
<1>. QED  BY <1>9, <1>10, <1>11, OrdersStep

\* An accepted event is about the newest attempt, and a capture finds the
\* stock held.
LEMMA OrdersEvent ==
  ASSUME TypeOK, OrderInv, AttemptInv, NEW e \in Events, NEW p \in Payload,
         EventCaptured(e, p) \/ EventDeclined(e, p)
  PROVE  OrderInv' /\ AttemptInv'
<1>1. PICK o \in Orders, n \in AttemptIds : o = p.order /\ n = p.attempt  BY DEF Payload
<1>2. p.status \in {"captured", "failed"}  BY DEF Payload
<1>3. /\ status[o] = "pending_payment" /\ attempt[o][n] \in Live
      /\ attempt' = [attempt EXCEPT ![o][n] = p.status] /\ last' = last
  BY <1>1 DEF EventCaptured, EventDeclined, EventApplied, Accepts
<1>4. n = last[o] /\ hold[o] = "held"
  BY <1>3 DEF AttemptInv, AttemptOk, OrderInv, OrderOk, Payable
<1>5. \A q \in Orders : q # o => SameOrder(q)
  BY <1>1, <1>3 DEF EventCaptured, EventDeclined, TypeOK, SameOrder
<1>6. /\ attempt'[o][n] = p.status
      /\ \A m \in AttemptIds : m # n => attempt'[o][m] = attempt[o][m]
      /\ last'[o] = last[o]
  BY <1>3 DEF TypeOK
<1>7. \A m \in AttemptIds : m # n =>
        /\ attempt[o][m] \notin Live /\ attempt[o][m] # "captured"
        /\ attempt[o][m] # "none" => m <= last[o]
  BY <1>3, <1>4 DEF AttemptInv, AttemptOk, Payable, Paid
<1>8. n <= last[o]  BY <1>4 DEF AttemptIds
<1>9. CASE EventCaptured(e, p)
  <2>1. /\ status'[o] = "confirmed" /\ checkout'[o] = "completed"
        /\ hold'[o] = "committed" /\ p.status = "captured"
    BY <1>1, <1>9 DEF EventCaptured, TypeOK
  <2>2. OrderOk(o)'  BY <1>4, <1>6, <2>1 DEF OrderOk, Payable, Paid
  <2>3. \A m \in AttemptIds : AttemptOk(o, m)'
    BY <1>4, <1>6, <1>7, <1>8, <2>1 DEF AttemptOk, Live, Paid
  <2>. QED  BY <1>5, <2>2, <2>3, OrdersStep
<1>10. CASE EventDeclined(e, p)
  <2>1. /\ status'[o] = "payment_failed" /\ checkout'[o] = "open"
        /\ hold'[o] = "held" /\ p.status = "failed"
    BY <1>1, <1>4, <1>10 DEF EventDeclined, TypeOK
  <2>2. OrderOk(o)'  BY <1>4, <1>6, <2>1 DEF OrderOk, Payable, Paid
  <2>3. \A m \in AttemptIds : AttemptOk(o, m)'
    BY <1>4, <1>6, <1>7, <1>8, <2>1 DEF AttemptOk, Live
  <2>. QED  BY <1>5, <2>2, <2>3, OrdersStep
<1>. QED  BY <1>9, <1>10

LEMMA OrdersSweep ==
  ASSUME TypeOK, OrderInv, AttemptInv, NEW S \in SUBSET Orders, Sweep(S)
  PROVE  OrderInv' /\ AttemptInv'
<1>1. \A o \in Orders : o \notin S => SameOrder(o)
  BY DEF Sweep, Swept, TypeOK, SameOrder
<1>2. ASSUME NEW o \in S PROVE OrderOk(o)' /\ \A n \in AttemptIds : AttemptOk(o, n)'
  <2>1. o \in Orders /\ status[o] \in Payable  BY DEF Sweep, Overdue
  <2>2. /\ status'[o] = "expired" /\ checkout'[o] = "expired" /\ hold'[o] = "expired"
        /\ last'[o] = last[o]
    BY <2>1 DEF Sweep, Swept
  <2>3. \A n \in AttemptIds :
          attempt'[o][n] = IF attempt[o][n] \in Live THEN "expired" ELSE attempt[o][n]
    BY <2>1 DEF Sweep
  <2>4. \A n \in AttemptIds : /\ attempt[o][n] # "captured"
                              /\ attempt[o][n] # "none" => n <= last[o]
    BY <2>1 DEF AttemptInv, AttemptOk, Payable, Paid
  <2>5. OrderOk(o)'  BY <2>2 DEF OrderOk, Payable, Paid
  <2>6. \A n \in AttemptIds : AttemptOk(o, n)'
    BY <2>2, <2>3, <2>4 DEF AttemptOk, Live
  <2>. QED  BY <2>5, <2>6
<1>. QED  BY <1>1, <1>2, OrdersStep

LEMMA OrdersStaff ==
  ASSUME TypeOK, OrderInv, AttemptInv, NEW o \in Orders, Allocate(o) \/ CancelOrder(o)
  PROVE  OrderInv' /\ AttemptInv'
<1>1. OrderOk(o) /\ \A n \in AttemptIds : AttemptOk(o, n)  BY DEF OrderInv, AttemptInv
<1>2. /\ checkout' = checkout /\ method' = method /\ attempt' = attempt /\ last' = last
  BY DEF Allocate, CancelOrder, attemptVars
<1>3. \A p \in Orders : p # o => SameOrder(p)
  BY <1>2 DEF Allocate, CancelOrder, TypeOK, SameOrder
<1>4. /\ status[o] \in {"confirmed", "allocated"} /\ status'[o] \in {"allocated", "cancelled"}
      /\ hold'[o] = IF status'[o] = "cancelled" THEN "released" ELSE hold[o]
  BY <1>1 DEF Allocate, CancelOrder, TypeOK, OrderOk
<1>5. OrderOk(o)'  BY <1>1, <1>2, <1>4 DEF OrderOk, Payable, Paid
<1>6. \A n \in AttemptIds : AttemptOk(o, n)'
  BY <1>1, <1>2, <1>4 DEF AttemptOk, Payable, Paid
<1>. QED  BY <1>3, <1>5, <1>6, OrdersStep

\* The remaining steps write neither orders nor attempts.
LEMMA OrdersNext ==
  ASSUME TypeOK, OrderInv, AttemptInv, [Next]_vars
  PROVE  OrderInv' /\ AttemptInv'
<1>1. ASSUME UNCHANGED <<status, checkout, method, hold, attempt, last>>
      PROVE  OrderInv' /\ AttemptInv'
  BY <1>1, OrdersStep DEF SameOrder
<1>2. ASSUME NEW r \in Requests, RequestStep(r) PROVE OrderInv' /\ AttemptInv'
  <2>. USE DEF orderVars, attemptVars
  <2>1. CASE RetryNewAttempt(r)  BY <2>1, OrdersRetryNewAttempt
  <2>2. CASE \E o \in Orders : CheckoutOnline(r, o)  BY <2>2, OrdersCheckoutOnline
  <2>3. CASE \E o \in Orders : CheckoutReplay(r, o)  BY <2>3, <1>1 DEF CheckoutReplay
  <2>4. CASE \E o \in Orders, route \in AllRoutes : RetryBegin(r, o, route)
    BY <2>4, <1>1 DEF RetryBegin
  <2>5. CASE RetryReadCheckout(r) \/ RetryRejected(r) \/ RetrySameAttempt(r)
             \/ CreateSession(r) \/ AssignReference(r) \/ Crash(r)
    BY <2>5, <1>1 DEF RetryReadCheckout, RetryRejected, RetrySameAttempt, CreateSession,
                      AssignReference, Crash
  <2>. QED  BY <1>2, <2>1, <2>2, <2>3, <2>4, <2>5 DEF RequestStep
<1>3. ASSUME NEW e \in Events, NEW p \in Payload, Webhook(e, p)
      PROVE  OrderInv' /\ AttemptInv'
  <2>1. CASE EventCaptured(e, p) \/ EventDeclined(e, p)  BY <2>1, OrdersEvent
  <2>2. CASE EventDuplicate(e, p)
    BY <2>2, <1>1 DEF EventDuplicate, vars, orderVars, attemptVars
  <2>3. CASE \E result \in {"processed"} \cup Errors : EventKept(e, p, result)
    BY <2>3, <1>1 DEF EventKept, orderVars, attemptVars
  <2>. QED
    BY <1>3, <2>1, <2>2, <2>3
    DEF Webhook, EventUnknown, EventMismatch, EventRepeated, EventTooLate, EventLapsed, Errors
<1>4. ASSUME NEW o \in Orders, Lapse(o) PROVE OrderInv' /\ AttemptInv'
  BY <1>1, <1>4 DEF Lapse, attemptVars
<1>5. CASE UNCHANGED vars  BY <1>1, <1>5 DEF vars, orderVars, attemptVars
<1>. QED
  BY <1>2, <1>3, <1>4, <1>5, OrdersSweep, OrdersStaff, OrdersCheckoutCod DEF Next

-------------------------------------------------------------------------------
\* No attempt that ended moves, and none becomes captured.
AttemptsKept == \A o \in Orders, n \in AttemptIds :
  /\ attempt[o][n] \in {"captured", "failed"} => attempt'[o][n] = attempt[o][n]
  /\ attempt'[o][n] = "captured" => attempt[o][n] = "captured"

LEMMA LedgerQuiet ==
  ASSUME TypeOK, LedgerInv, EventInv, AttemptsKept, UNCHANGED inboxVars
  PROVE  LedgerInv' /\ EventInv'
<1>1. \A t \in transactions : /\ t.order \in Orders /\ t.attempt \in AttemptIds
                              /\ t.kind \in {"captured", "failed"}
  BY DEF TypeOK, Transaction
<1>2. LedgerInv'  BY <1>1 DEF LedgerInv, AttemptsKept, inboxVars
<1>3. \A p \in Payload : /\ p.order \in Orders /\ p.attempt \in AttemptIds
                         /\ p.status \in {"captured", "failed"}
  BY DEF Payload
<1>4. EventInv'  BY <1>3 DEF EventInv, AttemptsKept, inboxVars
<1>. QED  BY <1>2, <1>4

\* An event that is only stored.
LEMMA LedgerKept ==
  ASSUME TypeOK, LedgerInv, EventInv, NEW e \in Events, NEW p \in Payload,
         NEW result \in {"processed"} \cup Errors, EventKept(e, p, result),
         result = "processed" => attempt[p.order][p.attempt] = p.status
  PROVE  LedgerInv' /\ EventInv'
<1>1. /\ inbox[e] = "absent" /\ attempt' = attempt /\ transactions' = transactions
      /\ inbox' = [inbox EXCEPT ![e] = result] /\ raw' = [raw EXCEPT ![e] = p]
  BY DEF EventKept, FirstDelivery, Store, attemptVars
<1>2. \A t \in transactions : t.event \in Events /\ t.event # e
  BY <1>1 DEF LedgerInv, TypeOK, Transaction
<1>3. LedgerInv'  BY <1>1, <1>2 DEF LedgerInv, TypeOK
<1>4. ASSUME NEW d \in Events, inbox'[d] # "absent"
      PROVE  /\ raw'[d] \in Payload
             /\ inbox'[d] = "processed" => attempt'[raw'[d].order][raw'[d].attempt] = raw'[d].status
  <2>1. CASE d = e
    <3>1. raw'[d] = p /\ inbox'[d] = result  BY <1>1, <2>1 DEF TypeOK
    <3>. QED  BY <1>1, <3>1
  <2>2. CASE d # e
    <3>1. raw'[d] = raw[d] /\ inbox'[d] = inbox[d]  BY <1>1, <2>2 DEF TypeOK
    <3>. QED  BY <1>1, <1>4, <3>1 DEF EventInv
  <2>. QED  BY <2>1, <2>2
<1>5. EventInv'  BY <1>4 DEF EventInv
<1>. QED  BY <1>3, <1>5

\* An event that moves its attempt: the attempt was live, so neither the
\* ledger nor a processed event spoke of it.
LEMMA LedgerApplied ==
  ASSUME TypeOK, LedgerInv, EventInv, NEW e \in Events, NEW p \in Payload,
         EventApplied(e, p)
  PROVE  LedgerInv' /\ EventInv'
<1>1. PICK o \in Orders, n \in AttemptIds : o = p.order /\ n = p.attempt  BY DEF Payload
<1>2. PICK s \in {"captured", "failed"} : s = p.status  BY DEF Payload
<1>3. PICK new \in Transaction :
        new = [order |-> o, attempt |-> n, event |-> e, kind |-> s]
  BY <1>1, <1>2 DEF Transaction
<1>4. /\ inbox[e] = "absent" /\ attempt[o][n] \in Live
      /\ attempt' = [attempt EXCEPT ![o][n] = s]
      /\ transactions' = transactions \cup {new}
      /\ inbox' = [inbox EXCEPT ![e] = "processed"] /\ raw' = [raw EXCEPT ![e] = p]
  BY <1>1, <1>2, <1>3 DEF EventApplied, FirstDelivery, Accepts, Store
<1>5. /\ attempt'[o][n] = s
      /\ \A q \in Orders, m \in AttemptIds :
           q # o \/ m # n => attempt'[q][m] = attempt[q][m]
  BY <1>4 DEF TypeOK
<1>6. \A t \in transactions : /\ t.order \in Orders /\ t.attempt \in AttemptIds
                              /\ t.event \in Events /\ t.kind \in {"captured", "failed"}
  BY DEF TypeOK, Transaction
<1>7. \A t \in transactions : t.order # o \/ t.attempt # n
  BY <1>4, <1>6 DEF LedgerInv, Live
<1>8. LedgerInv'
  <2>1. ASSUME NEW t \in transactions'
        PROVE  attempt'[t.order][t.attempt] = t.kind /\ inbox'[t.event] = "processed"
    <3>1. CASE t = new  BY <1>3, <1>4, <1>5, <3>1 DEF TypeOK
    <3>2. CASE t \in transactions
      <4>1. attempt'[t.order][t.attempt] = attempt[t.order][t.attempt]
        BY <1>5, <1>6, <1>7, <3>2
      <4>2. inbox'[t.event] = "processed"
        BY <1>4, <1>6, <3>2 DEF LedgerInv, TypeOK
      <4>. QED  BY <3>2, <4>1, <4>2 DEF LedgerInv
    <3>. QED  BY <1>4, <3>1, <3>2
  <2>2. ASSUME NEW t \in transactions', NEW u \in transactions',
               t.order = u.order, t.attempt = u.attempt
        PROVE  t = u
    <3>1. new.order = o /\ new.attempt = n  BY <1>3
    <3>. QED  BY <1>4, <1>7, <2>2, <3>1 DEF LedgerInv
  <2>3. ASSUME NEW q \in Orders, NEW m \in AttemptIds, attempt'[q][m] = "captured"
        PROVE  \E t \in transactions' : t.order = q /\ t.attempt = m
    <3>1. CASE q = o /\ m = n  BY <1>3, <1>4, <3>1
    <3>2. CASE q # o \/ m # n  BY <1>4, <1>5, <2>3, <3>2 DEF LedgerInv
    <3>. QED  BY <3>1, <3>2
  <2>. QED  BY <2>1, <2>2, <2>3 DEF LedgerInv
<1>9. ASSUME NEW d \in Events, inbox'[d] # "absent"
      PROVE  /\ raw'[d] \in Payload
             /\ inbox'[d] = "processed" => attempt'[raw'[d].order][raw'[d].attempt] = raw'[d].status
  <2>1. CASE d = e
    <3>1. raw'[d] = p  BY <1>4, <2>1 DEF TypeOK
    <3>. QED  BY <1>1, <1>2, <1>5, <3>1
  <2>2. CASE d # e
    <3>1. raw'[d] = raw[d] /\ inbox'[d] = inbox[d]  BY <1>4, <2>2 DEF TypeOK
    <3>2. raw[d] \in Payload  BY <1>9, <3>1 DEF EventInv
    <3>3. ASSUME inbox[d] = "processed"
          PROVE  attempt'[raw[d].order][raw[d].attempt] = raw[d].status
      <4>1. attempt[raw[d].order][raw[d].attempt] = raw[d].status
        BY <3>3 DEF EventInv
      <4>2. /\ raw[d].order \in Orders /\ raw[d].attempt \in AttemptIds
            /\ raw[d].status \notin Live
        BY <3>2 DEF Payload, Live
      <4>3. raw[d].order # o \/ raw[d].attempt # n  BY <1>4, <4>1, <4>2
      <4>. QED  BY <1>5, <4>1, <4>2, <4>3
    <3>. QED  BY <3>1, <3>2, <3>3
  <2>. QED  BY <2>1, <2>2
<1>10. EventInv'  BY <1>9 DEF EventInv
<1>. QED  BY <1>8, <1>10

LEMMA LedgerNext ==
  ASSUME TypeOK, OrderInv, AttemptInv, LedgerInv, EventInv, [Next]_vars
  PROVE  LedgerInv' /\ EventInv'
<1>. USE DEF orderVars, attemptVars
<1>1. ASSUME UNCHANGED <<attempt, inboxVars>> PROVE LedgerInv' /\ EventInv'
  BY <1>1, LedgerQuiet DEF AttemptsKept
<1>2. ASSUME NEW r \in Requests, RequestStep(r) PROVE LedgerInv' /\ EventInv'
  <2>1. CASE RetryNewAttempt(r)
    <3>1. PICK o \in Orders : o = req[r].order  BY <2>1, BusyRequest DEF RetryNewAttempt
    <3>2. PICK n \in AttemptIds : n = last[o] + 1  BY <2>1, <3>1 DEF RetryNewAttempt
    <3>3. attempt' = [attempt EXCEPT ![o][n] = "initiated"] /\ UNCHANGED inboxVars
      BY <2>1, <3>1, <3>2 DEF RetryNewAttempt
    <3>4. last[o] < n /\ last[o] \in Nat  BY <3>2 DEF TypeOK, AttemptIds
    <3>5. attempt[o][n] = "none"
      BY <3>4 DEF AttemptInv, AttemptOk, AttemptIds
    <3>6. AttemptsKept  BY <3>3, <3>5 DEF AttemptsKept, TypeOK
    <3>. QED  BY <3>3, <3>6, LedgerQuiet
  <2>2. ASSUME NEW o \in Orders, CheckoutOnline(r, o) PROVE LedgerInv' /\ EventInv'
    <3>1. 1 \in AttemptIds  BY MaxAttemptsAssumption DEF AttemptIds
    <3>2. attempt[o][1] = "none"
      BY <2>2, <3>1 DEF CheckoutOnline, OrderInv, OrderOk, AttemptInv, AttemptOk
    <3>3. AttemptsKept  BY <2>2, <3>1, <3>2 DEF CheckoutOnline, AttemptsKept, TypeOK
    <3>. QED  BY <2>2, <3>3, LedgerQuiet DEF CheckoutOnline
  <2>3. CASE \E o \in Orders : CheckoutReplay(r, o)  BY <2>3, <1>1 DEF CheckoutReplay
  <2>4. CASE \E o \in Orders, route \in AllRoutes : RetryBegin(r, o, route)
    BY <2>4, <1>1 DEF RetryBegin
  <2>5. CASE RetryReadCheckout(r) \/ RetryRejected(r) \/ RetrySameAttempt(r)
             \/ CreateSession(r) \/ AssignReference(r) \/ Crash(r)
    BY <2>5, <1>1 DEF RetryReadCheckout, RetryRejected, RetrySameAttempt, CreateSession,
                      AssignReference, Crash
  <2>. QED  BY <1>2, <2>1, <2>2, <2>3, <2>4, <2>5 DEF RequestStep
<1>3. ASSUME NEW e \in Events, NEW p \in Payload, Webhook(e, p)
      PROVE  LedgerInv' /\ EventInv'
  <2>1. CASE EventCaptured(e, p) \/ EventDeclined(e, p)
    BY <2>1, LedgerApplied DEF EventCaptured, EventDeclined
  <2>2. CASE EventRepeated(e, p)  BY <2>2, LedgerKept DEF EventRepeated
  <2>3. CASE EventDuplicate(e, p)  BY <2>3, <1>1 DEF EventDuplicate, vars
  <2>4. CASE \E result \in Errors : EventKept(e, p, result)
    BY <2>4, LedgerKept DEF Errors
  <2>. QED
    BY <1>3, <2>1, <2>2, <2>3, <2>4
    DEF Webhook, EventUnknown, EventMismatch, EventTooLate, EventLapsed, Errors
<1>4. ASSUME NEW S \in SUBSET Orders, Sweep(S) PROVE LedgerInv' /\ EventInv'
  <2>1. AttemptsKept  BY <1>4 DEF Sweep, AttemptsKept, Live
  <2>. QED  BY <1>4, <2>1, LedgerQuiet DEF Sweep
<1>5. ASSUME NEW o \in Orders, CheckoutCod(o) \/ Lapse(o) \/ Allocate(o) \/ CancelOrder(o)
      PROVE  LedgerInv' /\ EventInv'
  BY <1>1, <1>5 DEF CheckoutCod, Lapse, Allocate, CancelOrder
<1>6. CASE UNCHANGED vars  BY <1>1, <1>6 DEF vars
<1>. QED  BY <1>2, <1>3, <1>4, <1>5, <1>6 DEF Next

-------------------------------------------------------------------------------
LEMMA InvInit == Init => IInv
<1>. SUFFICES ASSUME Init PROVE IInv  OBVIOUS
<1>1. TypeOK  BY TypeInit
<1>2. OrderInv /\ AttemptInv
  BY DEF Init, OrderInv, OrderOk, AttemptInv, AttemptOk, Payable, Paid, Live
<1>3. LedgerInv /\ EventInv  BY DEF Init, LedgerInv, EventInv
<1>. QED  BY <1>1, <1>2, <1>3 DEF IInv

LEMMA TypeNext == TypeOK /\ [Next]_vars => TypeOK'
<1>1. ASSUME TypeOK, UNCHANGED vars PROVE TypeOK'
  BY <1>1 DEF TypeOK, vars, orderVars, attemptVars, inboxVars
<1>. QED  BY <1>1, TypeRequest, TypeWebhook, TypeWorker DEF Next

\* The strengthened invariant holds in every reachable state.
THEOREM PaymentsInvariant == Spec => []IInv
<1>1. IInv /\ [Next]_vars => IInv'
  BY TypeNext, OrdersNext, LedgerNext DEF IInv
<1>. QED  BY <1>1, InvInit, PTL DEF Spec

\* Every table row and every request keeps its type; in particular no handler
\* writes a status that the CHECK constraints of the schema refuse.
THEOREM PaymentsType == Spec => []TypeOK
<1>1. IInv => TypeOK  BY DEF IInv
<1>. QED  BY <1>1, PaymentsInvariant, PTL

\* However events, retries, sweeps and crashes interleave, an order is charged
\* at most once and the ledger says so.
THEOREM PaymentsChargedOnce == Spec => []ChargedOnce
<1>1. ASSUME IInv, NEW o \in Orders
      PROVE  /\ \A m, n \in Captured(o) \cup LiveAttempts(o) : m = n
             /\ \A t, u \in Charges(o) : t = u
             /\ {t.attempt : t \in Charges(o)} = Captured(o)
  <2>1. \A n \in Captured(o) \cup LiveAttempts(o) : n \in AttemptIds /\ n = last[o]
    BY <1>1 DEF IInv, AttemptInv, AttemptOk, Captured, LiveAttempts
  <2>2. \A t \in Charges(o) : t.attempt \in Captured(o)
    BY <1>1 DEF IInv, LedgerInv, Charges, Captured, TypeOK, Transaction
  <2>3. \A t, u \in Charges(o) : t = u
    BY <1>1, <2>1, <2>2 DEF IInv, LedgerInv, Charges
  <2>4. \A n \in Captured(o) : \E t \in Charges(o) : t.attempt = n
    BY <1>1 DEF IInv, LedgerInv, Charges, Captured
  <2>. QED  BY <2>1, <2>2, <2>3, <2>4
<1>2. IInv => ChargedOnce  BY <1>1 DEF ChargedOnce
<1>. QED  BY <1>2, PaymentsInvariant, PTL

\* Money and stock move together in every reachable state.
THEOREM PaymentsMoneyMatchesStock == Spec => []MoneyMatchesStock
<1>1. ASSUME IInv, NEW o \in Orders PROVE MoneyMatchesStock!(o)
  <2>1. OrderOk(o)  BY <1>1 DEF IInv, OrderInv
  <2>2. Captured(o) # {} => status[o] \in Paid
    BY <1>1 DEF IInv, AttemptInv, AttemptOk, Captured
  <2>3. status[o] \in Paid => Captured(o) # {} \/ method[o] = "cod"
    BY <2>1 DEF OrderOk, Captured
  <2>. QED  BY <2>1, <2>2, <2>3 DEF OrderOk
<1>2. IInv => MoneyMatchesStock  BY <1>1 DEF MoneyMatchesStock
<1>. QED  BY <1>2, PaymentsInvariant, PTL

\* Nothing can be captured on a closed order.
THEOREM PaymentsClosedOrders == Spec => []ClosedOrdersHaveNoLiveAttempt
<1>1. IInv => ClosedOrdersHaveNoLiveAttempt
  BY DEF IInv, AttemptInv, AttemptOk, ClosedOrdersHaveNoLiveAttempt, LiveAttempts
<1>. QED  BY <1>1, PaymentsInvariant, PTL

\* Only the newest attempt counts, and a payable order can always go on.
THEOREM PaymentsNewestAttempt == Spec => []NewestAttemptDecides
<1>1. ASSUME IInv, NEW o \in Orders PROVE NewestAttemptDecides!(o)
  <2>1. LiveAttempts(o) \subseteq {last[o]}
    BY <1>1 DEF IInv, AttemptInv, AttemptOk, LiveAttempts
  <2>2. status[o] \in Payable =>
          last[o] \in AttemptIds /\ attempt[o][last[o]] \in Live \cup {"failed"}
    BY <1>1 DEF IInv, OrderInv, OrderOk
  <2>3. \A n \in AttemptIds : n > 0  BY DEF AttemptIds
  <2>. QED  BY <2>1, <2>2, <2>3
<1>2. IInv => NewestAttemptDecides  BY <1>1 DEF NewestAttemptDecides
<1>. QED  BY <1>2, PaymentsInvariant, PTL

\* A checkout is closed exactly when its order is, stale reads included.
THEOREM PaymentsCheckout == Spec => []CheckoutFollowsOrder
<1>1. IInv => CheckoutFollowsOrder
  BY DEF IInv, OrderInv, OrderOk, CheckoutFollowsOrder
<1>. QED  BY <1>1, PaymentsInvariant, PTL

\* The inbox never claims an effect that did not happen.
THEOREM PaymentsInbox == Spec => []InboxTellsTheTruth
<1>1. IInv => InboxTellsTheTruth
  BY DEF IInv, EventInv, LedgerInv, InboxTellsTheTruth, Errors
<1>. QED  BY <1>1, PaymentsInvariant, PTL

-------------------------------------------------------------------------------
\* What a step may not do.
HistoryStep ==
  /\ \A o \in Orders, n \in AttemptIds :
       attempt[o][n] \in {"captured", "failed", "expired"} => attempt'[o][n] = attempt[o][n]
  /\ transactions \subseteq transactions'
  /\ \A e \in Events : inbox[e] # "absent" => inbox'[e] = inbox[e] /\ raw'[e] = raw[e]

LEMMA HistoryRequest ==
  ASSUME IInv, NEW r \in Requests, RequestStep(r)
  PROVE  HistoryStep
<1>. USE DEF orderVars, attemptVars, inboxVars
<1>1. TypeOK /\ OrderInv /\ AttemptInv  BY DEF IInv
<1>2. ASSUME UNCHANGED <<attempt, inbox, raw, transactions>> PROVE HistoryStep
  BY <1>2 DEF HistoryStep
<1>3. ASSUME NEW o \in Orders, NEW n \in AttemptIds, attempt[o][n] = "none",
             attempt' = [attempt EXCEPT ![o][n] = "initiated"], UNCHANGED inboxVars
      PROVE  HistoryStep
  BY <1>1, <1>3 DEF HistoryStep, TypeOK
<1>4. CASE RetryNewAttempt(r)
  <2>1. PICK o \in Orders : o = req[r].order
    BY <1>1, <1>4, BusyRequest DEF RetryNewAttempt
  <2>2. PICK n \in AttemptIds : n = last[o] + 1  BY <1>4, <2>1 DEF RetryNewAttempt
  <2>3. last[o] < n /\ last[o] \in Nat  BY <1>1, <2>2 DEF TypeOK, AttemptIds
  <2>4. attempt[o][n] = "none"  BY <1>1, <2>3 DEF AttemptInv, AttemptOk, AttemptIds
  <2>5. attempt' = [attempt EXCEPT ![o][n] = "initiated"] /\ UNCHANGED inboxVars
    BY <1>4, <2>1, <2>2 DEF RetryNewAttempt
  <2>. QED  BY <1>3, <2>4, <2>5
<1>5. ASSUME NEW o \in Orders, CheckoutOnline(r, o) PROVE HistoryStep
  <2>1. 1 \in AttemptIds  BY MaxAttemptsAssumption DEF AttemptIds
  <2>2. attempt[o][1] = "none"
    BY <1>1, <1>5, <2>1 DEF CheckoutOnline, OrderInv, OrderOk, AttemptInv, AttemptOk
  <2>. QED  BY <1>3, <1>5, <2>1, <2>2 DEF CheckoutOnline
<1>6. CASE \E o \in Orders : CheckoutReplay(r, o)  BY <1>2, <1>6 DEF CheckoutReplay
<1>7. CASE \E o \in Orders, route \in AllRoutes : RetryBegin(r, o, route)
  BY <1>2, <1>7 DEF RetryBegin
<1>8. CASE RetryReadCheckout(r) \/ RetryRejected(r) \/ RetrySameAttempt(r)
           \/ CreateSession(r) \/ AssignReference(r) \/ Crash(r)
  BY <1>2, <1>8 DEF RetryReadCheckout, RetryRejected, RetrySameAttempt, CreateSession,
                    AssignReference, Crash
<1>. QED  BY <1>4, <1>5, <1>6, <1>7, <1>8 DEF RequestStep

LEMMA HistoryWebhook ==
  ASSUME IInv, NEW e \in Events, NEW p \in Payload, Webhook(e, p)
  PROVE  HistoryStep
<1>. USE DEF orderVars, attemptVars
<1>1. TypeOK  BY DEF IInv
<1>2. ASSUME FirstDelivery(e, p), NEW result, Store(e, p, result)
      PROVE  \A d \in Events : inbox[d] # "absent" => inbox'[d] = inbox[d] /\ raw'[d] = raw[d]
  BY <1>1, <1>2 DEF FirstDelivery, Store, TypeOK
<1>3. ASSUME NEW result, EventKept(e, p, result) PROVE HistoryStep
  BY <1>2, <1>3 DEF EventKept, HistoryStep
<1>4. CASE EventCaptured(e, p) \/ EventDeclined(e, p)
  <2>1. EventApplied(e, p)  BY <1>4 DEF EventCaptured, EventDeclined
  <2>2. \A o \in Orders, n \in AttemptIds :
          attempt[o][n] \in {"captured", "failed", "expired"} => attempt'[o][n] = attempt[o][n]
    BY <1>1, <2>1 DEF EventApplied, Accepts, TypeOK, Payload, Live
  <2>3. transactions \subseteq transactions'  BY <2>1 DEF EventApplied
  <2>. QED  BY <1>2, <2>1, <2>2, <2>3 DEF EventApplied, HistoryStep
<1>5. CASE EventDuplicate(e, p)
  BY <1>5 DEF EventDuplicate, vars, inboxVars, HistoryStep
<1>. QED
  BY <1>3, <1>4, <1>5
  DEF Webhook, EventUnknown, EventMismatch, EventRepeated, EventTooLate, EventLapsed

\* An attempt that ended, a transaction and the verdict on an event are never
\* rewritten, whatever comes later.
THEOREM PaymentsHistory == Spec => HistoryIsKept
<1>1. IInv /\ [Next]_vars => [HistoryStep]_vars
  <2>. SUFFICES ASSUME IInv, Next PROVE HistoryStep  OBVIOUS
  <2>1. ASSUME NEW S \in SUBSET Orders, Sweep(S) PROVE HistoryStep
    BY <2>1 DEF Sweep, HistoryStep, Live, inboxVars
  <2>2. ASSUME NEW o \in Orders, CheckoutCod(o) \/ Lapse(o) \/ Allocate(o) \/ CancelOrder(o)
        PROVE  HistoryStep
    BY <2>2 DEF CheckoutCod, Lapse, Allocate, CancelOrder, HistoryStep, attemptVars, inboxVars
  <2>. QED  BY <2>1, <2>2, HistoryRequest, HistoryWebhook DEF Next
<1>. QED  BY <1>1, PaymentsInvariant, PTL DEF Spec, HistoryIsKept, HistoryStep

\* A step moves the status of an order at most along ORDER_TRANSITIONS.
TransitionStep == \A o \in Orders :
  status'[o] # status[o] => status'[o] \in Transitions[status[o]]

LEMMA TransitionsAllowed ==
  /\ Transitions["absent"] = {"pending_payment", "confirmed"}
  /\ Transitions["pending_payment"] = {"confirmed", "payment_failed", "expired"}
  /\ Transitions["payment_failed"] = {"pending_payment", "expired"}
  /\ Transitions["confirmed"] = {"allocated", "cancelled"}
  /\ Transitions["allocated"] = {"cancelled"}
BY DEF Transitions

LEMMA OneOrderMoves ==
  ASSUME TypeOK, NEW o \in Orders, NEW s \in Transitions[status[o]] \cup {status[o]},
         status' = [status EXCEPT ![o] = s]
  PROVE  TransitionStep
BY DEF TransitionStep, TypeOK

\* Every handler moves the order as transition() would, although most assign
\* the status directly and one acts on a status it read before the lock.
THEOREM PaymentsTransitions == Spec => OrderTransitions
<1>1. IInv /\ [Next]_vars => [TransitionStep]_vars
  <2>. SUFFICES ASSUME IInv, Next PROVE TransitionStep  OBVIOUS
  <2>1. TypeOK /\ OrderInv  BY DEF IInv
  <2>2. ASSUME status' = status PROVE TransitionStep  BY <2>2 DEF TransitionStep
  <2>3. ASSUME NEW r \in Requests, RequestStep(r) PROVE TransitionStep
    <3>. USE DEF orderVars
    <3>1. CASE RetryNewAttempt(r)
      <4>1. PICK o \in Orders : o = req[r].order
        BY <2>1, <3>1, BusyRequest DEF RetryNewAttempt
      <4>2. status[o] \in Payable
        BY <2>1, <3>1, <4>1 DEF RetryNewAttempt, MayRetry, Committable, OrderInv, OrderOk
      <4>3. Reopened(r, o) \in Transitions[status[o]] \cup {status[o]}
        BY <4>2, TransitionsAllowed DEF Reopened, Payable
      <4>4. status' = [status EXCEPT ![o] = Reopened(r, o)]
        BY <3>1, <4>1 DEF RetryNewAttempt
      <4>. QED  BY <2>1, <4>3, <4>4, OneOrderMoves
    <3>2. ASSUME NEW o \in Orders, CheckoutOnline(r, o) PROVE TransitionStep
      BY <2>1, <3>2, OneOrderMoves, TransitionsAllowed DEF CheckoutOnline
    <3>3. CASE \E o \in Orders : CheckoutReplay(r, o)  BY <2>2, <3>3 DEF CheckoutReplay
    <3>4. CASE \E o \in Orders, route \in AllRoutes : RetryBegin(r, o, route)
      BY <2>2, <3>4 DEF RetryBegin
    <3>5. CASE RetryReadCheckout(r) \/ RetryRejected(r) \/ RetrySameAttempt(r)
               \/ CreateSession(r) \/ AssignReference(r) \/ Crash(r)
      BY <2>2, <3>5 DEF RetryReadCheckout, RetryRejected, RetrySameAttempt, CreateSession,
                        AssignReference, Crash
    <3>. QED  BY <2>3, <3>1, <3>2, <3>3, <3>4, <3>5 DEF RequestStep
  <2>4. ASSUME NEW e \in Events, NEW p \in Payload, Webhook(e, p) PROVE TransitionStep
    <3>1. CASE EventCaptured(e, p) \/ EventDeclined(e, p)
      <4>1. p.order \in Orders  BY DEF Payload
      <4>2. status[p.order] = "pending_payment"
        BY <3>1 DEF EventCaptured, EventDeclined, EventApplied, Accepts
      <4>3. PICK s \in {"confirmed", "payment_failed"} :
              status' = [status EXCEPT ![p.order] = s]
        BY <3>1 DEF EventCaptured, EventDeclined
      <4>. QED  BY <2>1, <4>1, <4>2, <4>3, OneOrderMoves, TransitionsAllowed
    <3>2. CASE EventDuplicate(e, p)  BY <2>2, <3>2 DEF EventDuplicate, vars, orderVars
    <3>3. CASE \E result \in {"processed"} \cup Errors : EventKept(e, p, result)
      BY <2>2, <3>3 DEF EventKept, orderVars
    <3>. QED
      BY <2>4, <3>1, <3>2, <3>3
      DEF Webhook, EventUnknown, EventMismatch, EventRepeated, EventTooLate, EventLapsed, Errors
  <2>5. ASSUME NEW S \in SUBSET Orders, Sweep(S) PROVE TransitionStep
    BY <2>1, <2>5, TransitionsAllowed DEF Sweep, Swept, Overdue, Payable, TypeOK, TransitionStep
  <2>6. ASSUME NEW o \in Orders, CheckoutCod(o) \/ Lapse(o) \/ Allocate(o) \/ CancelOrder(o)
        PROVE  TransitionStep
    <3>1. CASE CheckoutCod(o)  BY <2>1, <3>1, OneOrderMoves, TransitionsAllowed DEF CheckoutCod
    <3>2. CASE Lapse(o)  BY <2>2, <3>2 DEF Lapse
    <3>3. CASE Allocate(o)  BY <2>1, <3>3, OneOrderMoves, TransitionsAllowed DEF Allocate
    <3>4. CASE CancelOrder(o)  BY <2>1, <3>4, OneOrderMoves, TransitionsAllowed DEF CancelOrder
    <3>. QED  BY <2>6, <3>1, <3>2, <3>3, <3>4
  <2>. QED  BY <2>3, <2>4, <2>5, <2>6 DEF Next
<1>. QED  BY <1>1, PaymentsInvariant, PTL DEF Spec, OrderTransitions, TransitionStep

-------------------------------------------------------------------------------
\* A request uses a route of the instance.
RoutesInv == \A r \in Requests : req[r].route \in {"none", "checkout"} \cup RetryRoutes

LEMMA RoutesNext ==
  ASSUME TypeOK, RoutesInv, [Next]_vars
  PROVE  RoutesInv'
<1>. USE DEF IdleRequest
<1>1. ASSUME NEW r \in Requests, NEW q, q.route \in {"none", "checkout"} \cup RetryRoutes,
             req' = [req EXCEPT ![r] = q]
      PROVE  RoutesInv'
  BY <1>1 DEF RoutesInv, TypeOK
<1>2. ASSUME UNCHANGED req PROVE RoutesInv'  BY <1>2 DEF RoutesInv
<1>3. ASSUME NEW r \in Requests, Finish(r) PROVE RoutesInv'
  BY <1>1, <1>3 DEF Finish
<1>4. ASSUME NEW r \in Requests, NEW o, NEW n,
             NEW route \in {"none", "checkout"} \cup RetryRoutes, AwaitSession(r, route, o, n)
      PROVE  RoutesInv'
  BY <1>4 DEF AwaitSession, RoutesInv, TypeOK
<1>5. ASSUME NEW r \in Requests, RequestStep(r) PROVE RoutesInv'
  <2>1. req[r].route \in {"none", "checkout"} \cup RetryRoutes  BY DEF RoutesInv
  <2>2. CASE \E o \in Orders : CheckoutOnline(r, o) \/ CheckoutReplay(r, o)
    BY <1>4, <2>2 DEF CheckoutOnline, CheckoutReplay
  <2>3. CASE \E o \in Orders, route \in AllRoutes : RetryBegin(r, o, route)
    BY <2>3 DEF RetryBegin, RoutesInv, TypeOK
  <2>4. CASE RetryReadCheckout(r)  BY <2>4 DEF RetryReadCheckout, RoutesInv, TypeOK, Request
  <2>5. CASE CreateSession(r)  BY <2>5 DEF CreateSession, RoutesInv, TypeOK, Request
  <2>6. CASE RetryRejected(r) \/ AssignReference(r) \/ Crash(r)
    BY <1>3, <2>6 DEF RetryRejected, AssignReference, Crash
  <2>7. CASE RetrySameAttempt(r) \/ RetryNewAttempt(r)
    BY <1>4, <2>1, <2>7 DEF RetrySameAttempt, RetryNewAttempt
  <2>. QED  BY <1>5, <2>2, <2>3, <2>4, <2>5, <2>6, <2>7 DEF RequestStep
<1>6. CASE \E e \in Events, p \in Payload : Webhook(e, p)
  BY <1>2, <1>6 DEF Webhook, EventUnknown, EventMismatch, EventRepeated, EventTooLate,
       EventLapsed, EventKept, EventCaptured, EventDeclined, EventDuplicate, vars
<1>7. CASE \E S \in SUBSET Orders : Sweep(S)  BY <1>2, <1>7 DEF Sweep
<1>8. CASE \E o \in Orders : CheckoutCod(o) \/ Lapse(o) \/ Allocate(o) \/ CancelOrder(o)
  BY <1>2, <1>8 DEF CheckoutCod, Lapse, Allocate, CancelOrder
<1>9. CASE UNCHANGED vars  BY <1>2, <1>9 DEF vars
<1>. QED  BY <1>5, <1>6, <1>7, <1>8, <1>9 DEF Next

\* Where no request uses the retry-payment route, a retry sees the status that
\* the order has under the lock, and makes the order payable again.
LEMMA PayableNext ==
  ASSUME IInv, RoutesInv, "retry_order" \notin RetryRoutes, LiveAttemptIsPayable, [Next]_vars
  PROVE  LiveAttemptIsPayable'
<1>. USE DEF LiveAttemptIsPayable, LiveAttempts
<1>1. TypeOK /\ OrderInv /\ AttemptInv  BY DEF IInv
<1>2. ASSUME UNCHANGED <<status, attempt>> PROVE LiveAttemptIsPayable'  BY <1>2
<1>3. ASSUME NEW o \in Orders, status'[o] = "pending_payment",
             \A q \in Orders : q # o => status'[q] = status[q] /\ attempt'[q] = attempt[q]
      PROVE  LiveAttemptIsPayable'
  BY <1>3
<1>4. ASSUME NEW o \in Orders, \A n \in AttemptIds : attempt'[o][n] \notin Live,
             \A q \in Orders : q # o => status'[q] = status[q] /\ attempt'[q] = attempt[q]
      PROVE  LiveAttemptIsPayable'
  BY <1>4
<1>5. ASSUME NEW r \in Requests, RequestStep(r) PROVE LiveAttemptIsPayable'
  <2>. USE DEF orderVars, attemptVars
  <2>1. CASE RetryNewAttempt(r)
    <3>1. PICK o \in Orders : o = req[r].order
      BY <1>1, <2>1, BusyRequest DEF RetryNewAttempt
    <3>2. req[r].route # "retry_order"
      BY <1>1, <2>1, RetryRoutesAssumption DEF RoutesInv
    <3>3. status[o] \in Payable /\ Seen(r) = status[o]
      BY <2>1, <3>1, <3>2 DEF RetryNewAttempt, MayRetry, Seen
    <3>4. Reopened(r, o) = "pending_payment"  BY <3>3 DEF Reopened, Payable
    <3>. QED
      BY <1>1, <1>3, <2>1, <3>1, <3>4 DEF RetryNewAttempt, TypeOK
  <2>2. ASSUME NEW o \in Orders, CheckoutOnline(r, o) PROVE LiveAttemptIsPayable'
    BY <1>1, <1>3, <2>2 DEF CheckoutOnline, TypeOK
  <2>3. CASE \E o \in Orders : CheckoutReplay(r, o)  BY <1>2, <2>3 DEF CheckoutReplay
  <2>4. CASE \E o \in Orders, route \in AllRoutes : RetryBegin(r, o, route)
    BY <1>2, <2>4 DEF RetryBegin
  <2>5. CASE RetryReadCheckout(r) \/ RetryRejected(r) \/ RetrySameAttempt(r)
             \/ CreateSession(r) \/ AssignReference(r) \/ Crash(r)
    BY <1>2, <2>5 DEF RetryReadCheckout, RetryRejected, RetrySameAttempt, CreateSession,
                      AssignReference, Crash
  <2>. QED  BY <1>5, <2>1, <2>2, <2>3, <2>4, <2>5 DEF RequestStep
<1>6. ASSUME NEW e \in Events, NEW p \in Payload, Webhook(e, p) PROVE LiveAttemptIsPayable'
  <2>1. CASE EventCaptured(e, p) \/ EventDeclined(e, p)
    <3>1. PICK o \in Orders, n \in AttemptIds, s \in {"captured", "failed"} :
            o = p.order /\ n = p.attempt /\ s = p.status
      BY DEF Payload
    <3>2. /\ attempt[o][n] \in Live /\ attempt' = [attempt EXCEPT ![o][n] = s]
          /\ \E t : status' = [status EXCEPT ![o] = t]
      BY <2>1, <3>1 DEF EventCaptured, EventDeclined, EventApplied, Accepts
    <3>3. \A m \in AttemptIds : m # n => attempt[o][m] \notin Live
      BY <1>1, <3>2 DEF AttemptInv, AttemptOk
    <3>4. \A m \in AttemptIds : attempt'[o][m] \notin Live
      BY <1>1, <3>2, <3>3 DEF TypeOK, Live
    <3>. QED  BY <1>1, <1>4, <3>2, <3>4 DEF TypeOK
  <2>2. CASE EventDuplicate(e, p)
    BY <1>2, <2>2 DEF EventDuplicate, vars, orderVars, attemptVars
  <2>3. CASE \E result \in {"processed"} \cup Errors : EventKept(e, p, result)
    BY <1>2, <2>3 DEF EventKept, orderVars, attemptVars
  <2>. QED
    BY <1>6, <2>1, <2>2, <2>3
    DEF Webhook, EventUnknown, EventMismatch, EventRepeated, EventTooLate, EventLapsed, Errors
<1>7. ASSUME NEW S \in SUBSET Orders, Sweep(S) PROVE LiveAttemptIsPayable'
  <2>1. ASSUME NEW o \in Orders, NEW n \in AttemptIds, attempt'[o][n] \in Live
        PROVE  status'[o] = "pending_payment"
    <3>1. o \notin S /\ attempt[o][n] \in Live  BY <1>7, <2>1 DEF Sweep, Live
    <3>2. status'[o] = status[o]  BY <1>7, <3>1 DEF Sweep, Swept
    <3>. QED  BY <3>1, <3>2
  <2>. QED  BY <2>1
<1>8. ASSUME NEW o \in Orders, CheckoutCod(o) \/ Lapse(o) \/ Allocate(o) \/ CancelOrder(o)
      PROVE  LiveAttemptIsPayable'
  <2>1. CASE Lapse(o)  BY <1>2, <2>1 DEF Lapse, attemptVars
  <2>2. CASE CheckoutCod(o) \/ Allocate(o) \/ CancelOrder(o)
    <3>1. /\ status[o] # "pending_payment" /\ attempt' = attempt
          /\ \E t : status' = [status EXCEPT ![o] = t]
      BY <2>2 DEF CheckoutCod, Allocate, CancelOrder, attemptVars
    <3>. QED  BY <1>1, <1>4, <3>1 DEF TypeOK
  <2>. QED  BY <1>8, <2>1, <2>2
<1>9. CASE UNCHANGED vars  BY <1>2, <1>9 DEF vars, orderVars, attemptVars
<1>. QED  BY <1>5, <1>6, <1>7, <1>8, <1>9 DEF Next

\* The defect behind LivePaymentAccepted is in one route: with payment-intent
\* alone, every live attempt belongs to an order that accepts its capture.
THEOREM PaymentsLiveIsPayable ==
  "retry_order" \notin RetryRoutes => (Spec => []LiveAttemptIsPayable)
<1>. SUFFICES ASSUME "retry_order" \notin RetryRoutes
              PROVE  Spec => []LiveAttemptIsPayable
  OBVIOUS
<1>1. Init => RoutesInv /\ LiveAttemptIsPayable
  BY DEF Init, RoutesInv, IdleRequest, LiveAttemptIsPayable, LiveAttempts, Live
<1>2. IInv /\ RoutesInv /\ LiveAttemptIsPayable /\ [Next]_vars
        => RoutesInv' /\ LiveAttemptIsPayable'
  BY RoutesNext, PayableNext DEF IInv
<1>. QED  BY <1>1, <1>2, PaymentsInvariant, PTL DEF Spec

-------------------------------------------------------------------------------
(* The life of an order: whatever requests, events, sweeps and crashes do, *)
(* an order sees at most one step of its life at a time, in a legal order. *)

\* The abstract state of an order.
StageOf(o) == CASE status[o] \in Payable -> "unpaid"
                [] status[o] = "confirmed" -> "placed"
                [] OTHER -> status[o]
StockOf(o) == IF hold[o] \in {"released", "expired"} THEN "returned" ELSE hold[o]
Stage   == [o \in Orders |-> StageOf(o)]
PaidFor == [o \in Orders |-> Captured(o) # {}]
Stock   == [o \in Orders |-> StockOf(o)]
Late    == [o \in Orders |-> hold[o] = "held" /\ lapsed[o]]

LifeStep == Lifecycle!Next \/ UNCHANGED Lifecycle!vars

\* The steps of OrderLifecycle in terms of the abstract state.
LEMMA LifeActions ==
  ASSUME NEW o \in Orders
  PROVE  /\ Lifecycle!Place(o) <=>
              /\ Stage[o] = "absent" /\ Stage' = [Stage EXCEPT ![o] = "unpaid"]
              /\ Stock' = [Stock EXCEPT ![o] = "held"] /\ PaidFor' = PaidFor /\ Late' = Late
         /\ Lifecycle!PlaceCod(o) <=>
              /\ Stage[o] = "absent" /\ Stage' = [Stage EXCEPT ![o] = "placed"]
              /\ Stock' = [Stock EXCEPT ![o] = "committed"]
              /\ PaidFor' = PaidFor /\ Late' = Late
         /\ Lifecycle!Pay(o) <=>
              /\ Stage[o] = "unpaid" /\ Stock[o] = "held" /\ ~Late[o]
              /\ Stage' = [Stage EXCEPT ![o] = "placed"]
              /\ Stock' = [Stock EXCEPT ![o] = "committed"]
              /\ PaidFor' = [PaidFor EXCEPT ![o] = TRUE] /\ Late' = Late
         /\ Lifecycle!TimeOut(o) <=>
              /\ Stock[o] = "held" /\ ~Late[o] /\ Late' = [Late EXCEPT ![o] = TRUE]
              /\ Stage' = Stage /\ PaidFor' = PaidFor /\ Stock' = Stock
         /\ Lifecycle!Allocate(o) <=>
              /\ Stage[o] = "placed" /\ Stage' = [Stage EXCEPT ![o] = "allocated"]
              /\ PaidFor' = PaidFor /\ Stock' = Stock /\ Late' = Late
         /\ Lifecycle!Cancel(o) <=>
              /\ Stage[o] \in {"placed", "allocated"}
              /\ Stage' = [Stage EXCEPT ![o] = "cancelled"]
              /\ Stock' = [Stock EXCEPT ![o] = "returned"]
              /\ PaidFor' = PaidFor /\ Late' = Late
BY Zenon DEF Lifecycle!Place, Lifecycle!PlaceCod, Lifecycle!Pay, Lifecycle!TimeOut,
             Lifecycle!Allocate, Lifecycle!Cancel, Stage, StageOf, Stock, StockOf, PaidFor, Late

LEMMA LifeExpires ==
  ASSUME NEW S
  PROVE  Lifecycle!Expire(S) <=>
           /\ S # {} /\ \A o \in S : Stage[o] = "unpaid" /\ Late[o]
           /\ Stage' = [o \in Orders |-> IF o \in S THEN "expired" ELSE Stage[o]]
           /\ Stock' = [o \in Orders |-> IF o \in S THEN "returned" ELSE Stock[o]]
           /\ Late' = [o \in Orders |-> IF o \in S THEN FALSE ELSE Late[o]]
           /\ PaidFor' = PaidFor
BY Zenon DEF Lifecycle!Expire, Stage, StageOf, Stock, StockOf, PaidFor, Late

\* A step that shows an order nothing of its life.
LEMMA LifeStutters ==
  ASSUME Stage' = Stage, PaidFor' = PaidFor, Stock' = Stock, Late' = Late
  PROVE  LifeStep
BY Zenon DEF LifeStep, Lifecycle!vars, Stage, StageOf, Stock, StockOf, PaidFor, Late

LEMMA LifeOfOne ==
  ASSUME NEW o \in Orders,
         \/ Lifecycle!Place(o) \/ Lifecycle!PlaceCod(o) \/ Lifecycle!Pay(o)
         \/ Lifecycle!TimeOut(o) \/ Lifecycle!Allocate(o) \/ Lifecycle!Cancel(o)
  PROVE  LifeStep
BY Zenon DEF LifeStep, Lifecycle!Next

-------------------------------------------------------------------------------
\* A hold that was never taken has not lapsed.
LapseInv == \A o \in Orders : hold[o] = "none" => ~lapsed[o]

LEMMA LapseNext ==
  ASSUME IInv, LapseInv, [Next]_vars
  PROVE  LapseInv'
<1>. USE DEF orderVars, attemptVars, inboxVars
<1>1. ASSUME UNCHANGED <<hold, lapsed>> PROVE LapseInv'  BY <1>1 DEF LapseInv
<1>2. ASSUME NEW o \in Orders, NEW s \in HoldStatus \ {"none"}, lapsed' = lapsed,
             hold' = [hold EXCEPT ![o] = s]
      PROVE  LapseInv'
  BY <1>2 DEF LapseInv, IInv, TypeOK
<1>3. ASSUME NEW r \in Requests, RequestStep(r) PROVE LapseInv'
  <2>1. ASSUME NEW o \in Orders, CheckoutOnline(r, o) PROVE LapseInv'
    BY <2>1, <1>2 DEF CheckoutOnline, HoldStatus
  <2>. QED
    BY <1>1, <1>3, <2>1
    DEF RequestStep, CheckoutReplay, RetryBegin, RetryReadCheckout, RetryRejected,
        RetrySameAttempt, RetryNewAttempt, CreateSession, AssignReference, Crash
<1>4. ASSUME NEW e \in Events, NEW p \in Payload, Webhook(e, p) PROVE LapseInv'
  <2>1. CASE EventCaptured(e, p)
    <3>1. p.order \in Orders  BY DEF Payload
    <3>. QED  BY <1>2, <2>1, <3>1 DEF EventCaptured, HoldStatus
  <2>. QED
    BY <1>1, <1>4, <2>1
    DEF Webhook, EventKept, EventUnknown, EventMismatch, EventRepeated, EventTooLate,
        EventLapsed, EventDeclined, EventDuplicate, vars
<1>5. ASSUME NEW S \in SUBSET Orders, Sweep(S) PROVE LapseInv'
  BY <1>5 DEF Sweep, Swept, LapseInv
<1>6. ASSUME NEW o \in Orders, CheckoutCod(o) PROVE LapseInv'
  BY <1>6, <1>2 DEF CheckoutCod, HoldStatus
<1>7. ASSUME NEW o \in Orders, Lapse(o) PROVE LapseInv'
  BY <1>7 DEF Lapse, LapseInv, IInv, TypeOK
<1>8. ASSUME NEW o \in Orders, Allocate(o) PROVE LapseInv'
  BY <1>8, <1>1 DEF Allocate
<1>9. ASSUME NEW o \in Orders, CancelOrder(o) PROVE LapseInv'
  BY <1>9, <1>2 DEF CancelOrder, HoldStatus, IInv, OrderInv, OrderOk, TypeOK
<1>. QED  BY <1>1, <1>3, <1>4, <1>5, <1>6, <1>7, <1>8, <1>9 DEF Next, vars

-------------------------------------------------------------------------------
\* The abstract state of one order changes with its rows.
LEMMA LifeRow ==
  ASSUME TypeOK, NEW o \in Orders,
         \A x \in Orders \ {o} : /\ status'[x] = status[x] /\ hold'[x] = hold[x]
                                 /\ lapsed'[x] = lapsed[x] /\ Captured(x)' = Captured(x)
  PROVE  /\ Stage' = [Stage EXCEPT ![o] = StageOf(o)']
         /\ Stock' = [Stock EXCEPT ![o] = StockOf(o)']
         /\ PaidFor' = [PaidFor EXCEPT ![o] = (Captured(o) # {})']
         /\ Late' = [Late EXCEPT ![o] = (hold[o] = "held" /\ lapsed[o])']
<1>1. \A x \in Orders \ {o} : StageOf(x)' = StageOf(x) /\ StockOf(x)' = StockOf(x)
  BY DEF StageOf, StockOf
<1>2. Stage' = [Stage EXCEPT ![o] = StageOf(o)']  BY <1>1 DEF Stage
<1>3. Stock' = [Stock EXCEPT ![o] = StockOf(o)']  BY <1>1 DEF Stock
<1>4. PaidFor' = [PaidFor EXCEPT ![o] = (Captured(o) # {})']  BY DEF PaidFor
<1>5. Late' = [Late EXCEPT ![o] = (hold[o] = "held" /\ lapsed[o])']  BY DEF Late
<1>. QED  BY <1>2, <1>3, <1>4, <1>5

\* Nothing of it changes if its rows say the same as before.
LEMMA LifeSame ==
  ASSUME NEW o \in Orders, StageOf(o)' = StageOf(o), StockOf(o)' = StockOf(o),
         (Captured(o) # {})' = (Captured(o) # {}),
         (hold[o] = "held" /\ lapsed[o])' = (hold[o] = "held" /\ lapsed[o])
  PROVE  /\ [Stage EXCEPT ![o] = StageOf(o)'] = Stage
         /\ [Stock EXCEPT ![o] = StockOf(o)'] = Stock
         /\ [PaidFor EXCEPT ![o] = (Captured(o) # {})'] = PaidFor
         /\ [Late EXCEPT ![o] = (hold[o] = "held" /\ lapsed[o])'] = Late
BY DEF Stage, Stock, PaidFor, Late

LEMMA LifeQuiet ==
  ASSUME UNCHANGED <<status, hold, lapsed, attempt>>
  PROVE  LifeStep
<1>1. Stage' = Stage /\ PaidFor' = PaidFor /\ Stock' = Stock /\ Late' = Late
  BY DEF Stage, StageOf, PaidFor, Captured, Stock, StockOf, Late
<1>. QED  BY <1>1, LifeStutters

-------------------------------------------------------------------------------
LEMMA LifeRequest ==
  ASSUME IInv, LapseInv, NEW r \in Requests, RequestStep(r)
  PROVE  LifeStep
<1>. USE DEF orderVars, attemptVars, inboxVars
<1>0. TypeOK /\ OrderInv /\ AttemptInv  BY DEF IInv
<1>1. ASSUME NEW o \in Orders, CheckoutOnline(r, o) PROVE LifeStep
  <2>1. 1 \in AttemptIds  BY MaxAttemptsAssumption DEF AttemptIds
  <2>2. /\ status[o] = "absent" /\ hold[o] = "none" /\ ~lapsed[o] /\ last[o] = 0
        /\ \A n \in AttemptIds : attempt[o][n] = "none"
    BY <1>0, <1>1 DEF CheckoutOnline, LapseInv, OrderInv, OrderOk, AttemptInv, AttemptOk,
                      AttemptIds
  <2>3. /\ status'[o] = "pending_payment" /\ hold'[o] = "held" /\ lapsed' = lapsed
        /\ \A x \in Orders \ {o} : status'[x] = status[x] /\ hold'[x] = hold[x]
        /\ \A x \in Orders \ {o} : attempt'[x] = attempt[x]
        /\ \A n \in AttemptIds : attempt'[o][n] \in {"none", "initiated"}
    BY <1>0, <1>1, <2>1, <2>2 DEF CheckoutOnline, TypeOK
  <2>4. Captured(o) = {} /\ Captured(o)' = {}  BY <2>2, <2>3 DEF Captured
  <2>5. \A x \in Orders \ {o} : Captured(x)' = Captured(x)  BY <2>3 DEF Captured
  <2>6. StageOf(o)' = "unpaid" /\ StockOf(o)' = "held"
    BY <2>3 DEF StageOf, StockOf, Payable
  <2>7. Stage[o] = "absent"  BY <2>2 DEF Stage, StageOf, Payable
  <2>8. PaidFor = [PaidFor EXCEPT ![o] = (Captured(o) # {})']  BY <2>4 DEF PaidFor
  <2>9. Late = [Late EXCEPT ![o] = (hold[o] = "held" /\ lapsed[o])']
    BY <2>2, <2>3 DEF Late
  <2>10. Lifecycle!Place(o)
    BY <1>0, <2>3, <2>5, <2>6, <2>7, <2>8, <2>9, LifeRow, LifeActions
  <2>. QED  BY <2>10, LifeOfOne
<1>2. CASE RetryNewAttempt(r)
  <2>1. PICK o \in Orders : o = req[r].order  BY <1>0, <1>2, BusyRequest DEF RetryNewAttempt
  <2>2. PICK n \in AttemptIds : n = last[o] + 1  BY <1>2, <2>1 DEF RetryNewAttempt
  <2>3. hold[o] = "held" /\ status[o] \in Payable
    BY <1>0, <1>2, <2>1 DEF RetryNewAttempt, MayRetry, Committable, OrderInv, OrderOk
  <2>4. attempt[o][n] # "captured"
    BY <1>0, <2>2 DEF AttemptInv, AttemptOk, TypeOK, AttemptIds
  <2>5. /\ status' = [status EXCEPT ![o] = Reopened(r, o)] /\ Reopened(r, o) \in Payable
        /\ hold' = hold /\ lapsed' = lapsed /\ attempt' = [attempt EXCEPT ![o][n] = "initiated"]
    BY <1>2, <2>1, <2>2, <2>3 DEF RetryNewAttempt, Reopened, Payable
  <2>6. /\ status'[o] \in Payable
        /\ \A x \in Orders \ {o} : status'[x] = status[x] /\ attempt'[x] = attempt[x]
    BY <1>0, <2>5 DEF TypeOK
  <2>7. \A x \in Orders : Captured(x)' = Captured(x)
    <3>1. \A m \in AttemptIds : attempt'[o][m] = "captured" <=> attempt[o][m] = "captured"
      BY <1>0, <2>4, <2>5 DEF TypeOK
    <3>. QED  BY <2>6, <3>1 DEF Captured
  <2>8. StageOf(o)' = StageOf(o) /\ StockOf(o)' = StockOf(o)
    <3>1. StageOf(o)' = "unpaid" /\ StageOf(o) = "unpaid"  BY <2>3, <2>6 DEF StageOf, Payable
    <3>2. StockOf(o)' = StockOf(o)  BY <2>5 DEF StockOf
    <3>. QED  BY <3>1, <3>2
  <2>9. Stage' = Stage /\ Stock' = Stock /\ PaidFor' = PaidFor /\ Late' = Late
    BY <1>0, <2>5, <2>6, <2>7, <2>8, LifeRow, LifeSame
  <2>. QED  BY <2>9, LifeStutters
<1>. QED
  BY <1>1, <1>2, LifeQuiet
  DEF RequestStep, CheckoutReplay, RetryBegin, RetryReadCheckout, RetryRejected,
      RetrySameAttempt, CreateSession, AssignReference, Crash

LEMMA LifeWebhook ==
  ASSUME IInv, NEW e \in Events, NEW p \in Payload, Webhook(e, p)
  PROVE  LifeStep
<1>. USE DEF orderVars, attemptVars
<1>0. TypeOK /\ OrderInv /\ AttemptInv  BY DEF IInv
<1>1. PICK o \in Orders, n \in AttemptIds : o = p.order /\ n = p.attempt  BY DEF Payload
<1>2. CASE EventCaptured(e, p)
  <2>1. /\ status[o] = "pending_payment" /\ hold[o] = "held" /\ ~lapsed[o]
        /\ status' = [status EXCEPT ![o] = "confirmed"]
        /\ hold' = [hold EXCEPT ![o] = "committed"] /\ lapsed' = lapsed
        /\ attempt' = [attempt EXCEPT ![o][n] = "captured"]
    BY <1>1, <1>2 DEF EventCaptured, EventApplied, Accepts, Committable
  <2>2. /\ status'[o] = "confirmed" /\ hold'[o] = "committed" /\ attempt'[o][n] = "captured"
        /\ \A x \in Orders \ {o} : /\ status'[x] = status[x] /\ hold'[x] = hold[x]
                                   /\ attempt'[x] = attempt[x]
    BY <1>0, <2>1 DEF TypeOK
  <2>3. n \in Captured(o)' /\ \A x \in Orders \ {o} : Captured(x)' = Captured(x)
    BY <2>2 DEF Captured
  <2>4. StageOf(o)' = "placed" /\ StockOf(o)' = "committed"
    BY <2>2 DEF StageOf, StockOf, Payable
  <2>5. Stage[o] = "unpaid" /\ Stock[o] = "held" /\ ~Late[o]
    BY <2>1 DEF Stage, StageOf, Stock, StockOf, Payable, Late
  <2>6. PaidFor' = [PaidFor EXCEPT ![o] = TRUE]
    <3>1. (Captured(o) # {})' = TRUE  BY <2>3
    <3>2. PaidFor' = [PaidFor EXCEPT ![o] = (Captured(o) # {})']
      BY <1>0, <2>1, <2>2, <2>3, LifeRow
    <3>. QED  BY <3>1, <3>2
  <2>7. Late = [Late EXCEPT ![o] = (hold[o] = "held" /\ lapsed[o])']
    BY <2>1, <2>2 DEF Late
  <2>8. Stage' = [Stage EXCEPT ![o] = "placed"] /\ Stock' = [Stock EXCEPT ![o] = "committed"]
    BY <1>0, <2>1, <2>2, <2>3, <2>4, LifeRow
  <2>9. Late' = Late  BY <1>0, <2>1, <2>2, <2>3, <2>7, LifeRow
  <2>10. Lifecycle!Pay(o)  BY <2>5, <2>6, <2>8, <2>9, LifeActions
  <2>. QED  BY <2>10, LifeOfOne
<1>3. CASE EventDeclined(e, p)
  <2>1. /\ status[o] = "pending_payment" /\ attempt[o][n] \in Live
        /\ status' = [status EXCEPT ![o] = "payment_failed"] /\ UNCHANGED <<hold, lapsed>>
        /\ attempt' = [attempt EXCEPT ![o][n] = "failed"]
    BY <1>1, <1>3 DEF EventDeclined, EventApplied, Accepts
  <2>2. /\ status'[o] = "payment_failed"
        /\ \A x \in Orders \ {o} : status'[x] = status[x] /\ attempt'[x] = attempt[x]
    BY <1>0, <2>1 DEF TypeOK
  <2>3. \A x \in Orders : Captured(x)' = Captured(x)
    <3>1. \A m \in AttemptIds : attempt'[o][m] = "captured" <=> attempt[o][m] = "captured"
      BY <1>0, <2>1 DEF TypeOK, Live
    <3>. QED  BY <2>2, <3>1 DEF Captured
  <2>4. StageOf(o)' = StageOf(o) /\ StockOf(o)' = StockOf(o)
    BY <2>1, <2>2 DEF StageOf, StockOf, Payable
  <2>5. Stage' = Stage /\ Stock' = Stock /\ PaidFor' = PaidFor /\ Late' = Late
    BY <1>0, <2>1, <2>2, <2>3, <2>4, LifeRow, LifeSame
  <2>. QED  BY <2>5, LifeStutters
<1>. QED
  BY <1>2, <1>3, LifeQuiet
  DEF Webhook, EventKept, EventUnknown, EventMismatch, EventRepeated, EventTooLate,
      EventLapsed, EventDuplicate, vars

LEMMA LifeSweep ==
  ASSUME IInv, NEW S \in SUBSET Orders, Sweep(S)
  PROVE  LifeStep
<1>0. TypeOK  BY DEF IInv
<1>1. /\ S # {} /\ S \subseteq Overdue /\ lapsed' = lapsed
      /\ status' = Swept(S, status) /\ hold' = Swept(S, hold)
      /\ \A o \in Orders, n \in AttemptIds :
           attempt'[o][n] = IF o \in S /\ attempt[o][n] \in Live THEN "expired"
                                                                 ELSE attempt[o][n]
  BY DEF Sweep
<1>2. \A o \in Orders : Captured(o)' = Captured(o)  BY <1>1 DEF Captured, Live
<1>3. ASSUME NEW o \in S PROVE Stage[o] = "unpaid" /\ Late[o]
  <2>1. o \in Orders /\ hold[o] = "held" /\ lapsed[o] /\ status[o] \in Payable
    BY <1>1 DEF Overdue
  <2>2. Stage[o] = "unpaid"  BY <2>1 DEF Stage, StageOf, Payable
  <2>3. Late[o]  BY <2>1 DEF Late
  <2>. QED  BY <2>2, <2>3
<1>4. \A o \in S : /\ StageOf(o)' = "expired" /\ StockOf(o)' = "returned"
                   /\ (hold[o] = "held" /\ lapsed[o])' = FALSE
  BY <1>1 DEF StageOf, StockOf, Swept, Payable
<1>5. \A o \in Orders \ S : /\ StageOf(o)' = StageOf(o) /\ StockOf(o)' = StockOf(o)
                            /\ hold'[o] = hold[o]
  BY <1>1 DEF StageOf, StockOf, Swept
<1>6. /\ Stage' = [o \in Orders |-> IF o \in S THEN "expired" ELSE Stage[o]]
      /\ Stock' = [o \in Orders |-> IF o \in S THEN "returned" ELSE Stock[o]]
  BY <1>4, <1>5 DEF Stage, Stock
<1>7. Late' = [o \in Orders |-> IF o \in S THEN FALSE ELSE Late[o]]
  BY <1>1, <1>4, <1>5 DEF Late
<1>8. PaidFor' = PaidFor  BY <1>2 DEF PaidFor
<1>9. Lifecycle!Expire(S)  BY <1>1, <1>3, <1>6, <1>7, <1>8, LifeExpires
<1>. QED  BY <1>9 DEF LifeStep, Lifecycle!Next

LEMMA LifeStaff ==
  ASSUME IInv, LapseInv, NEW o \in Orders,
         CheckoutCod(o) \/ Lapse(o) \/ Allocate(o) \/ CancelOrder(o)
  PROVE  LifeStep
<1>. USE DEF attemptVars, inboxVars
<1>0. TypeOK /\ OrderOk(o)  BY DEF IInv, OrderInv
<1>1. attempt' = attempt /\ \A x \in Orders : Captured(x)' = Captured(x)
  BY DEF CheckoutCod, Lapse, Allocate, CancelOrder, Captured
<1>2. PaidFor' = PaidFor  BY <1>1 DEF PaidFor
<1>3. CASE CheckoutCod(o)
  <2>1. /\ status[o] = "absent" /\ hold[o] = "none" /\ ~lapsed[o] /\ lapsed' = lapsed
        /\ status'[o] = "confirmed" /\ hold'[o] = "committed"
        /\ \A x \in Orders \ {o} : status'[x] = status[x] /\ hold'[x] = hold[x]
    BY <1>0, <1>3 DEF CheckoutCod, OrderOk, LapseInv, TypeOK
  <2>2. /\ StageOf(o)' = "placed" /\ StockOf(o)' = "committed" /\ Stage[o] = "absent"
    BY <2>1 DEF StageOf, StockOf, Stage, Payable
  <2>3. Late = [Late EXCEPT ![o] = (hold[o] = "held" /\ lapsed[o])']  BY <2>1 DEF Late
  <2>4. Lifecycle!PlaceCod(o)
    BY <1>0, <1>1, <1>2, <2>1, <2>2, <2>3, LifeRow, LifeActions
  <2>. QED  BY <2>4, LifeOfOne
<1>4. CASE Lapse(o)
  <2>1. /\ hold[o] = "held" /\ ~lapsed[o] /\ lapsed'[o] = TRUE /\ UNCHANGED <<status, hold>>
        /\ \A x \in Orders \ {o} : lapsed'[x] = lapsed[x]
    BY <1>0, <1>4 DEF Lapse, TypeOK
  <2>2. Stage' = Stage /\ Stock' = Stock  BY <2>1 DEF Stage, StageOf, Stock, StockOf
  <2>3. Late' = [Late EXCEPT ![o] = TRUE]  BY <2>1 DEF Late
  <2>4. Stock[o] = "held" /\ ~Late[o]  BY <2>1 DEF Stock, StockOf, Late
  <2>5. Lifecycle!TimeOut(o)  BY <1>2, <2>2, <2>3, <2>4, LifeActions
  <2>. QED  BY <2>5, LifeOfOne
<1>5. CASE Allocate(o)
  <2>1. /\ status[o] = "confirmed" /\ status'[o] = "allocated" /\ UNCHANGED <<hold, lapsed>>
        /\ \A x \in Orders \ {o} : status'[x] = status[x]
    BY <1>0, <1>5 DEF Allocate, TypeOK
  <2>2. StageOf(o)' = "allocated" /\ Stage[o] = "placed"
    BY <2>1 DEF StageOf, Stage, Payable
  <2>3. Stock' = Stock /\ Late' = Late  BY <2>1 DEF Stock, StockOf, Late
  <2>4. Lifecycle!Allocate(o)
    BY <1>0, <1>1, <1>2, <2>1, <2>2, <2>3, LifeRow, LifeActions
  <2>. QED  BY <2>4, LifeOfOne
<1>6. CASE CancelOrder(o)
  <2>1. /\ status[o] \in {"confirmed", "allocated"} /\ hold[o] = "committed"
        /\ status'[o] = "cancelled" /\ hold'[o] = "released" /\ lapsed' = lapsed
        /\ \A x \in Orders \ {o} : status'[x] = status[x] /\ hold'[x] = hold[x]
    BY <1>0, <1>6 DEF CancelOrder, OrderOk, TypeOK
  <2>2. /\ StageOf(o)' = "cancelled" /\ StockOf(o)' = "returned"
        /\ Stage[o] \in {"placed", "allocated"}
    BY <2>1 DEF StageOf, StockOf, Stage, Payable
  <2>3. Late = [Late EXCEPT ![o] = (hold[o] = "held" /\ lapsed[o])']  BY <2>1 DEF Late
  <2>4. Lifecycle!Cancel(o)
    BY <1>0, <1>1, <1>2, <2>1, <2>2, <2>3, LifeRow, LifeActions
  <2>. QED  BY <2>4, LifeOfOne
<1>. QED  BY <1>3, <1>4, <1>5, <1>6

LEMMA LifeInit == Init => Lifecycle!Init /\ LapseInv
<1>. SUFFICES ASSUME Init PROVE Lifecycle!Init /\ LapseInv  OBVIOUS
<1>1. \A o \in Orders : /\ StageOf(o) = "absent" /\ StockOf(o) = "none"
                        /\ Captured(o) = {} /\ ~(hold[o] = "held" /\ lapsed[o])
  BY DEF Init, StageOf, StockOf, Captured, Payable
<1>2. /\ Stage = [o \in Orders |-> "absent"] /\ PaidFor = [o \in Orders |-> FALSE]
      /\ Stock = [o \in Orders |-> "none"] /\ Late = [o \in Orders |-> FALSE]
  BY <1>1 DEF Stage, PaidFor, Stock, Late
<1>3. Lifecycle!Init
  BY <1>2, Zenon DEF Lifecycle!Init, Stage, StageOf, Stock, StockOf, PaidFor, Late
<1>4. LapseInv  BY DEF Init, LapseInv
<1>. QED  BY <1>3, <1>4

\* What the payment machinery does to an order is a step of OrderLifecycle or
\* invisible to it: stock is committed with the money or by cash on delivery,
\* goes back when the order expires or is cancelled, and never otherwise.
THEOREM PaymentsImplementLifecycle ==
  Spec => Lifecycle!Init /\ [][Lifecycle!Next]_(Lifecycle!vars)
<1>1. LapseInv /\ IInv /\ [Next]_vars => LapseInv'  BY LapseNext
<1>2. ASSUME IInv, LapseInv, [Next]_vars PROVE LifeStep
  <2>1. CASE UNCHANGED vars  BY <2>1, LifeQuiet DEF vars, orderVars, attemptVars
  <2>. QED  BY <1>2, <2>1, LifeRequest, LifeWebhook, LifeSweep, LifeStaff DEF Next
<1>3. IInv /\ LapseInv /\ [Next]_vars => [Lifecycle!Next]_(Lifecycle!vars)
  BY <1>2 DEF LifeStep
<1>. QED  BY <1>1, <1>3, LifeInit, PaymentsInvariant, PTL DEF Spec
===============================================================================
