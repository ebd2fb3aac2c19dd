------------------------------- MODULE Payments -------------------------------
(***************************************************************************)
(* Orders paid online and the transactions that race over them: the two    *)
(* phases of a checkout, both payment-retry routes, the provider's webhook *)
(* events (duplicated, late, early, reordered, with a wrong amount), the   *)
(* reservation sweeper, and allocation and cancellation.                   *)
(*                                                                         *)
(* One action is one committed database transaction, or one unlocked read  *)
(* whose value a request still uses after the next lock.  PostgreSQL runs  *)
(* at READ COMMITTED and every transaction below first locks the order     *)
(* row, so what happens under that lock is one step.  An object a SQL-     *)
(* Alchemy session already holds is NOT refreshed by SELECT ... FOR        *)
(* UPDATE, so a request can take the lock and still act on a status it     *)
(* read before waiting for it: seenOrder and seenCheckout are those reads. *)
(*                                                                         *)
(* Operators named Slip... are mistakes the code does not make; each one   *)
(* breaks a property below, which shows what that property guards.         *)
(***************************************************************************)
EXTENDS Naturals

CONSTANTS Orders,       \* order identifiers
          MaxAttempts,  \* bound: payment attempts per order
          Events,       \* provider event identifiers (bounds the inbox)
          Requests,     \* concurrent HTTP requests of shoppers
          RetryRoutes   \* the retry routes in use

AllRoutes == {"payment_intent", "retry_order"}

ASSUME MaxAttemptsAssumption == MaxAttempts \in Nat \ {0}
ASSUME RetryRoutesAssumption == RetryRoutes \subseteq AllRoutes

VARIABLES status,       \* orders.status ("absent" before the checkout)
          checkout,     \* checkouts.status
          method,       \* orders.payment_method, "online" for card and upi
          hold,         \* status of the order's inventory_reservations
          lapsed,       \* the holds' expires_at <= now
          response,     \* idempotency_keys.response_body is written
          attempt,      \* payment_attempts.status, by order and creation
          last,         \* number of attempts of the order
          reference,    \* payment_attempts.provider_reference is assigned
          opened,       \* the provider has a session for the attempt
          inbox,        \* webhook_inbox: absent, processed or the error
          raw,          \* webhook_inbox.raw_payload
          transactions, \* payment_transactions
          req           \* program counter and locals of each request

orderVars   == <<status, checkout, method, hold, lapsed>>
attemptVars == <<attempt, last>>
inboxVars   == <<inbox, raw, transactions>>
vars == <<orderVars, response, attemptVars, reference, opened, inboxVars, req>>

-------------------------------------------------------------------------------
AttemptIds    == 1..MaxAttempts
Payable       == {"pending_payment", "payment_failed"}
Paid          == {"confirmed", "allocated", "cancelled"}
OrderStatus   == {"absent", "expired"} \cup Payable \cup Paid
CheckoutStatus == {"absent", "open", "awaiting_payment", "completed", "expired"}
HoldStatus    == {"none", "held", "committed", "released", "expired"}
Live          == {"initiated", "pending", "requires_action"}
AttemptStatus == {"none", "captured", "failed", "expired"} \cup Live
Errors        == {"payment_attempt_not_found", "payment_amount_mismatch",
                  "invalid_payment_transition", "reservation_expired"}
Payload == [order: Orders, attempt: AttemptIds,
            status: {"captured", "failed"}, exact: BOOLEAN]
NoPayload == [status |-> "none"]
Transaction == [order: Orders, attempt: AttemptIds, event: Events,
                kind: {"captured", "failed"}]

\* A request: which route, how far, the order and attempt it works on, and
\* the order and checkout status it read without a lock.
IdleRequest == [pc |-> "idle", route |-> "none", order |-> "none", attempt |-> 0,
                seenOrder |-> "absent", seenCheckout |-> "absent"]
Request == [pc: {"read_checkout", "lock", "session", "assign"},
            route: {"checkout"} \cup AllRoutes,
            order: Orders, attempt: {0} \cup AttemptIds,
            seenOrder: OrderStatus, seenCheckout: CheckoutStatus]

TypeOK ==
  /\ status    \in [Orders -> OrderStatus]
  /\ checkout  \in [Orders -> CheckoutStatus]
  /\ method    \in [Orders -> {"online", "cod"}]
  /\ hold      \in [Orders -> HoldStatus]
  /\ lapsed    \in [Orders -> BOOLEAN]
  /\ response  \in [Orders -> BOOLEAN]
  /\ attempt   \in [Orders -> [AttemptIds -> AttemptStatus]]
  /\ last      \in [Orders -> {0} \cup AttemptIds]
  /\ reference \in [Orders -> [AttemptIds -> BOOLEAN]]
  /\ opened    \in [Orders -> [AttemptIds -> BOOLEAN]]
  /\ inbox     \in [Events -> {"absent", "processed"} \cup Errors]
  /\ raw       \in [Events -> Payload \cup {NoPayload}]
  /\ transactions \subseteq Transaction
  /\ req       \in [Requests -> Request \cup {IdleRequest}]

Init ==
  /\ status    = [o \in Orders |-> "absent"]
  /\ checkout  = [o \in Orders |-> "absent"]
  /\ method    = [o \in Orders |-> "online"]
  /\ hold      = [o \in Orders |-> "none"]
  /\ lapsed    = [o \in Orders |-> FALSE]
  /\ response  = [o \in Orders |-> FALSE]
  /\ attempt   = [o \in Orders |-> [n \in AttemptIds |-> "none"]]
  /\ last      = [o \in Orders |-> 0]
  /\ reference = [o \in Orders |-> [n \in AttemptIds |-> FALSE]]
  /\ opened    = [o \in Orders |-> [n \in AttemptIds |-> FALSE]]
  /\ inbox     = [e \in Events |-> "absent"]
  /\ raw       = [e \in Events |-> NoPayload]
  /\ transactions = {}
  /\ req       = [r \in Requests |-> IdleRequest]

-------------------------------------------------------------------------------
(***************************************************************************)
(* Checkout                                                                *)
(***************************************************************************)
\* Slip: the expiry of the holds is left to the sweeper.
SlipLapseIgnored(o) == hold[o] = "held"
\* commit_reservations succeeds: every hold is held and none has lapsed.
Committable(o) == hold[o] = "held" /\ ~lapsed[o]

\* The request waits for the provider: it holds no lock and no transaction.
AwaitSession(r, route, o, n) ==
  req' = [req EXCEPT ![r] = [IdleRequest EXCEPT !.pc = "session", !.route = route,
                                                !.order = o, !.attempt = n]]

Finish(r) == req' = [req EXCEPT ![r] = IdleRequest]

\* submit_checkout, phase A with card or upi: order, holds, first attempt and
\* idempotency key are committed before the provider is called.
CheckoutOnline(r, o) ==
  /\ req[r] = IdleRequest /\ status[o] = "absent"
  /\ status'   = [status EXCEPT ![o] = "pending_payment"]
  /\ checkout' = [checkout EXCEPT ![o] = "awaiting_payment"]
  /\ hold'     = [hold EXCEPT ![o] = "held"]
  /\ attempt'  = [attempt EXCEPT ![o][1] = "initiated"]
  /\ last'     = [last EXCEPT ![o] = 1]
  /\ AwaitSession(r, "checkout", o, 1)
  /\ UNCHANGED <<method, lapsed, response, reference, opened, inboxVars>>

\* submit_checkout with cash on delivery: confirmed in the same transaction.
CheckoutCod(o) ==
  /\ status[o] = "absent"
  /\ status'   = [status EXCEPT ![o] = "confirmed"]
  /\ checkout' = [checkout EXCEPT ![o] = "completed"]
  /\ method'   = [method EXCEPT ![o] = "cod"]
  /\ hold'     = [hold EXCEPT ![o] = "committed"]
  /\ UNCHANGED <<lapsed, response, attemptVars, reference, opened, inboxVars, req>>

\* submit_checkout replayed with the same key before a response was stored:
\* it resumes with the newest attempt of the order.
CheckoutReplay(r, o) ==
  /\ req[r] = IdleRequest /\ ~response[o] /\ last[o] > 0
  /\ status[o] \in {"pending_payment", "confirmed"}
  /\ AwaitSession(r, "checkout", o, last[o])
  /\ UNCHANGED <<orderVars, response, attemptVars, reference, opened, inboxVars>>

-------------------------------------------------------------------------------
(***************************************************************************)
(* Payment retry                                                           *)
(***************************************************************************)
\* The two entries of retry_payment.  retry_order has read and still holds
\* the Order object when the FOR UPDATE select returns it again.
RetryBegin(r, o, route) ==
  /\ req[r] = IdleRequest /\ status[o] # "absent" /\ route \in RetryRoutes
  /\ req' = [req EXCEPT ![r] =
       [IdleRequest EXCEPT !.pc = "read_checkout", !.route = route, !.order = o,
          !.seenOrder = IF route = "retry_order" THEN status[o] ELSE "absent"]]
  /\ UNCHANGED <<orderVars, response, attemptVars, reference, opened, inboxVars>>

\* session.get(Checkout), before the order lock.
RetryReadCheckout(r) ==
  /\ req[r].pc = "read_checkout"
  /\ req' = [req EXCEPT ![r].pc = "lock",
                        ![r].seenCheckout = checkout[req[r].order]]
  /\ UNCHANGED <<orderVars, response, attemptVars, reference, opened, inboxVars>>

\* The order status retry_payment acts on once it has the order lock.
Seen(r) == IF req[r].route = "retry_order" THEN req[r].seenOrder
                                           ELSE status[req[r].order]
\* Slip: attempts ordered by ascending id.
SlipOldestAttempt(o) == last[o] = 0 \/ attempt[o][1] = "failed"
\* The newest attempt failed, or there is none.
NeedsNewAttempt(o) == last[o] = 0 \/ attempt[o][last[o]] = "failed"
MayRetry(r) == LET o == req[r].order IN
  /\ method[o] # "cod" /\ Seen(r) \in Payable /\ Committable(o)
RetryRejected(r) ==
  /\ req[r].pc = "lock" /\ ~MayRetry(r)
  /\ Finish(r)
  /\ UNCHANGED <<orderVars, response, attemptVars, reference, opened, inboxVars>>

\* The newest attempt has not failed: its provider session is asked for again.
RetrySameAttempt(r) == LET o == req[r].order IN
  /\ req[r].pc = "lock" /\ MayRetry(r)
  /\ ~NeedsNewAttempt(o)
  /\ AwaitSession(r, req[r].route, o, last[o])
  /\ UNCHANGED <<orderVars, response, attemptVars, reference, opened, inboxVars>>

\* The order becomes payable again if it was SEEN as failed.
Reopened(r, o) == IF Seen(r) = "payment_failed" THEN "pending_payment" ELSE status[o]

\* A new attempt.  Assigning the checkout the value it was read with, waiting
\* for payment, writes nothing.
RetryNewAttempt(r) == LET o == req[r].order  n == last[o] + 1 IN
  /\ req[r].pc = "lock" /\ MayRetry(r)
  /\ NeedsNewAttempt(o)
  /\ n \in AttemptIds
  /\ attempt' = [attempt EXCEPT ![o][n] = "initiated"]
  /\ last' = [last EXCEPT ![o] = n]
  /\ status' = [status EXCEPT ![o] = Reopened(r, o)]
  /\ checkout' = [checkout EXCEPT ![o] =
       IF req[r].seenCheckout # "awaiting_payment" THEN "awaiting_payment" ELSE @]
  /\ AwaitSession(r, req[r].route, o, n)
  /\ UNCHANGED <<method, hold, lapsed, response, reference, opened, inboxVars>>

\* provider.create_session: outside any transaction, idempotent per attempt.
CreateSession(r) ==
  /\ req[r].pc = "session"
  /\ opened' = [opened EXCEPT ![req[r].order][req[r].attempt] = TRUE]
  /\ req' = [req EXCEPT ![r].pc = "assign"]
  /\ UNCHANGED <<orderVars, response, attemptVars, reference, inboxVars>>

\* Phase B of submit_checkout and the end of retry_payment: the reference is
\* stored; a checkout whose response another request stored changes nothing.
AssignReference(r) == LET o == req[r].order  route == req[r].route IN
  /\ req[r].pc = "assign"
  /\ IF route = "checkout" /\ response[o]
       THEN UNCHANGED <<reference, response>>
       ELSE /\ reference' = [reference EXCEPT ![o][req[r].attempt] = TRUE]
            /\ response' = IF route = "checkout" THEN [response EXCEPT ![o] = TRUE]
                                                ELSE response
  /\ Finish(r)
  /\ UNCHANGED <<orderVars, attemptVars, opened, inboxVars>>

\* The server dies, the provider fails or the connection is cut.
Crash(r) ==
  /\ req[r] # IdleRequest
  /\ Finish(r)
  /\ UNCHANGED <<orderVars, response, attemptVars, reference, opened, inboxVars>>

-------------------------------------------------------------------------------
(***************************************************************************)
(* Provider events: process_payment_event.  Advisory lock on the event id, *)
(* then the order row, then the attempt: one transaction, first match wins.*)
(***************************************************************************)
\* A first delivery of event e with payload p.  Only sessions the provider
\* has opened can be reported on.
FirstDelivery(e, p) == inbox[e] = "absent" /\ opened[p.order][p.attempt]

\* The event refers to a known attempt and carries its amount and currency.
Matched(p) == reference[p.order][p.attempt] /\ p.exact

\* Slip: only the order is asked.
SlipAttemptIgnored(p) == /\ attempt[p.order][p.attempt] # p.status
                         /\ status[p.order] = "pending_payment"
\* The event may move the attempt.
Accepts(p) == /\ attempt[p.order][p.attempt] # p.status
              /\ status[p.order] = "pending_payment"
              /\ attempt[p.order][p.attempt] \in Live

Store(e, p, result) == /\ inbox' = [inbox EXCEPT ![e] = result]
                       /\ raw' = [raw EXCEPT ![e] = p]

\* A verified event that changes nothing is kept, with the error for which a
\* PaymentReconciliationRequired event is emitted ("processed" if none).
EventKept(e, p, result) ==
  /\ FirstDelivery(e, p)
  /\ Store(e, p, result)
  /\ UNCHANGED <<orderVars, response, attemptVars, reference, opened, transactions, req>>

\* Slip: any event for an attempt that ended counts as a repetition.
SlipEndedIsRepeated(e, p) == /\ Matched(p) /\ attempt[p.order][p.attempt] \notin Live
                             /\ EventKept(e, p, "processed")

EventUnknown(e, p) == /\ ~reference[p.order][p.attempt]
                      /\ EventKept(e, p, "payment_attempt_not_found")
EventMismatch(e, p) == /\ reference[p.order][p.attempt] /\ ~p.exact
                       /\ EventKept(e, p, "payment_amount_mismatch")
EventRepeated(e, p) == /\ Matched(p) /\ attempt[p.order][p.attempt] = p.status
                       /\ EventKept(e, p, "processed")
EventTooLate(e, p) == /\ Matched(p) /\ attempt[p.order][p.attempt] # p.status
                      /\ ~Accepts(p)
                      /\ EventKept(e, p, "invalid_payment_transition")
EventLapsed(e, p) == /\ Matched(p) /\ Accepts(p) /\ p.status = "captured"
                     /\ ~Committable(p.order)
                     /\ EventKept(e, p, "reservation_expired")

\* The attempt is moved and the transaction recorded.
EventApplied(e, p) ==
  /\ FirstDelivery(e, p) /\ Matched(p) /\ Accepts(p)
  /\ Store(e, p, "processed")
  /\ attempt' = [attempt EXCEPT ![p.order][p.attempt] = p.status]
  /\ transactions' = transactions \cup {[order |-> p.order, attempt |-> p.attempt,
                                         event |-> e, kind |-> p.status]}

EventCaptured(e, p) ==
  /\ p.status = "captured" /\ Committable(p.order)
  /\ EventApplied(e, p)
  /\ status'   = [status EXCEPT ![p.order] = "confirmed"]
  /\ checkout' = [checkout EXCEPT ![p.order] = "completed"]
  /\ hold'     = [hold EXCEPT ![p.order] = "committed"]
  /\ UNCHANGED <<method, lapsed, response, last, reference, opened, req>>

\* Slip: the order takes over the status of its attempt.
SlipAttemptStatus(e, p) ==
  /\ p.status = "failed"
  /\ EventApplied(e, p)
  /\ status'   = [status EXCEPT ![p.order] = p.status]
  /\ checkout' = [checkout EXCEPT ![p.order] = "open"]
  /\ UNCHANGED <<method, hold, lapsed, response, last, reference, opened, req>>

EventDeclined(e, p) ==
  /\ p.status = "failed"
  /\ EventApplied(e, p)
  /\ status'   = [status EXCEPT ![p.order] = "payment_failed"]
  /\ checkout' = [checkout EXCEPT ![p.order] = "open"]
  /\ UNCHANGED <<method, hold, lapsed, response, last, reference, opened, req>>

\* A known event id: already_processed, reconciliation_required or, with
\* another payload, webhook_conflict.  None of them writes.
EventDuplicate(e, p) ==
  /\ inbox[e] # "absent" /\ opened[p.order][p.attempt]
  /\ UNCHANGED vars

Webhook(e, p) ==
  \/ EventUnknown(e, p)  \/ EventMismatch(e, p) \/ EventRepeated(e, p)
  \/ EventTooLate(e, p)  \/ EventLapsed(e, p)   \/ EventCaptured(e, p)
  \/ EventDeclined(e, p) \/ EventDuplicate(e, p)

-------------------------------------------------------------------------------
(***************************************************************************)
(* Worker and staff                                                        *)
(***************************************************************************)
\* Time passes the expires_at of the order's holds; it is only looked at while
\* they are held.
Lapse(o) ==
  /\ hold[o] = "held" /\ ~lapsed[o]
  /\ lapsed' = [lapsed EXCEPT ![o] = TRUE]
  /\ UNCHANGED <<status, checkout, method, hold, response, attemptVars,
                 reference, opened, inboxVars, req>>

\* Slip: orders whose payment failed are forgotten.
SlipOnlyPending == {o \in Orders : hold[o] = "held" /\ lapsed[o]
                                   /\ status[o] = "pending_payment"}
Overdue == {o \in Orders : hold[o] = "held" /\ lapsed[o] /\ status[o] \in Payable}

Swept(S, row) == [o \in Orders |-> IF o \in S THEN "expired" ELSE row[o]]
\* sweep_expired: one transaction expires the overdue orders it could lock.
Sweep(S) ==
  /\ S # {} /\ S \subseteq Overdue
  /\ status' = Swept(S, status) /\ checkout' = Swept(S, checkout) /\ hold' = Swept(S, hold)
  /\ attempt' = [o \in Orders |-> [n \in AttemptIds |->
                   IF o \in S /\ attempt[o][n] \in Live THEN "expired"
                                                        ELSE attempt[o][n]]]
  /\ UNCHANGED <<method, lapsed, response, last, reference, opened, inboxVars, req>>

\* order_action "allocated": ORDER_TRANSITIONS allows it from "confirmed".
Allocate(o) ==
  /\ status[o] = "confirmed"
  /\ status' = [status EXCEPT ![o] = "allocated"]
  /\ UNCHANGED <<checkout, method, hold, lapsed, response, attemptVars,
                 reference, opened, inboxVars, req>>

\* Slip: the stock of a cancelled order stays committed.
SlipNothingReleased(o) ==
  /\ status[o] \in {"confirmed", "allocated"}
  /\ status' = [status EXCEPT ![o] = "cancelled"]
  /\ UNCHANGED <<checkout, method, hold, lapsed, response, attemptVars,
                 reference, opened, inboxVars, req>>
\* order_action "cancelled" and the shopper's cancel_order, with release().
CancelOrder(o) ==
  /\ status[o] \in {"confirmed", "allocated"}
  /\ status' = [status EXCEPT ![o] = "cancelled"]
  /\ hold'   = [hold EXCEPT ![o] = IF @ \in {"held", "committed"} THEN "released" ELSE @]
  /\ UNCHANGED <<checkout, method, lapsed, response, attemptVars,
                 reference, opened, inboxVars, req>>

RequestStep(r) ==
  \/ \E o \in Orders : CheckoutOnline(r, o) \/ CheckoutReplay(r, o)
  \/ \E o \in Orders, route \in AllRoutes : RetryBegin(r, o, route)
  \/ RetryReadCheckout(r) \/ RetryRejected(r) \/ RetrySameAttempt(r)
  \/ RetryNewAttempt(r) \/ CreateSession(r) \/ AssignReference(r) \/ Crash(r)

Next ==
  \/ \E r \in Requests : RequestStep(r)
  \/ \E e \in Events, p \in Payload : Webhook(e, p)
  \/ \E S \in SUBSET Orders : Sweep(S)
  \/ \E o \in Orders : CheckoutCod(o) \/ Lapse(o) \/ Allocate(o) \/ CancelOrder(o)

\* The worker sweeps every 60 seconds for as long as it runs; an order that
\* stays overdue and unlocked is in some sweep.
Fairness == \A o \in Orders : WF_vars(\E S \in SUBSET Orders : o \in S /\ Sweep(S))

Spec == Init /\ [][Next]_vars /\ Fairness

-------------------------------------------------------------------------------
(***************************************************************************)
(* Properties                                                              *)
(***************************************************************************)
LiveAttempts(o) == {n \in AttemptIds : attempt[o][n] \in Live}
Captured(o)     == {n \in AttemptIds : attempt[o][n] = "captured"}

Charges(o)      == {t \in transactions : t.order = o /\ t.kind = "captured"}

\* A shopper is never charged twice for one order, whatever the retries and
\* the order of events: at most one of its attempts is captured or could still
\* be, and the ledger has exactly one captured transaction for a captured one.
ChargedOnce == \A o \in Orders :
  /\ \A m, n \in Captured(o) \cup LiveAttempts(o) : m = n
  /\ \A t, u \in Charges(o) : t = u
  /\ {t.attempt : t \in Charges(o)} = Captured(o)

\* Money and stock move together: an order that took money, or cash on
\* delivery, keeps its stock committed until it is cancelled; an order that
\* still waits for money only holds stock; an expired one has given it back.
MoneyMatchesStock == \A o \in Orders :
  /\ Captured(o) # {} => status[o] \in Paid
  /\ status[o] \in Paid => (Captured(o) # {} \/ method[o] = "cod")
  /\ status[o] \in {"confirmed", "allocated"} <=> hold[o] = "committed"
  /\ status[o] = "cancelled" <=> hold[o] = "released"
  /\ status[o] \in Payable <=> hold[o] = "held"
  /\ status[o] = "expired" <=> hold[o] = "expired"

\* An expired or cancelled order cannot be paid any more: none of its attempts
\* is live, so a late event can only go to reconciliation.
ClosedOrdersHaveNoLiveAttempt == \A o \in Orders :
  status[o] \notin Payable => LiveAttempts(o) = {}

\* Only the newest attempt can be live, and a payable order always has a way
\* on: its newest attempt is live or has failed, so a retry never meets a
\* captured or an expired one.
NewestAttemptDecides == \A o \in Orders :
  /\ LiveAttempts(o) \subseteq {last[o]}
  /\ status[o] \in Payable =>
       last[o] > 0 /\ attempt[o][last[o]] \in Live \cup {"failed"}

\* The checkout follows its order although retry_payment writes it from a
\* value it read before the lock: it is closed exactly when the order is.
CheckoutFollowsOrder == \A o \in Orders :
  /\ checkout[o] = "completed" <=> status[o] \in Paid
  /\ checkout[o] = "expired" <=> status[o] = "expired"
  /\ checkout[o] \in {"open", "awaiting_payment"} <=> status[o] \in Payable

\* Every event marked processed tells the truth about its attempt, and a
\* captured event kept with an error took no money.
InboxTellsTheTruth == \A e \in Events :
  /\ inbox[e] = "processed" =>
       attempt[raw[e].order][raw[e].attempt] = raw[e].status
  /\ inbox[e] \in Errors => ~\E t \in transactions : t.event = e

\* Every live attempt can be paid: the order it belongs to accepts a capture.
\* It holds while payment-intent is the only retry route; the retry-payment
\* route breaks it (see LivePaymentAccepted).
LiveAttemptIsPayable == \A o \in Orders :
  LiveAttempts(o) # {} => status[o] = "pending_payment"

\* Attempts that ended stay as they ended, transactions are never rewritten,
\* and a stored event keeps its verdict.
HistoryIsKept == [][
  /\ \A o \in Orders, n \in AttemptIds :
       attempt[o][n] \in {"captured", "failed", "expired"} => attempt'[o][n] = attempt[o][n]
  /\ transactions \subseteq transactions'
  /\ \A e \in Events : inbox[e] # "absent" => inbox'[e] = inbox[e] /\ raw'[e] = raw[e]]_vars

\* The order status only moves along ORDER_TRANSITIONS, although only the
\* staff and cancellation handlers go through transition().
Transitions == [absent |-> {"pending_payment", "confirmed"},
  pending_payment |-> {"confirmed", "payment_failed", "expired"},
  payment_failed |-> {"pending_payment", "expired"},
  confirmed |-> {"allocated", "cancelled"}, allocated |-> {"cancelled"},
  expired |-> {}, cancelled |-> {}]
OrderTransitions == [][\A o \in Orders :
  status'[o] # status[o] => status'[o] \in Transitions[status[o]]]_vars

\* A capture of a live attempt, with the right amount and while the stock is
\* held, is not turned away.
LivePaymentAccepted == [][\A e \in Events :
  inbox'[e] = "invalid_payment_transition" /\ inbox[e] = "absent" =>
    LET p == raw'[e] IN
    ~(p.status = "captured" /\ attempt[p.order][p.attempt] \in Live /\ Committable(p.order))]_vars

\* Stock is not held for ever for an order nobody pays: once its hold lapses
\* the order expires.
OverdueOrdersExpire == \A o \in Orders :
  (hold[o] = "held" /\ lapsed[o]) ~> (hold[o] = "expired")

\* What the payment machinery promises to the rest of the system.
Lifecycle == INSTANCE OrderLifecycle WITH
  stage <- [o \in Orders |-> CASE status[o] \in Payable -> "unpaid"
                               [] status[o] = "confirmed" -> "placed"
                               [] OTHER -> status[o]],
  paid  <- [o \in Orders |-> Captured(o) # {}],
  stock <- [o \in Orders |-> IF hold[o] \in {"released", "expired"}
                               THEN "returned" ELSE hold[o]],
  overdue <- [o \in Orders |-> hold[o] = "held" /\ lapsed[o]]
\* Every step of the payment machinery is a step of an order's life or is
\* invisible to it, and overdue orders are expired.
LifecycleSpec == Lifecycle!Spec
===============================================================================
