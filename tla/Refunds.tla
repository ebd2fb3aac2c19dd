-------------------------------- MODULE Refunds --------------------------------
(***************************************************************************)
(* Returns, refunds, their approval by a second person, and their          *)
(* settlement by outbox workers.  Every request is one transaction that    *)
(* locks the rows it decides on before it reads them (the order, the       *)
(* return, the attempt or the approval); a settlement is two transactions  *)
(* around the call of the provider, and two workers may be at it together. *)
(*                                                                         *)
(* An order is represented by one line and by its one captured payment     *)
(* attempt (Payments shows that it has no other).                          *)
(***************************************************************************)
EXTENDS Integers, FiniteSets, Functions

CONSTANTS Orders, Returns, Refs,  \* Refs: refund identifiers
          Staff, Workers,
          Quantity,   \* order_items.quantity
          LineTotal,  \* order_items.line_total_minor
          Captured,   \* payment_attempts.captured_amount_minor: shipping included
          Amounts,    \* amounts that are asked for
          Threshold,  \* refund_approval_threshold_minor
          None

ASSUME AmountsAssumption ==
  /\ Quantity \in Nat \ {0} /\ LineTotal \in Nat /\ Captured \in Nat
  /\ LineTotal <= Captured /\ Threshold \in Nat /\ Amounts \subseteq Nat \ {0}

ASSUME FiniteAssumption == IsFiniteSet(Returns) /\ IsFiniteSet(Refs)

VARIABLES window,   \* whether the order's goods may come back now
          rma,      \* returns, with their one return_item
          refund,   \* refunds, with their approvals
          attempt,  \* payment_attempts
          worker,   \* program counter and locals of each worker
          paid      \* external: refunds the provider has carried out, by key

vars == <<window, rma, refund, attempt, worker, paid>>

-------------------------------------------------------------------------------
ReturnStatus == {"requested", "approved", "rejected", "in_transit", "received",
                 "inspected", "refund_pending", "refunded"}
Return == [order: Orders, quantity: 1..Quantity, status: ReturnStatus]
Approval == {None, "pending", "approved", "rejected"}
Refund == [order: Orders, return: Returns \cup {None}, amount: Amounts,
           status: {"awaiting_approval", "refund_pending", "refunded", "rejected"},
           approval: Approval, requestedBy: Staff, decidedBy: Staff \cup {None}]
AttemptStatus == {"captured", "partially_refunded", "refunded"}
Idle == [pc |-> "idle", refund |-> None]

ASSUME NoneAssumption == /\ None \notin Returns /\ None \notin Return /\ None \notin Refund
                         /\ None \notin {"pending", "approved", "rejected"}

TypeOK ==
  /\ window \in [Orders -> {"undelivered", "open", "closed"}]
  /\ rma \in [Returns -> {None} \cup Return]
  /\ refund \in [Refs -> {None} \cup Refund]
  /\ attempt \in [Orders -> [status: AttemptStatus, refunded: Nat]]
  /\ worker \in [Workers -> {Idle} \cup [pc: {"call", "settle"}, refund: Refs]]
  /\ paid \subseteq Refs

Init == /\ window = [o \in Orders |-> "undelivered"]
        /\ rma = [r \in Returns |-> None]
        /\ refund = [f \in Refs |-> None]
        /\ attempt = [o \in Orders |-> [status |-> "captured", refunded |-> 0]]
        /\ worker = [w \in Workers |-> Idle]
        /\ paid = {}

-------------------------------------------------------------------------------
(***************************************************************************)
(* Returns                                                                 *)
(***************************************************************************)
\* The order is delivered; later, return_window_days have passed.
Time(o) == /\ window[o] # "closed"
           /\ window' = [window EXCEPT ![o] = IF @ = "open" THEN "closed" ELSE "open"]
           /\ UNCHANGED <<rma, refund, attempt, worker, paid>>

\* Slip: units of a return that was paid may come back again.
SlipOpenReturns(o) == {r \in Returns : /\ rma[r] # None /\ rma[r].order = o
                                       /\ rma[r].status \notin {"rejected", "refunded"}}
StandingReturns(o) == {r \in Returns : /\ rma[r] # None /\ rma[r].order = o
                                       /\ rma[r].status # "rejected"}
UnitsOf(S) == SumFunctionOnSet([r \in S |-> rma[r].quantity], S)

RequestReturn(r, o, q) ==
  /\ rma[r] = None /\ window[o] = "open"
  /\ q + UnitsOf(StandingReturns(o)) <= Quantity
  /\ rma' = [rma EXCEPT ![r] = [order |-> o, quantity |-> q, status |-> "requested"]]
  /\ UNCHANGED <<window, refund, attempt, worker, paid>>

Rejections == {"requested", "inspected"} \X {"rejected"}
Advances == {<<"requested", "approved">>, <<"approved", "in_transit">>,
             <<"in_transit", "received">>, <<"received", "inspected">>} \cup Rejections

\* advance_return: also the rejection of an inspected return for which a refund
\* awaits approval.
AdvanceReturn(r, to) ==
  /\ rma[r] # None /\ <<rma[r].status, to>> \in Advances
  /\ rma' = [rma EXCEPT ![r].status = to]
  /\ UNCHANGED <<window, refund, attempt, worker, paid>>

-------------------------------------------------------------------------------
(***************************************************************************)
(* Refunds and approvals                                                   *)
(***************************************************************************)
AmountOf(S) == SumFunctionOnSet([f \in S |-> refund[f].amount], S)
RefundsOf(o) == {f \in Refs : refund[f] # None /\ refund[f].order = o}
RefundsFor(r) == {f \in Refs : refund[f] # None /\ refund[f].return = r}

\* Slip: a refund that awaits its approval reserves nothing.
SlipReleased == {"rejected", "awaiting_approval"}
NotReserving == {"rejected"}
Reserving(S) == {f \in S : refund[f].status \notin NotReserving}

WithinCapture(o, n) ==
  n + AmountOf(Reserving(RefundsOf(o))) <= Captured

\* What the goods of a return cost, rounded down.
Eligible(r) == (LineTotal * rma[r].quantity) \div Quantity
WithinReturn(r, n) == n + AmountOf(Reserving(RefundsFor(r))) <= Eligible(r)

Inspected(r) == rma[r] # None /\ rma[r].status = "inspected"
Refundable(o, r, n) == rma[r].order = o /\ WithinReturn(r, n)

NeedsApproval(n) == n > Threshold

RefundStatus(n) == IF NeedsApproval(n) THEN "awaiting_approval" ELSE "refund_pending"
\* The return is marked when its refund may go out.
Marked(r) == [rma EXCEPT ![r].status = "refund_pending"]

\* request_refund by staff who may request and not approve.  The identifier
\* stands for the idempotency key: a replay finds the refund and changes
\* nothing.
RequestRefund(f, by, o, r, n) ==
  /\ refund[f] = None
  /\ attempt[o].status \in {"captured", "partially_refunded"}
  /\ WithinCapture(o, n)
  /\ r # None => Inspected(r) /\ Refundable(o, r, n)
  /\ refund' = [refund EXCEPT ![f] =
       [order |-> o, return |-> r, amount |-> n, status |-> RefundStatus(n),
        approval |-> IF NeedsApproval(n) THEN "pending" ELSE None,
        requestedBy |-> by, decidedBy |-> None]]
  /\ rma' = IF r # None /\ ~NeedsApproval(n) THEN Marked(r) ELSE rma
  /\ UNCHANGED <<window, attempt, worker, paid>>

\* Slip: the return is not looked at again.
SlipOldInspection(r) == TRUE
StillInspected(r) == r # None => Inspected(r)
\* Slip: the requester may decide.
SlipSamePerson(f, by) == TRUE
OtherPerson(f, by) == by # refund[f].requestedBy

Decide(f, by, verdict) ==
  LET r == refund[f].return IN
  /\ refund[f] # None /\ refund[f].approval = "pending"
  /\ OtherPerson(f, by)
  /\ verdict = "approved" => StillInspected(r)
  /\ refund' = [refund EXCEPT
       ![f].approval = verdict, ![f].decidedBy = by,
       ![f].status = IF verdict = "approved" THEN "refund_pending" ELSE "rejected"]
  /\ rma' = IF verdict = "approved" /\ r # None THEN Marked(r) ELSE rma
  /\ UNCHANGED <<window, attempt, worker, paid>>

-------------------------------------------------------------------------------
(***************************************************************************)
(* refund_handler                                                          *)
(***************************************************************************)
Executable(f) == refund[f].status = "refund_pending"

\* The first transaction: a refund that was settled already, or may not go out,
\* ends the handler.
Read(w, f) ==
  /\ worker[w] = Idle /\ refund[f] # None /\ Executable(f)
  /\ worker' = [worker EXCEPT ![w] = [pc |-> "call", refund |-> f]]
  /\ UNCHANGED <<window, rma, refund, attempt, paid>>

\* The provider carries a refund out once, however often it is asked for one
\* key; the answer may be lost, and the event will be handled again.
Call(w) ==
  /\ worker[w].pc = "call"
  /\ paid' = paid \cup {worker[w].refund}
  /\ \E next \in {Idle, [worker[w] EXCEPT !.pc = "settle"]} :
       worker' = [worker EXCEPT ![w] = next]
  /\ UNCHANGED <<window, rma, refund, attempt>>

\* Slip: the total is taken for the amount of this refund.
SlipThisRefund(a, n) == IF n = Captured THEN "refunded" ELSE "partially_refunded"
AttemptStatusAfter(a, n) ==
  IF a.refunded + n = Captured THEN "refunded" ELSE "partially_refunded"

Unsettled(f) == refund[f].status # "refunded"

\* The second transaction, under the row locks of attempt and refund.
Settle(w) ==
  LET f == worker[w].refund
      o == refund[f].order
      n == refund[f].amount
      r == refund[f].return IN
  /\ worker[w].pc = "settle"
  /\ worker' = [worker EXCEPT ![w] = Idle]
  /\ \/ /\ Unsettled(f)
        /\ attempt' = [attempt EXCEPT ![o].refunded = @ + n,
                                      ![o].status = AttemptStatusAfter(attempt[o], n)]
        /\ refund' = [refund EXCEPT ![f].status = "refunded"]
        /\ rma' = IF r # None THEN [rma EXCEPT ![r].status = "refunded"] ELSE rma
     \/ ~Unsettled(f) /\ UNCHANGED <<attempt, refund, rma>>
  /\ UNCHANGED <<window, paid>>

\* A crash, the time limit or a lost lease: the event is handled again.
Fail(w) == /\ worker[w] # Idle
           /\ worker' = [worker EXCEPT ![w] = Idle]
           /\ UNCHANGED <<window, rma, refund, attempt, paid>>

Next ==
  \/ \E o \in Orders : Time(o)
  \/ \E r \in Returns, o \in Orders, q \in 1..Quantity : RequestReturn(r, o, q)
  \/ \E r \in Returns, to \in ReturnStatus : AdvanceReturn(r, to)
  \/ \E f \in Refs, by \in Staff, o \in Orders, r \in Returns \cup {None}, n \in Amounts :
       RequestRefund(f, by, o, r, n)
  \/ \E f \in Refs, by \in Staff, verdict \in {"approved", "rejected"} : Decide(f, by, verdict)
  \/ \E w \in Workers : Call(w) \/ Settle(w) \/ Fail(w)
  \/ \E w \in Workers, f \in Refs : Read(w, f)

Spec == Init /\ [][Next]_vars

-------------------------------------------------------------------------------
(***************************************************************************)
(* Properties                                                              *)
(***************************************************************************)
GoneOut(f) == refund[f] # None /\ refund[f].status \in {"refund_pending", "refunded"}

\* Refunds never promise more than was captured, the ones that await their
\* approval included: an approval cannot overdraw the payment, nor can the
\* table's amounts_valid constraint stop a settlement the provider has paid.
RefundsWithinCapture == \A o \in Orders : AmountOf(Reserving(RefundsOf(o))) <= Captured

\* The provider only ever paid what was requested, approved where that is
\* needed, by a person other than the requester; once it has paid, the refund
\* cannot be rejected any more.
PaidWasAuthorised == \A f \in paid :
  /\ GoneOut(f)
  /\ refund[f].amount > Threshold =>
       refund[f].approval = "approved" /\ refund[f].decidedBy # refund[f].requestedBy

\* The attempt's books are those of the provider: the refunded amount is the
\* sum of the settled refunds, each was paid, and the status tells which part
\* of the capture went back.
BooksMatchProvider ==
  /\ \A f \in Refs : refund[f] # None /\ refund[f].status = "refunded" => f \in paid
  /\ \A o \in Orders :
       /\ attempt[o].refunded =
            AmountOf({f \in RefundsOf(o) : refund[f].status = "refunded"})
       /\ attempt[o].status = IF attempt[o].refunded = 0 THEN "captured"
                              ELSE IF attempt[o].refunded = Captured THEN "refunded"
                              ELSE "partially_refunded"

\* A refund that went out for a return stands behind goods that passed
\* inspection: its return is not rejected, is marked, and has no other one.
PaidReturnsStand == \A f \in Refs : GoneOut(f) /\ refund[f].return # None =>
  /\ rma[refund[f].return].status = refund[f].status
  /\ \A g \in RefundsFor(refund[f].return) : GoneOut(g) => g = f

\* The same goods are never refunded twice: the units of the standing returns
\* were bought, and what went out for the returns of an order is within the
\* value of those units.
GoodsRefundedOnce == \A o \in Orders :
  LET out == {f \in RefundsOf(o) : refund[f].return # None /\ GoneOut(f)}
      standing == {r \in Returns :
        rma[r] # None /\ rma[r].order = o /\ rma[r].status # "rejected"} IN
  /\ UnitsOf(standing) <= Quantity
  /\ AmountOf(out) * Quantity <= LineTotal * UnitsOf({refund[f].return : f \in out})
===============================================================================
